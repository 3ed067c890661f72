------------------------------- MODULE JsonRpc -------------------------------
(***************************************************************************)
(* The requests of the JSON-RPC service that need a block                  *)
(* (bin/light-base/src/json_rpc_service.rs, json_rpc_service/              *)
(* state_chain.rs): a few workers handle them in parallel, next to the     *)
(* task that keeps the recent blocks of the runtime service pinned in a    *)
(* cache.  They share the cache behind a lock, the fetches of the headers  *)
(* of older blocks, and the virtual machine of the runtime.                *)
(*                                                                         *)
(* The chain is linear: the cache knows nothing of forks.  All the blocks  *)
(* have the same runtime, which is what makes the calls compete for it.    *)
(***************************************************************************)
EXTENDS Integers, Sequences, SequencesExt

CONSTANTS LastBlock,   \* blocks are 0 .. LastBlock
          Workers,     \* max_parallel_requests of them
          FeedCap,     \* capacity of the channel of the runtime service
          CacheCap,    \* capacity of recent_pinned_blocks
          MaxRequests, \* requests that the client sends
          MaxGaps,     \* times that the runtime service loses track of the chain
          Nobody

VARIABLES up,      \* the runtime service: its finalized and best blocks, whether the runtime is known
          feed,    \* the subscription of the cache: its channel and its pinned blocks
          cache,   \* Cache, and the task that fills it
          roots,   \* block_state_root_hashes_numbers
          worker,  \* what each worker does
          vm,      \* the worker that has taken the virtual machine
          left,    \* requests yet to come
          fault    \* whether the service has panicked

rpcVars == <<up, feed, cache, roots, worker, vm, left, fault>>

BlockSet == 0 .. LastBlock
Idle == [pc |-> "idle", kind |-> "none", block |-> 0]

RpcInit ==
    /\ up = [fin |-> 0, best |-> 0, known |-> FALSE, gaps |-> 0]
    /\ feed = [open |-> FALSE, buf |-> <<>>, pins |-> {}]
    /\ cache = [pc |-> "subscribing", lru |-> <<>>]
    /\ roots = [b \in BlockSet |-> "none"]
    /\ worker = [w \in Workers |-> Idle] /\ vm = Nobody /\ left = MaxRequests /\ fault = FALSE

-----------------------------------------------------------------------------
(* The runtime service.                                                    *)

UpOnly == ~ fault /\ UNCHANGED <<cache, roots, worker, vm, left, fault>>

NewBlock ==
    /\ UpOnly /\ up.known /\ up.best < LastBlock
    /\ up' = [up EXCEPT !.best = @ + 1]
    /\ feed' = CASE ~ feed.open -> feed
                 [] feed.open /\ Len(feed.buf) < FeedCap ->
                       [feed EXCEPT !.buf = Append(@, up.best + 1), !.pins = @ \cup {up.best + 1}]
                 [] OTHER -> [feed EXCEPT !.open = FALSE, !.pins = {}]
Finalize ==
    /\ UpOnly /\ up.known /\ up.fin < up.best
    /\ up' = [up EXCEPT !.fin = up.best] /\ UNCHANGED feed
Gap ==
    /\ UpOnly /\ up.known /\ up.gaps < MaxGaps
    /\ up' = [up EXCEPT !.known = FALSE, !.gaps = @ + 1] /\ feed' = [feed EXCEPT !.open = FALSE, !.pins = {}]
RuntimeKnown == UpOnly /\ ~ up.known /\ up' = [up EXCEPT !.known = TRUE] /\ UNCHANGED feed

\* unpin_block panics if no runtime is known, or if the block isn't pinned by a
\* subscription that exists.
UnpinPanics(b) == ~ up.known \/ (feed.open /\ b \notin feed.pins)

\* pinned_block_runtime_lock panics if the block isn't pinned.
pinned_block_runtime_lock(b) == up.known /\ b \in feed.pins

-----------------------------------------------------------------------------
(* The cache of the recent blocks.                                         *)

CacheOnly == ~ fault /\ UNCHANGED <<up, roots, worker, vm, left>>

\* The lock is held from the call to subscribe_all to the end of the filling.
LockFree == cache.pc = "loop"

CacheSubscribe ==
    /\ CacheOnly /\ cache.pc = "subscribing" /\ up.known
    /\ feed' = [open |-> TRUE, buf |-> <<>>, pins |-> up.fin .. up.best]
    /\ cache' = [pc |-> "filling", lru |-> [i \in 1 .. up.best - up.fin + 1 |-> up.fin + i - 1]]
    /\ UNCHANGED fault

\* The oldest blocks are evicted, and unpinned, to make room.
Evicted(lru) == SubSeq(lru, 1, Len(lru) - CacheCap)
Unpinned(lru) == IF feed.open THEN [feed EXCEPT !.pins = @ \ Range(Evicted(lru))] ELSE feed
Evict(lru) ==
    /\ fault' = (\E b \in Range(Evicted(lru)) : UnpinPanics(b))
    /\ cache' = [pc |-> "loop", lru |-> IF Len(lru) > CacheCap THEN SubSeq(lru, Len(lru) - CacheCap + 1, Len(lru)) ELSE lru]
FillUnpinningNothing == CacheOnly /\ cache.pc = "filling" /\ Evict(cache.lru) /\ UNCHANGED feed
CacheFill == CacheOnly /\ cache.pc = "filling" /\ Evict(cache.lru) /\ feed' = Unpinned(cache.lru)

CacheNotification ==
    /\ CacheOnly /\ cache.pc = "loop" /\ feed.buf # <<>>
    /\ LET lru == Append(cache.lru, Head(feed.buf))
       IN Evict(lru) /\ feed' = [Unpinned(lru) EXCEPT !.buf = Tail(@)]
CacheClosed ==
    /\ CacheOnly /\ cache.pc = "loop" /\ feed.buf = <<>> /\ ~ feed.open
    /\ cache' = [cache EXCEPT !.pc = "subscribing"] /\ UNCHANGED <<feed, fault>>

\* LruCache::get makes a block the most recent one; contains doesn't.
Cached(b) == b \in Range(cache.lru)
Promote(b) == cache' = IF Cached(b) THEN [cache EXCEPT !.lru = Append(SelectSeq(@, LAMBDA c : c # b), b)] ELSE cache

-----------------------------------------------------------------------------
(* handle_request.                                                         *)

Goto(w, pc) == worker' = [worker EXCEPT ![w].pc = pc]
Respond(w) == worker' = [worker EXCEPT ![w] = Idle]
At(w, pc) == ~ fault /\ worker[w].pc = pc /\ UNCHANGED <<up, feed, left>>
Panics(yes, w, pc) == fault' = yes /\ IF yes THEN UNCHANGED worker ELSE Goto(w, pc)

\* A block that is given goes straight to the lookup; otherwise, the best block is
\* asked to the runtime service.
handle_request(w, kind, asksBest, b) ==
    /\ ~ fault /\ worker[w].pc = "idle" /\ left > 0 /\ b <= up.best
    /\ left' = left - 1
    /\ worker' = [worker EXCEPT ![w] = [pc |-> IF asksBest THEN "best" ELSE "lookup", kind |-> kind, block |-> b]]
    /\ UNCHANGED <<up, feed, cache, roots, vm, fault>>

account_next_index(w) == handle_request(w, "call", TRUE, 0)
payment_query_info(w, b) == handle_request(w, "call", FALSE, b)
state_call(w, b) == handle_request(w, "call", FALSE, b)
state_get_metadata(w, b) == handle_request(w, "call", FALSE, b)
state_get_runtime_version(w, b) == handle_request(w, "version", FALSE, b)
state_get_keys(w, b) == handle_request(w, "storage", FALSE, b)
state_get_keys_paged(w, b) == handle_request(w, "storage", FALSE, b)
state_get_storage(w) == handle_request(w, "storage", TRUE, 0)
state_query_storage_at(w) == handle_request(w, "storage", TRUE, 0)
chain_get_header(w, b) == handle_request(w, "header", FALSE, b)
chain_get_block(w, b) == handle_request(w, "block", FALSE, b)

subscribe_best(w) ==
    /\ At(w, "best") /\ up.known
    /\ worker' = [worker EXCEPT ![w].pc = "lookup", ![w].block = up.best]
    /\ UNCHANGED <<cache, roots, vm, fault>>

\* now_or_never, which turns the future of a finished fetch into its result.
Polled(b) == [roots EXCEPT ![b] = CASE @ = "ok" -> "doneOk" [] @ = "err" -> "doneErr" [] OTHER -> @]

\* The first look at the cache.
Lookup(w) ==
    /\ At(w, "lookup") /\ LockFree /\ UNCHANGED vm
    /\ LET b == worker[w].block IN
       CASE worker[w].kind = "block" -> Promote(b) /\ roots' = Polled(b) /\ Goto(w, "network") /\ UNCHANGED fault
         [] worker[w].kind = "header" ->
              /\ Promote(b) /\ UNCHANGED fault
              /\ IF Cached(b) THEN Respond(w) /\ UNCHANGED roots ELSE roots' = Polled(b) /\ Goto(w, "network")
         [] worker[w].kind \in {"call", "version"} /\ Cached(b) ->
              Panics(~ pinned_block_runtime_lock(b), w, "runtime") /\ UNCHANGED <<cache, roots>>
         [] OTHER -> Goto(w, "root") /\ UNCHANGED <<cache, roots, fault>>

\* state_trie_root_hash: the header, if it is cached; the fetch in progress or the
\* result of an earlier one; or a new fetch, that later requests share.
state_trie_root_hash(w) ==
    /\ At(w, "root") /\ LockFree /\ UNCHANGED <<vm, fault>>
    /\ LET b == worker[w].block IN
       /\ Promote(b)
       /\ CASE Cached(b) \/ roots[b] = "doneOk" -> Goto(w, "code") /\ UNCHANGED roots
            [] ~ Cached(b) /\ roots[b] \in {"none", "doneErr"} -> roots' = [roots EXCEPT ![b] = "pending"] /\ Goto(w, "await")
            [] ~ Cached(b) /\ roots[b] = "pending" -> Goto(w, "await") /\ UNCHANGED roots
            [] OTHER -> Goto(w, IF roots[b] = "ok" THEN "code" ELSE "failed") /\ UNCHANGED roots

\* The end of a fetch, which wakes everyone who waits for it up.
Fetched(b, ok) ==
    /\ ~ fault /\ roots[b] = "pending"
    /\ roots' = [roots EXCEPT ![b] = IF ok THEN "ok" ELSE "err"]
    /\ worker' = [w \in Workers |-> IF worker[w].pc = "await" /\ worker[w].block = b
                                    THEN [worker[w] EXCEPT !.pc = IF ok THEN "code" ELSE "failed"] ELSE worker[w]]
    /\ UNCHANGED <<up, feed, cache, vm, left, fault>>

\* A failed fetch: an error for a storage request, a panic for a call.
RootFailed(w) ==
    /\ At(w, "failed") /\ UNCHANGED <<cache, roots, vm>>
    /\ IF worker[w].kind = "storage" THEN Respond(w) /\ UNCHANGED fault ELSE fault' = TRUE /\ UNCHANGED worker

\* storage_query, for the values of the request or for the code of the runtime,
\* which is compiled and pinned until it is locked.
storage_query(w, ok) ==
    /\ At(w, "code") /\ UNCHANGED <<cache, roots, vm>>
    /\ IF worker[w].kind = "storage" \/ (~ ok /\ worker[w].kind = "call") THEN Respond(w) /\ UNCHANGED fault
       ELSE Panics(~ ok, w, "runtime")

\* The network requests of chain_getBlock and chain_getHeader.
Network(w) == At(w, "network") /\ Respond(w) /\ UNCHANGED <<cache, roots, vm, fault>>

\* RuntimeLock::specification.
specification(w) ==
    /\ At(w, "runtime") /\ worker[w].kind = "version"
    /\ Respond(w) /\ UNCHANGED <<cache, roots, vm, fault>>

\* RuntimeLock::start: the call proof, whose absence only matters later, and the
\* virtual machine once it is free.
start(w) ==
    /\ At(w, "runtime") /\ worker[w].kind = "call" /\ vm = Nobody
    /\ vm' = w /\ Goto(w, "running") /\ UNCHANGED <<cache, roots, fault>>

\* The end of runtime_call, whether it succeeds or not: the machine is put back.
KeepMachine(w) ==
    /\ At(w, "running") /\ vm = w
    /\ Respond(w) /\ UNCHANGED <<cache, roots, vm, fault>>
runtime_call(w) ==
    /\ At(w, "running") /\ vm = w
    /\ vm' = Nobody /\ Respond(w) /\ UNCHANGED <<cache, roots, fault>>

-----------------------------------------------------------------------------
CacheTask == CacheSubscribe \/ CacheFill \/ CacheNotification \/ CacheClosed
Handles(w) ==
    \/ subscribe_best(w) \/ Lookup(w) \/ state_trie_root_hash(w) \/ RootFailed(w)
    \/ \E ok \in BOOLEAN : storage_query(w, ok)
    \/ Network(w) \/ specification(w) \/ start(w) \/ runtime_call(w)
Asks(w) ==
    \/ account_next_index(w) \/ state_get_storage(w) \/ state_query_storage_at(w)
    \/ \E b \in BlockSet : \/ payment_query_info(w, b) \/ state_call(w, b) \/ state_get_metadata(w, b)
                           \/ state_get_runtime_version(w, b) \/ state_get_keys(w, b) \/ state_get_keys_paged(w, b)
                           \/ chain_get_header(w, b) \/ chain_get_block(w, b)
RpcNext ==
    \/ NewBlock \/ Finalize \/ Gap \/ RuntimeKnown \/ CacheTask
    \/ \E b \in BlockSet, ok \in BOOLEAN : Fetched(b, ok)
    \/ \E w \in Workers : Asks(w) \/ Handles(w)

RpcFairness ==
    /\ WF_rpcVars(RuntimeKnown) /\ WF_rpcVars(CacheTask)
    /\ \A b \in BlockSet : WF_rpcVars(\E ok \in BOOLEAN : Fetched(b, ok))
    /\ \A w \in Workers : SF_rpcVars(Handles(w))
RpcSpec == RpcInit /\ [][RpcNext]_rpcVars
FairRpcSpec == RpcSpec /\ RpcFairness

-----------------------------------------------------------------------------
(* Properties.                                                             *)

\* While its subscription is open, the blocks that the cache keeps pinned in the
\* runtime service are those that it holds, plus those that it hasn't been told of
\* yet: none is pinned for ever, and none is unpinned while it can be found.
CacheMirrorsPins ==
    cache.pc = "loop" /\ feed.open /\ ~ fault =>
        /\ feed.pins = Range(cache.lru) \cup Range(feed.buf)
        /\ \A i, j \in DOMAIN cache.lru : cache.lru[i] = cache.lru[j] => i = j

\* Every request gets an answer, unless the service panics: the lock of the cache
\* is released, the fetches end for everyone who waits for them, and the virtual
\* machine is put back.
EveryRequestServed == \A w \in Workers : [](worker[w].pc # "idle" => <>(worker[w].pc = "idle" \/ fault))

\* A block that a request finds in the cache is pinned in the runtime service.
CachedBlocksPinned == LockFree /\ up.known => Range(cache.lru) \subseteq feed.pins
=============================================================================
