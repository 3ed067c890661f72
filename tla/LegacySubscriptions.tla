------------------------- MODULE LegacySubscriptions -------------------------
(***************************************************************************)
(* The subscriptions of the legacy JSON-RPC API                            *)
(* (bin/light-base/src/json_rpc_service/state_chain.rs and                 *)
(* state_chain/sub_utils.rs): new heads, finalized heads, all heads, the   *)
(* runtime version and storage.  A task turns the notifications of the     *)
(* runtime service, which may close its subscription at any time, into     *)
(* values, of which a slow client may only read the latest.                *)
(*                                                                         *)
(* A client has one subscription at a time.  The limit on the number of    *)
(* subscriptions is that of RequestsSubscriptions.                         *)
(***************************************************************************)
EXTENDS Integers, Sequences, SequencesExt, TLC

CONSTANTS LastBlock, \* blocks are 1 .. LastBlock, 0 is the first finalized one
          Parent,    \* the parent of each block, lower than it
          Updates,   \* the blocks that change the runtime
          Keys,      \* the keys of a storage subscription
          Value,     \* Value[b][k] is the storage of block b
          MayFail,   \* whether storage queries may fail
          FeedCap,   \* capacity of the channel of the runtime service
          QueueCap   \* notifications of all heads that can wait for the client

VARIABLES up,     \* the runtime service
          feed,   \* the subscription to it
          task,   \* the subscription: what it has been told, and where it is
          queue,  \* its queue of notifications
          client  \* what the client has read

legacyVars == <<up, feed, task, queue, client>>

BlockSet == 1 .. LastBlock
AncestorsOf[b \in 0 .. LastBlock] == IF b = 0 THEN {0} ELSE {b} \cup AncestorsOf[Parent[b]]
AncestorTable == [b \in 0 .. LastBlock |-> AncestorsOf[b]]
Kept(tree, b) == {c \in tree : c # b /\ b \in AncestorTable[c]}

\* The block that introduced the runtime of a block.
RuntimeOf(b) == Max((AncestorTable[b] \cap Updates) \cup {0})

-----------------------------------------------------------------------------
(* The runtime service.                                                    *)

Note(kind, b, best, pruned) == [kind |-> kind, block |-> b, best |-> best, pruned |-> pruned]
Notify(n) ==
    feed' = CASE ~ feed.open -> feed
              [] feed.open /\ Len(feed.buf) < FeedCap -> [feed EXCEPT !.buf = Append(@, n)]
              [] OTHER -> [feed EXCEPT !.open = FALSE]

Running == task.fault = "none"
UpOnly == Running /\ UNCHANGED <<task, queue, client>>

NewBlock(b, isNewBest) ==
    /\ UpOnly /\ up.known /\ b \notin up.tree /\ Parent[b] \in up.tree \cup {up.fin}
    /\ up' = [up EXCEPT !.tree = @ \cup {b}, !.best = IF isNewBest THEN b ELSE @]
    /\ Notify(Note("Block", b, IF isNewBest THEN b ELSE up.best, {}))
NewBest(b) ==
    /\ UpOnly /\ up.known /\ b \in up.tree \ {up.best}
    /\ up' = [up EXCEPT !.best = b]
    /\ Notify(Note("Best", b, b, {}))
NewFinalized(b, best) ==
    /\ UpOnly /\ up.known /\ b \in up.tree
    /\ best \in Kept(up.tree, b) \cup {b} /\ (b \in AncestorTable[up.best] => best = up.best)
    /\ up' = [up EXCEPT !.fin = b, !.tree = Kept(@, b), !.best = best]
    /\ Notify(Note("Finalized", b, best, up.tree \ (AncestorTable[b] \cup Kept(up.tree, b))))
Close(gap) ==
    /\ UpOnly /\ feed.open
    /\ feed' = [feed EXCEPT !.open = FALSE]
    /\ up' = [up EXCEPT !.known = ~ gap]
RuntimeKnown == UpOnly /\ ~ up.known /\ up' = [up EXCEPT !.known = TRUE] /\ UNCHANGED feed

-----------------------------------------------------------------------------
(* The queue of notifications of the client.                               *)

Item(v, changes) == [value |-> v, changes |-> changes]
set_queued_notification(item) == queue' = <<item>>
try_push_notification(item) == queue' = IF Len(queue) < QueueCap THEN Append(queue, item) ELSE queue

NobodySubscribed == [subscribed |-> FALSE, last |-> -1, heads |-> {}, values |-> <<>>]
ClientReads ==
    /\ Running /\ queue # <<>>
    /\ queue' = Tail(queue)
    /\ client' = [client EXCEPT !.last = IF task.kind = "AllHeads" THEN @ ELSE Head(queue).value,
                                !.heads = IF task.kind = "AllHeads" THEN @ \cup {Head(queue).value} ELSE @,
                                !.values = Head(queue).changes @@ @]
    /\ UNCHANGED <<up, feed, task>>

-----------------------------------------------------------------------------
(* The request, and the task.                                              *)

Idle == [pc |-> "none", kind |-> "NewHeads", headers |-> <<>>, fin |-> 0, best |-> 0, known |-> <<>>, fault |-> "none"]
NoFeed == [open |-> FALSE, buf |-> <<>>]

LegacyInit ==
    /\ up = [fin |-> 0, tree |-> {}, best |-> 0, known |-> TRUE]
    /\ feed = NoFeed /\ task = Idle /\ queue = <<>> /\ client = NobodySubscribed

\* The identifier is inserted in the list, and the client is told of it, before
\* anything else.
Subscribe(kind) ==
    /\ Running /\ ~ client.subscribed
    /\ client' = [client EXCEPT !.subscribed = TRUE]
    /\ task' = [Idle EXCEPT !.pc = "subscribing", !.kind = kind,
                            !.known = IF kind = "Storage" THEN [k \in Keys |-> -1] ELSE <<>>]
    /\ UNCHANGED <<up, feed, queue>>
chain_subscribe_new_heads == Subscribe("NewHeads")
chain_subscribe_finalized_heads == Subscribe("FinalizedHeads")
chain_subscribe_all_heads == Subscribe("AllHeads")
state_subscribe_runtime_version == Subscribe("RuntimeSpec")
subscribe_storage == Keys # {} /\ Subscribe("Storage")

Unsubscribe(kind) ==
    /\ Running /\ client.subscribed /\ task.kind = kind
    /\ client' = NobodySubscribed /\ task' = Idle /\ feed' = NoFeed /\ queue' = <<>> /\ UNCHANGED up
chain_unsubscribe_new_heads == Unsubscribe("NewHeads")
chain_unsubscribe_finalized_heads == Unsubscribe("FinalizedHeads")
chain_unsubscribe_all_heads == Unsubscribe("AllHeads")
state_unsubscribe_runtime_version == Unsubscribe("RuntimeSpec")
state_unsubscribe_storage == Unsubscribe("Storage")

\* A value of the stream: it goes to the queue, or is a block whose storage has
\* to be queried.
Emit(t, values) ==
    IF values = <<>> THEN task' = t /\ UNCHANGED queue
    ELSE CASE t.kind = "Storage" -> task' = [t EXCEPT !.pc = "querying"] /\ UNCHANGED queue
           [] t.kind = "AllHeads" -> task' = t /\ try_push_notification(Item(values[1], <<>>))
           [] OTHER -> task' = t /\ set_queued_notification(Item(values[1], <<>>))

\* subscribe_all sleeps until the runtime is known.
subscribe_all ==
    /\ Running /\ task.pc = "subscribing" /\ up.known
    /\ feed' = [open |-> TRUE, buf |-> <<>>]
    /\ task' = [task EXCEPT !.pc = "unpinning", !.fin = up.fin, !.best = up.best,
                            !.headers = LET runtime == task.kind = "RuntimeSpec"
                                            Origin(b) == Max((AncestorTable[b] \cap Updates \cap up.tree) \cup {up.fin})
                                        IN CASE task.kind = "AllHeads" -> <<>>
                                             [] task.kind = "FinalizedHeads" -> [b \in up.tree |-> b]
                                             [] OTHER -> [b \in up.tree \cup {up.fin} |-> IF runtime THEN Origin(b) ELSE b]]
    /\ UNCHANGED <<up, queue, client>>

\* The first value of each kind of stream.
CurrentFinalized(t) == CASE t.kind = "AllHeads" -> <<>>
                         [] t.kind = "RuntimeSpec" -> <<RuntimeOf(t.headers[t.fin])>>
                         [] OTHER -> <<t.fin>>
Current(t) == CASE t.kind = "AllHeads" -> <<>>
                [] t.kind = "FinalizedHeads" -> <<t.fin>>
                [] t.kind = "RuntimeSpec" -> <<RuntimeOf(t.headers[t.best])>>
                [] OTHER -> <<t.best>>
unpin_initial ==
    /\ Running /\ task.pc = "unpinning"
    /\ IF up.known THEN Emit([task EXCEPT !.pc = "loop"], Current(task))
       ELSE task' = [task EXCEPT !.fault = "Invalid subscription"] /\ UNCHANGED queue
    /\ UNCHANGED <<up, feed, client>>

\* What a stream does with a notification: the blocks that it looks up, its new
\* state, and the value that it generates if any.
Result(needs, t, values) == [needs |-> needs, task |-> t, values |-> values]
Without(headers, blocks) == [b \in DOMAIN headers \ blocks |-> headers[b]]

subscribe_finalized(t, n) ==
    CASE n.kind = "Block" -> Result({}, [t EXCEPT !.headers = (n.block :> n.block) @@ @], <<>>)
      [] n.kind = "Best" -> Result({}, t, <<>>)
      [] OTHER -> Result(n.pruned \cup {n.block}, [t EXCEPT !.headers = Without(@, n.pruned \cup {n.block}), !.fin = n.block], <<n.block>>)

\* The finalized block that is replaced is removed, but not those between it and
\* the new one.
WithoutOldFinalized(t, n) == [t EXCEPT !.headers = Without(@, n.pruned \cup {t.fin}), !.fin = n.block, !.best = n.best]

subscribe_best(t, n) ==
    CASE n.kind = "Block" ->
           Result({}, [t EXCEPT !.headers = (n.block :> n.block) @@ @, !.best = IF n.best = n.block THEN n.block ELSE @],
                  IF n.best = n.block THEN <<n.block>> ELSE <<>>)
      [] n.kind = "Best" -> Result({n.block}, [t EXCEPT !.best = n.block], IF n.block # t.best THEN <<n.block>> ELSE <<>>)
      [] OTHER -> Result(n.pruned \cup {t.fin} \cup {n.best}, WithoutOldFinalized(t, n), IF n.best # t.best THEN <<n.best>> ELSE <<>>)

subscribe_runtime_version(t, n) ==
    LET Switch(headers, needs, next) ==
            Result(needs, next,
                   IF needs \subseteq DOMAIN headers /\ headers[next.best] # headers[t.best] THEN <<RuntimeOf(headers[next.best])>> ELSE <<>>)
        origin == IF n.block \in Updates THEN n.block ELSE IF Parent[n.block] \in DOMAIN t.headers THEN t.headers[Parent[n.block]] ELSE -1
        added == (n.block :> origin) @@ t.headers
    IN CASE n.kind = "Block" ->
              LET next == [t EXCEPT !.headers = added, !.best = IF n.best = n.block THEN n.block ELSE @]
                  needs == IF n.block \in Updates THEN {} ELSE {Parent[n.block]}
              IN Switch(added, IF n.best = n.block THEN needs \cup {t.best} ELSE needs, next)
         [] n.kind = "Best" -> Switch(t.headers, {t.best, n.block}, [t EXCEPT !.best = n.block])
         [] OTHER -> Switch(t.headers, {t.best, n.best, t.fin} \cup n.pruned, WithoutOldFinalized(t, n))

all_heads(t, n) == Result({}, t, IF n.kind = "Block" THEN <<n.block>> ELSE <<>>)

Stream(t, n) == CASE t.kind = "AllHeads" -> all_heads(t, n)
                  [] t.kind = "FinalizedHeads" -> subscribe_finalized(t, n)
                  [] t.kind = "RuntimeSpec" -> subscribe_runtime_version(t, n)
                  [] OTHER -> subscribe_best(t, n)

\* A new block is unpinned right away.
NextNotification ==
    /\ Running /\ task.pc = "loop" /\ feed.buf # <<>>
    /\ LET n == Head(feed.buf)
           r == Stream(task, n)
       IN CASE n.kind = "Block" /\ ~ up.known -> task' = [task EXCEPT !.fault = "Invalid subscription"] /\ UNCHANGED queue
            [] ~ (r.needs \subseteq DOMAIN task.headers) -> task' = [task EXCEPT !.fault = "unwrap"] /\ UNCHANGED queue
            [] OTHER -> Emit(r.task, r.values)
    /\ feed' = [feed EXCEPT !.buf = Tail(@)]
    /\ UNCHANGED <<up, client>>

ResubscribeAfterGap ==
    /\ Running /\ task.pc = "loop" /\ feed.buf = <<>> /\ ~ feed.open /\ ~ up.known
    /\ task' = [task EXCEPT !.pc = "subscribing", !.headers = <<>>]
    /\ UNCHANGED <<up, feed, queue, client>>

\* The stream starts again, on a new subscription, once the service has closed
\* the previous one.
Resubscribe ==
    /\ Running /\ task.pc = "loop" /\ feed.buf = <<>> /\ ~ feed.open
    /\ task' = [task EXCEPT !.pc = "subscribing", !.headers = <<>>]
    /\ UNCHANGED <<up, feed, queue, client>>

\* The keys whose query succeeds are compared with what was last seen.
storage_updates(answered) ==
    /\ Running /\ task.pc = "querying" /\ (MayFail \/ answered = Keys)
    /\ LET changed == {k \in answered : task.known[k] # Value[task.best + 1][k]}
           changes == [k \in changed |-> Value[task.best + 1][k]]
       IN /\ task' = [task EXCEPT !.pc = "loop", !.known = changes @@ @]
          /\ IF changed = {} THEN UNCHANGED queue ELSE set_queued_notification(Item(task.best, changes))
    /\ UNCHANGED <<up, feed, client>>

-----------------------------------------------------------------------------
LegacyTask == subscribe_all \/ unpin_initial \/ NextNotification \/ Resubscribe
                  \/ \E answered \in SUBSET Keys : storage_updates(answered)
Requests ==
    \/ chain_subscribe_new_heads \/ chain_subscribe_finalized_heads \/ chain_subscribe_all_heads
    \/ state_subscribe_runtime_version \/ subscribe_storage
    \/ chain_unsubscribe_new_heads \/ chain_unsubscribe_finalized_heads \/ chain_unsubscribe_all_heads
    \/ state_unsubscribe_runtime_version \/ state_unsubscribe_storage
LegacyNext ==
    \/ \E b \in BlockSet, isNewBest \in BOOLEAN : NewBlock(b, isNewBest)
    \/ \E b \in BlockSet : NewBest(b)
    \/ \E b, best \in BlockSet : NewFinalized(b, best)
    \/ \E gap \in BOOLEAN : Close(gap)
    \/ RuntimeKnown \/ ClientReads \/ Requests \/ LegacyTask

LegacyFairness == WF_legacyVars(LegacyTask) /\ WF_legacyVars(ClientReads) /\ WF_legacyVars(RuntimeKnown)
LegacySpec == LegacyInit /\ [][LegacyNext]_legacyVars
FairLegacySpec == LegacySpec /\ LegacyFairness

-----------------------------------------------------------------------------
(* Properties.                                                             *)

\* Whatever notifications were overwritten, dropped with a closed subscription or
\* not generated, a client that has read everything knows the current best block,
\* finalized block, runtime or values (sub_utils.rs), and no block is ever
\* reported twice by chain_subscribeAllHeads.
Delivered ==
    CASE task.kind = "NewHeads" -> client.last = up.best
      [] task.kind = "FinalizedHeads" -> client.last = up.fin
      [] task.kind = "RuntimeSpec" -> client.last = RuntimeOf(up.best)
      [] task.kind = "Storage" -> (~ MayFail => client.values = Value[up.best + 1])
      [] OTHER -> TRUE
HeadsDelivered ==
    /\ client.subscribed /\ task.pc = "loop" /\ feed.open /\ feed.buf = <<>> /\ queue = <<>> => Delivered
    /\ task.kind = "AllHeads" =>
          \A i \in DOMAIN queue : queue[i].value \notin client.heads /\ \A j \in DOMAIN queue : queue[i] = queue[j] => i = j

\* A stream always finds the headers that it looks up: those of the best blocks,
\* of the parents of new blocks and of the blocks being finalized or pruned
\* (the unwraps of sub_utils.rs).
HeadersFound == task.fault # "unwrap"

\* A client that stays subscribed ends up with the current value, in spite of the
\* subscriptions that the runtime service closes.
EventuallyDelivered == [](client.subscribed => <>(~ client.subscribed \/ task.fault # "none" \/ Delivered))
=============================================================================
