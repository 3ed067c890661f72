--------------------------- MODULE RuntimeService ---------------------------
(***************************************************************************)
(* bin/light-base/src/runtime_service.rs: feeds the notifications of the   *)
(* sync service into an AsyncTree whose operations download and compile    *)
(* runtimes, and forwards the output of the tree to its own subscribers,   *)
(* pinning every block it reports until the subscriber unpins it.          *)
(*                                                                         *)
(* The background task handles an event in three phases: the event itself  *)
(* and advance_and_notify_subscribers hold the lock ("advance" or, after a *)
(* finalization, "finalize"), then start_necessary_downloads takes it      *)
(* again ("downloads").  The methods of the API run when the lock is free; *)
(* they commute with the downloads.                                        *)
(* A runtime (an Arc) is named after the operation that compiled it; 0 is  *)
(* the one that comes with the subscription to the sync service.           *)
(***************************************************************************)
EXTENDS Naturals, FiniteSets, Sequences, SequencesExt, TLC

CONSTANTS
    Blocks, Nil,
    Roots,              \* the finalized blocks that the sync service may start from
    Code,               \* the value of :code in the storage of each block
    Clients,            \* callers of subscribe_all; each subscribes once
    BufferSize,         \* subscribe_all: buffer_size
    MaxPinned,          \* subscribe_all: max_pinned_blocks
    UnpinStale,         \* do subscribers still unpin once the service knows no runtime?
    RetryAfterFailed, InputBestIsLeaf, MaxTime, MaxWeight,   \* see AsyncTree
    MaxOps,             \* bound: number of runtime downloads
    MaxResets           \* bound: number of subscriptions to the sync service

VARIABLES
    \* Guarded::tree, Guarded::runtimes
    parent, state, sameAsParent, timeout, opId, weight, bestBlock, inputFinalized,
    nextWeight, finalizedWeight, finalizedData, nextOpId, now, inputBest, inFlight, wantsSame,
    known,              \* is the GuardedInner a FinalizedBlockRuntimeKnown?
    finalizedBlock,     \* FinalizedBlockRuntimeKnown::finalized_block
    runtimes,           \* Guarded::runtimes, the weak references
    runtimeOf,          \* what each operation downloads, then the Arc<Runtime> it gives
    phase,              \* what the background task is doing
    resets,
    \* the subscriptions
    client,             \* what each caller of subscribe_all is doing
    channel,            \* notifications sent and not received
    remaining,          \* all_blocks_subscriptions: pinned blocks remaining
    pinned,             \* pinned_blocks, by subscription and block
    view,               \* what the subscriber has learned from what it received
    panicked

treeVars == <<parent, state, sameAsParent, timeout, opId, weight, bestBlock, inputFinalized,
              nextWeight, finalizedWeight, finalizedData, nextOpId, now, inputBest, inFlight,
              wantsSame>>
subVars == <<client, channel, remaining, pinned, view>>
vars == <<treeVars, known, finalizedBlock, runtimes, runtimeOf, phase, resets, subVars, panicked>>

Tree == INSTANCE AsyncTree

EmptyMap == [b \in {} |-> Nil]
NoView == [known |-> {}, finalized |-> Nil, best |-> Nil, parent |-> EmptyMap, code |-> EmptyMap]

(* The tree of a fresh subscription to the sync service, whose finalized    *)
(* block is f.  If the runtime of f is unknown, the finalized block of the  *)
(* tree is a dummy, and f a block that the input has just finalized.  The   *)
(* blocks of `rest` are inserted under f with same_runtime_as_parent; none  *)
(* of them is the best block.                                               *)
FreshTree(f, rest, runtimeKnown) ==
    [parent |-> [b \in Blocks |-> IF b \in rest /\ ~runtimeKnown THEN f ELSE Nil],
     state |-> [b \in Blocks |->
        IF b \in rest
        THEN IF runtimeKnown /\ Code[b] = Code[f] THEN "finished" ELSE "pending"
        ELSE IF b = f /\ ~runtimeKnown THEN "pending" ELSE "absent"],
     weight |-> [b \in Blocks |-> IF b = f /\ ~runtimeKnown THEN 2 ELSE 0],
     sameAsParent |-> [b \in Blocks |-> ~runtimeKnown /\ b \in rest /\ Code[b] = Code[f]],
     wantsSame |-> [b \in Blocks |-> b \in rest /\ Code[b] = Code[f]],
     inputFinalized |-> IF runtimeKnown THEN Nil ELSE f,
     nextWeight |-> IF runtimeKnown THEN 2 ELSE 3]

Zeroes == [b \in Blocks |-> 0]
Runtime(id, code) == [id |-> id, code |-> code]
OnlyRuntime(code) == [i \in 0..MaxOps |-> Runtime(0, IF i = 0 THEN code ELSE Nil)]

(* RuntimeService::new: the tree holds the genesis block until the first    *)
(* subscription to the sync service.                                        *)
Init ==
    /\ \E genesis \in Roots : LET t == FreshTree(genesis, {}, FALSE) IN
          /\ parent = t.parent /\ state = t.state /\ weight = t.weight
          /\ sameAsParent = t.sameAsParent /\ wantsSame = t.wantsSame
          /\ inputFinalized = t.inputFinalized /\ inputBest = t.inputFinalized
          /\ nextWeight = t.nextWeight
    /\ timeout = Zeroes /\ opId = Zeroes
    /\ bestBlock = Nil /\ finalizedWeight = 1 /\ finalizedData = 0 /\ nextOpId = 1
    /\ inFlight = {} /\ runtimes = {} /\ runtimeOf = OnlyRuntime(Nil)
    /\ known = FALSE /\ finalizedBlock = Nil
    /\ now = 1 /\ resets = 0 /\ phase = "reset"
    /\ client = [c \in Clients |-> "none"]
    /\ channel = [c \in Clients |-> << >>]
    /\ remaining = [c \in Clients |-> 0]
    /\ pinned = [c \in Clients |-> EmptyMap]
    /\ view = [c \in Clients |-> NoView]
    /\ panicked = FALSE

(***************************************************************************)
(* Subscriptions                                                           *)
(***************************************************************************)

Advancing == phase \in {"advance", "finalize"}
LockFree == ~Advancing
Open(c) == client[c] = "open"
RuntimeIn(b) == runtimeOf[opId[b]]
FinalizedRuntime == runtimeOf[finalizedData]
ParentHash(b) == IF parent[b] = Nil THEN finalizedBlock ELSE parent[b]
ParentRuntime(b) == IF parent[b] = Nil THEN FinalizedRuntime ELSE RuntimeIn(parent[b])

(* BlockNotification::new_runtime, by Arc::ptr_eq. *)
NewRuntime(b) == IF RuntimeIn(b).id # ParentRuntime(b).id THEN RuntimeIn(b).code ELSE Nil

Put(map, b, value) == (b :> value) @@ map

(* What a subscriber makes of a notification. *)
Received(v, n) ==
    CASE n.kind = "block" ->
           [v EXCEPT !.known = @ \cup {n.hash},
                     !.best = IF n.isNewBest THEN n.hash ELSE @,
                     !.parent = Put(@, n.hash, n.parent),
                     !.code = Put(@, n.hash, IF n.newRuntime = Nil THEN v.code[n.parent]
                                                                   ELSE n.newRuntime)]
      [] n.kind = "finalized" ->
           [v EXCEPT !.known = @ \ ({n.hash} \cup n.pruned), !.finalized = n.hash, !.best = n.best]
      [] n.kind = "best" -> [v EXCEPT !.best = n.hash]

BlockNotification(b) ==
    [kind |-> "block", hash |-> b, parent |-> ParentHash(b), isNewBest |-> bestBlock' = b,
     newRuntime |-> NewRuntime(b)]

(* The snapshot returned by subscribe_all, as its caller understands it:    *)
(* the reported blocks in ancestry order, after the finalized block.        *)
Snapshot ==
    [known |-> Tree!Reported,
     finalized |-> finalizedBlock,
     best |-> IF bestBlock = Nil THEN finalizedBlock ELSE bestBlock,
     parent |-> [b \in Tree!Reported |-> ParentHash(b)],
     code |-> [b \in Tree!Reported \cup {finalizedBlock} |->
                  IF b = finalizedBlock THEN FinalizedRuntime.code ELSE RuntimeIn(b).code]]

(* subscribe_all, up to the end or up to wait_fut.await. *)
SubscribeAll(c) ==
    /\ LockFree
    /\ client[c] \in {"none", "notified"}
    /\ IF known
       THEN /\ client' = [client EXCEPT ![c] = "open"]
            /\ view' = [view EXCEPT ![c] = Snapshot]
            /\ remaining' = [remaining EXCEPT ![c] = MaxPinned - 1]
            /\ pinned' = [pinned EXCEPT ![c] =
                  [b \in Tree!Reported \cup {finalizedBlock} |->
                      IF b = finalizedBlock THEN [runtime |-> FinalizedRuntime, canonical |-> FALSE]
                                            ELSE [runtime |-> RuntimeIn(b), canonical |-> TRUE]]]
       ELSE client' = [client EXCEPT ![c] = "waiting"] /\ UNCHANGED <<view, remaining, pinned>>
    /\ UNCHANGED <<treeVars, known, finalizedBlock, runtimes, runtimeOf, phase, resets, channel,
                   panicked>>

(* Subscription::next *)
Receive(c) ==
    /\ Open(c) /\ channel[c] # << >>
    /\ view' = [view EXCEPT ![c] = Received(@, Head(channel[c]))]
    /\ channel' = [channel EXCEPT ![c] = Tail(@)]
    /\ UNCHANGED <<treeVars, known, finalizedBlock, runtimes, runtimeOf, phase, resets, client,
                   remaining, pinned, panicked>>

Without(map, S) == [b \in DOMAIN map \ S |-> map[b]]

(* Weak::strong_count > 0, given the pins: the runtime is referenced by the *)
(* tree or by a pinned block.                                               *)
Strong(r, pins) ==
    \/ FinalizedRuntime = r
    \/ \E b \in Tree!Nodes : state[b] \in {"finished", "reported"} /\ RuntimeIn(b) = r
    \/ \E c \in Clients : \E b \in DOMAIN pins[c] : pins[c][b].runtime = r

(* unpin_block_inner, on a subscription that has not been closed. *)
UnpinBlock(c, b) ==
    /\ LockFree /\ Open(c)
    /\ b \in DOMAIN view[c].code /\ b \in DOMAIN pinned[c]
    /\ pinned' = [pinned EXCEPT ![c] = Without(@, {b})]
    /\ runtimes' = {r \in runtimes : Strong(r, pinned')}
    /\ remaining' = IF pinned[c][b].canonical THEN remaining
                                              ELSE [remaining EXCEPT ![c] = @ + 1]
    /\ UNCHANGED <<treeVars, known, finalizedBlock, runtimeOf, phase, resets, client, channel,
                   view, panicked>>

(* unpin_block_inner, when the background task has closed the subscription  *)
(* in the meantime: no effect, unless the whole state has been reset.       *)
UnpinStaleBlock(c) ==
    /\ LockFree /\ client[c] = "closed" /\ (known \/ UnpinStale)
    /\ panicked' = ~known
    /\ UNCHANGED <<treeVars, known, finalizedBlock, runtimes, runtimeOf, phase, resets, subVars>>

(***************************************************************************)
(* Background task: events                                                 *)
(***************************************************************************)

(* when_known.notify *)
Notified(states) == [c \in Clients |-> IF states[c] = "waiting" THEN "notified" ELSE states[c]]

(* The inner loop ends when the stream of the sync service does, and the    *)
(* state is replaced by the one of a new subscription.  The operations in   *)
(* flight are dropped with the Background.                                  *)
Reset(f, rest, runtimeKnown) ==
    LET t == FreshTree(f, rest, runtimeKnown) IN
    /\ phase \in {"idle", "reset"}
    /\ resets < MaxResets
    /\ parent' = t.parent /\ state' = t.state /\ weight' = t.weight
    /\ sameAsParent' = t.sameAsParent /\ wantsSame' = t.wantsSame
    /\ inputFinalized' = t.inputFinalized /\ inputBest' = t.inputFinalized
    /\ nextWeight' = t.nextWeight
    /\ timeout' = Zeroes /\ opId' = Zeroes
    /\ bestBlock' = Nil /\ finalizedWeight' = 1 /\ finalizedData' = 0 /\ nextOpId' = 1
    /\ inFlight' = {} /\ runtimes' = {} /\ runtimeOf' = OnlyRuntime(IF runtimeKnown THEN Code[f] ELSE Nil)
    /\ known' = runtimeKnown
    /\ finalizedBlock' = IF runtimeKnown THEN f ELSE Nil
    /\ client' = [c \in Clients |-> IF Open(c) THEN "closed"
                                    ELSE IF known THEN client[c] ELSE Notified(client)[c]]
    /\ channel' = [c \in Clients |-> << >>]
    /\ pinned' = [c \in Clients |-> EmptyMap]
    /\ remaining' = [c \in Clients |-> 0]
    /\ view' = [c \in Clients |-> NoView]
    /\ resets' = resets + 1
    /\ phase' = "downloads"
    /\ UNCHANGED <<now, panicked>>

(* An event that changes the input of the tree, followed by                 *)
(* advance_and_notify_subscribers.                                          *)
InputEvent(A, next) ==
    /\ phase = "idle" /\ A
    /\ phase' = next
    /\ UNCHANGED <<known, finalizedBlock, runtimes, runtimeOf, resets, subVars, panicked>>

(* same_runtime_as_parent: the header tells that :code has not changed. *)
SameRuntimeAsParent(b, p) ==
    LET hash == IF p = Nil THEN finalizedBlock ELSE p
    IN  IF hash = Nil \/ Code[hash] # Code[b] THEN {FALSE} ELSE BOOLEAN

NewBlock(b) ==
    /\ b # finalizedBlock
    /\ \E p \in Blocks \cup {Nil} : \E same \in SameRuntimeAsParent(b, p), isNewBest \in BOOLEAN :
          InputEvent(Tree!InsertBlock(b, p, same, isNewBest), "advance")

BestBlockChanged(b) == InputEvent(Tree!SetBestBlock(b), "advance")

FinalizeInput(b, best) == InputEvent(Tree!Finalize(b, best), "finalize")

(* "the sync service currently sends multiple identical finalized           *)
(* notifications"                                                           *)
FinalizeAgain ==
    /\ phase = "idle" /\ known
    /\ phase' = "downloads"
    /\ UNCHANGED <<treeVars, known, finalizedBlock, runtimes, runtimeOf, resets, subVars, panicked>>

(* "Try to find an existing identical runtime." *)
ExistingRuntime(alive, code) == {r \in alive : r.code = code}

(* runtime_download_finished: an identical runtime that is still in use is  *)
(* shared, otherwise the new one is compiled.                               *)
RuntimeDownloadFinished(id) ==
    LET alive == {r \in runtimes : Strong(r, pinned)}
        code == runtimeOf[id].code
    IN  /\ phase = "idle"
        /\ Tree!AsyncOpFinished(id)
        /\ \E r \in IF ExistingRuntime(alive, code) = {} THEN {Runtime(id, code)}
                                                       ELSE ExistingRuntime(alive, code) :
              /\ runtimeOf' = [runtimeOf EXCEPT ![id] = r]
              /\ runtimes' = alive \cup {r}
        /\ phase' = "advance"
        /\ UNCHANGED <<known, finalizedBlock, resets, subVars, panicked>>

RuntimeDownloadFailed(id) ==
    /\ phase = "idle"
    /\ Tree!AsyncOpFailure(id)
    /\ phase' = "downloads"
    /\ UNCHANGED <<known, finalizedBlock, runtimes, runtimeOf, resets, subVars, panicked>>

(* sleep_until of the next retry *)
WakeUp ==
    /\ phase = "idle"
    /\ Tree!Tick
    /\ phase' = "downloads"
    /\ UNCHANGED <<known, finalizedBlock, runtimes, runtimeOf, resets, subVars, panicked>>

(***************************************************************************)
(* Background task: advance_and_notify_subscribers                         *)
(***************************************************************************)

(* try_send: the subscriptions in `kept` get the notification, the others   *)
(* are closed and their pins purged.                                        *)
Broadcast(n, kept) ==
    /\ client' = [c \in Clients |-> IF Open(c) /\ c \notin kept THEN "closed" ELSE client[c]]
    /\ channel' = [c \in Clients |-> IF c \in kept THEN Append(channel[c], n) ELSE << >>]
    /\ view' = [c \in Clients |-> IF c \in kept THEN view[c] ELSE NoView]

Room(c) == Open(c) /\ Len(channel[c]) < BufferSize

NotifyBlock(b) ==
    LET kept == {c \in Clients : Room(c)}
        pin == [runtime |-> RuntimeIn(b), canonical |-> TRUE]
    IN  /\ Broadcast(BlockNotification(b), kept)
        /\ pinned' = [c \in Clients |-> IF c \in kept THEN Put(pinned[c], b, pin) ELSE EmptyMap]
        /\ remaining' = [c \in Clients |-> IF c \in kept THEN remaining[c] ELSE 0]

MarkedFinalizedOnly(pins, S) ==
    [b \in DOMAIN pins |-> IF b \in S /\ b = finalizedBlock' THEN [pins[b] EXCEPT !.canonical = FALSE]
                                                          ELSE pins[b]]

(* Mark the finalized and pruned blocks as finalized or non-canonical. *)
Marked(pins, S) ==
    [b \in DOMAIN pins |-> IF b \in S THEN [pins[b] EXCEPT !.canonical = FALSE] ELSE pins[b]]

NotifyFinalized(n, pruned) ==
    LET limit == Cardinality(pruned) + 1
        kept == {c \in Clients : Room(c) /\ remaining[c] >= limit}
        best == IF bestBlock' = Nil THEN n ELSE bestBlock'
    IN  /\ Broadcast([kind |-> "finalized", hash |-> n, best |-> best, pruned |-> pruned], kept)
        /\ pinned' = [c \in Clients |-> IF c \in kept THEN Marked(pinned[c], pruned \cup {n})
                                                      ELSE EmptyMap]
        /\ remaining' = [c \in Clients |-> IF c \in kept THEN remaining[c] - limit ELSE 0]

NotifyBest ==
    LET kept == {c \in Clients : Room(c)}
    IN  /\ Broadcast([kind |-> "best", hash |-> IF bestBlock' = Nil THEN finalizedBlock
                                                                    ELSE bestBlock'], kept)
        /\ pinned' = [c \in Clients |-> IF c \in kept THEN pinned[c] ELSE EmptyMap]
        /\ remaining' = [c \in Clients |-> IF c \in kept THEN remaining[c] ELSE 0]

(* One iteration of the loop while the runtime of the finalized block is known. *)
AdvanceKnown ==
    /\ Advancing /\ known
    /\ \/ \E n \in Blocks :
             /\ Tree!AdvanceFinalized(n)
             /\ finalizedBlock' = n
             /\ NotifyFinalized(n, {b \in Tree!Nodes : state'[b] = "gone"} \ {n})
       \/ \E b \in Blocks :
             /\ Tree!AdvanceReport(b)
             /\ NotifyBlock(b)
             /\ UNCHANGED finalizedBlock
       \/ Tree!AdvanceBest /\ NotifyBest /\ UNCHANGED finalizedBlock
    /\ UNCHANGED <<known, runtimes, runtimeOf, phase, resets, panicked>>

(* ... and while it is unknown: nobody is subscribed, and the first block   *)
(* finalized in the output makes it known.                                  *)
AdvanceUnknown ==
    /\ Advancing /\ ~known
    /\ \/ \E n \in Blocks :
             /\ Tree!AdvanceFinalized(n)
             /\ finalizedBlock' = n /\ known' = TRUE
             /\ client' = Notified(client)
       \/ ((\E b \in Blocks : Tree!AdvanceReport(b)) \/ Tree!AdvanceBest)
          /\ UNCHANGED <<finalizedBlock, known, client>>
    /\ UNCHANGED <<runtimes, runtimeOf, phase, resets, channel, remaining, pinned, view, panicked>>

(* The end of the loop.  After a finalization the list of runtimes keeps    *)
(* the entries whose strong count is 0, that is, none of those in use.      *)
AdvanceDone ==
    /\ Advancing /\ Tree!NothingToAdvance
    /\ phase' = "downloads"
    /\ runtimes' = IF phase = "finalize" THEN {r \in runtimes : ~Strong(r, pinned)}
                                         ELSE runtimes
    /\ UNCHANGED <<treeVars, known, finalizedBlock, runtimeOf, resets, subVars, panicked>>

(***************************************************************************)
(* Background task: start_necessary_downloads, at most two at a time       *)
(***************************************************************************)

StartDownload ==
    /\ phase = "downloads" /\ Cardinality(inFlight) < 2 /\ nextOpId <= MaxOps
    /\ \E b \in Blocks :
          /\ Tree!NextNecessaryAsyncOp(b)
          /\ runtimeOf' = [runtimeOf EXCEPT ![nextOpId] = Runtime(nextOpId, Code[b])]
    /\ UNCHANGED <<known, finalizedBlock, runtimes, phase, resets, subVars, panicked>>

DownloadsDone ==
    /\ phase = "downloads"
    /\ \/ Cardinality(inFlight) >= 2 \/ nextOpId > MaxOps
       \/ \A b \in Blocks : ~Tree!Startable(b)
    /\ phase' = "idle"
    /\ UNCHANGED <<treeVars, known, finalizedBlock, runtimes, runtimeOf, resets, subVars, panicked>>

Next ==
    \/ \E c \in Clients : SubscribeAll(c) \/ Receive(c) \/ UnpinStaleBlock(c)
    \/ \E c \in Clients, b \in Blocks : UnpinBlock(c, b)
    \/ \E f \in Roots : \E rest \in {{}} \cup {{b} : b \in Blocks \ {f}} :
          \E runtimeKnown \in BOOLEAN : Reset(f, rest, runtimeKnown)
    \/ \E b \in Blocks : NewBlock(b) \/ BestBlockChanged(b)
    \/ \E b, best \in Blocks : FinalizeInput(b, best)
    \/ FinalizeAgain \/ WakeUp
    \/ \E id \in inFlight : RuntimeDownloadFinished(id) \/ RuntimeDownloadFailed(id)
    \/ AdvanceKnown \/ AdvanceUnknown \/ AdvanceDone
    \/ StartDownload \/ DownloadsDone

Spec == Init /\ [][Next]_vars

(***************************************************************************)
(* Properties                                                              *)
(***************************************************************************)

(* The subscriber, once it has read its channel. *)
ViewOf(c) == FoldLeft(Received, view[c], channel[c])

(* A subscription is a faithful copy of the output of the tree: once its    *)
(* notifications are read, the subscriber of subscribe_all has the blocks,  *)
(* the parents, the best and the finalized block of the service, and it     *)
(* deduces from the new_runtime fields the :code of every one of them, even *)
(* when runtimes are shared between operations or compiled twice.           *)
SubscriptionExact ==
    \A c \in Clients : Open(c) =>
        LET v == ViewOf(c)
        IN  /\ v.known = Tree!Reported /\ v.finalized = finalizedBlock
            /\ v.best = (IF bestBlock = Nil THEN finalizedBlock ELSE bestBlock)
            /\ \A b \in v.known : v.parent[b] = ParentHash(b)
            /\ \A b \in v.known \cup {v.finalized} : v.code[b] = Code[b]

(* Every block reported on an open subscription is pinned with a runtime    *)
(* compiled from its own code until it is unpinned, and the finalized or    *)
(* non-canonical ones stay below max_pinned_blocks: neither the pulls, nor  *)
(* the unpins that race with a finalization, nor the closing of other       *)
(* channels lose or leak a pin ("the maximum number of blocks that are      *)
(* finalized or non-canonical that the runtime service will pin").          *)
PinsBounded ==
    \A c \in Clients :
        /\ Open(c) =>
              /\ DOMAIN pinned[c] \subseteq DOMAIN ViewOf(c).code
              /\ \A b \in DOMAIN pinned[c] :
                    /\ pinned[c][b].canonical <=> b \in Tree!Reported
                    /\ pinned[c][b].runtime.code = Code[b]
              /\ Cardinality({b \in DOMAIN pinned[c] : ~pinned[c][b].canonical}) + remaining[c]
                    <= MaxPinned
        /\ ~Open(c) => DOMAIN pinned[c] = {}

(* unpin_block: "Has no effect if the SubscriptionId is not or no longer    *)
(* valid (as the runtime service can kill any subscription at any moment)". *)
UnpinHarmless == ~panicked
=============================================================================
