------------------------------ MODULE ChainHead ------------------------------
(***************************************************************************)
(* chainHead_unstable_follow and the operations on the blocks that it      *)
(* pins (bin/light-base/src/json_rpc_service/chain_head.rs): the handlers  *)
(* of the requests, the task of the subscription, and the tasks of the     *)
(* operations, between a client that reads slowly and a runtime (or sync)  *)
(* service that may close the subscription at any time.                    *)
(*                                                                         *)
(* There is one follow subscription and one operation at a time.  The      *)
(* subscriptions of the client (requests_subscriptions.rs) are queues of   *)
(* bounded length, whose number is bounded too.                            *)
(***************************************************************************)
EXTENDS Integers, FiniteSets, Sequences, SequencesExt, TLC

CONSTANTS LastBlock,      \* blocks are 1 .. LastBlock, 0 is the first finalized one
          Parent,         \* the parent of each block, lower than it
          RuntimeUpdates, \* the parameter of follow: the runtime or the sync service
          FeedCap,        \* capacity of the channel of the runtime or sync service
          QueueCap,       \* notifications that can wait for the client
          MaxSubs,        \* subscriptions that a client may have
          MaxOps          \* operations that the client starts

VARIABLES up,     \* the service: its tree, and whether the runtime of the finalized block is known
          feed,   \* the subscription to it
          entry,  \* the entry of Subscriptions::chain_head_follow
          task,   \* the handler of follow, then the task that it spawns
          sm,     \* the queue of notifications of the follow subscription
          subs,   \* number of subscriptions of the client that are active
          client, \* what the client makes of the notifications, the blocks that it has yet to unpin
          op      \* the operation in progress

headVars == <<up, feed, entry, task, sm, subs, client, op>>

BlockSet == 1 .. LastBlock
AncestorsOf[b \in 0 .. LastBlock] == IF b = 0 THEN {0} ELSE {b} \cup AncestorsOf[Parent[b]]
AncestorTable == [b \in 0 .. LastBlock |-> AncestorsOf[b]]
IsAncestor(a, b) == a \in AncestorTable[b]

\* The descendants of a block.
Kept(tree, b) == {c \in tree : c # b /\ IsAncestor(b, c)}

-----------------------------------------------------------------------------
(* The runtime or sync service.                                            *)

Note(kind, b, best) == [kind |-> kind, block |-> b, best |-> best]

\* A notification that doesn't fit in the channel closes the subscription,
\* which unpins its blocks; what is in the channel can still be read.
Notify(n, pinned) ==
    feed' = CASE ~ feed.open -> feed
              [] feed.open /\ Len(feed.buf) < FeedCap ->
                    [feed EXCEPT !.buf = Append(@, n), !.pins = @ \cup pinned]
              [] OTHER -> [feed EXCEPT !.open = FALSE, !.pins = {}]

UpOnly == UNCHANGED <<entry, task, sm, subs, client, op>>

NewBlock(b, isNewBest) ==
    /\ op.fault = "none" /\ up.known /\ b \notin up.tree /\ Parent[b] \in up.tree \cup {up.fin} /\ UpOnly
    /\ up' = [up EXCEPT !.tree = @ \cup {b}, !.best = IF isNewBest THEN b ELSE @]
    /\ Notify(Note("Block", b, IF isNewBest THEN b ELSE up.best), IF RuntimeUpdates THEN {b} ELSE {})
NewBest(b) ==
    /\ op.fault = "none" /\ up.known /\ b \in up.tree \ {up.best} /\ UpOnly
    /\ up' = [up EXCEPT !.best = b]
    /\ Notify(Note("Best", b, b), {})
NewFinalized(b, best) ==
    /\ op.fault = "none" /\ up.known /\ b \in up.tree /\ UpOnly
    /\ best \in Kept(up.tree, b) \cup {b} /\ (IsAncestor(b, up.best) => best = up.best)
    /\ up' = [up EXCEPT !.fin = b, !.tree = Kept(@, b), !.best = best]
    /\ Notify(Note("Finalized", b, best), {})

\* The service closes the subscription: too many pinned blocks, or a gap in
\* the chain, in which case the runtime has to be downloaded again.
Close(gap) ==
    /\ op.fault = "none" /\ feed.open /\ UpOnly
    /\ feed' = [feed EXCEPT !.open = FALSE, !.pins = {}]
    /\ up' = IF gap /\ RuntimeUpdates THEN [up EXCEPT !.known = FALSE] ELSE up
RuntimeKnown == ~ up.known /\ up' = [up EXCEPT !.known = TRUE] /\ UNCHANGED feed /\ UpOnly

-----------------------------------------------------------------------------
(* The notifications of a follow subscription, and the client.             *)

Event(kind, b, fins, pruned) == [kind |-> kind, block |-> b, fins |-> fins, pruned |-> pruned]
Best(b) == Event("BestBlockChanged", b, {}, {})

\* What a client concludes from an event; ok is whether the event makes sense.
Replay(v, e) ==
    CASE e.kind = "Initialized" -> [fin |-> e.block, tree |-> {}, best |-> e.block, ok |-> TRUE]
      [] e.kind = "NewBlock" ->
           [v EXCEPT !.tree = @ \cup {e.block},
                     !.ok = @ /\ e.block \notin v.tree /\ Parent[e.block] \in v.tree \cup {v.fin}]
      [] e.kind = "BestBlockChanged" -> [v EXCEPT !.best = e.block, !.ok = @ /\ e.block \in v.tree \cup {v.fin}]
      [] e.kind = "Finalized" ->
           [v EXCEPT !.fin = Max(e.fins), !.tree = @ \ (e.fins \cup e.pruned),
                     !.ok = @ /\ e.fins = (AncestorTable[Max(e.fins)] \cap v.tree)
                              /\ e.pruned = {b \in v.tree : ~ IsAncestor(b, Max(e.fins)) /\ ~ IsAncestor(Max(e.fins), b)}]
      [] OTHER -> v
Nowhere == [fin |-> -1, tree |-> {}, best |-> -1, ok |-> TRUE]

NobodyFollows == [id |-> "none", view |-> Nowhere, held |-> {}]

\* The client reads the oldest notification.  A subscription whose last message
\* is read no longer counts.
ClientReads ==
    /\ op.fault = "none" /\ sm # <<>>
    /\ LET e == Head(sm) IN
       /\ client' = IF e.kind = "Stop" THEN NobodyFollows
                    ELSE [client EXCEPT !.view = Replay(@, e),
                                        !.held = IF e.kind \in {"Initialized", "NewBlock"} THEN @ \cup {e.block} ELSE @]
       /\ subs' = IF e.kind = "Stop" THEN subs - 1 ELSE subs
    /\ sm' = Tail(sm)
    /\ UNCHANGED <<up, feed, entry, task, op>>

-----------------------------------------------------------------------------
(* chain_head_follow, its task, unfollow and unpin.                        *)

Idle == [pc |-> "none", todo |-> <<>>]
NoEntry == [in |-> FALSE, tree |-> {}, pinned |-> {}]
NoFeed == [open |-> FALSE, buf |-> <<>>, pins |-> {}]
NoOp == [pc |-> "none", misc |-> FALSE, aborts |-> TRUE]

HeadInit ==
    /\ up = [fin |-> 0, tree |-> {}, best |-> 0, known |-> TRUE]
    /\ feed = NoFeed /\ entry = NoEntry /\ task = Idle /\ sm = <<>> /\ subs = 0
    /\ client = NobodyFollows
    /\ op = NoOp @@ [fault |-> "none", left |-> MaxOps]

At(pc) == op.fault = "none" /\ task.pc = pc /\ UNCHANGED op

follow_start ==
    /\ At("none") /\ client.id = "none" /\ sm = <<>> /\ subs < MaxSubs
    /\ subs' = subs + 1 /\ task' = [task EXCEPT !.pc = "subscribing"]
    /\ UNCHANGED <<up, feed, entry, sm, client>>

\* The events that describe the tree at the time of the subscription.
InitialEvents ==
    LET Of(b) == IF b = up.best THEN <<Event("NewBlock", b, {}, {}), Best(b)>> ELSE <<Event("NewBlock", b, {}, {})>>
    IN <<Event("Initialized", up.fin, {}, {})>> \o FlattenSeq([i \in 1 .. Cardinality(up.tree) |->
                                                             Of(SetToSortSeq(up.tree, <)[i])])

InitialEntry == [in |-> FALSE, tree |-> up.tree, pinned |-> up.tree \cup {up.fin}]

\* subscribe_all waits for the runtime to be known.
follow_subscribe ==
    /\ At("subscribing") /\ up.known
    /\ feed' = [open |-> TRUE, buf |-> <<>>, pins |-> IF RuntimeUpdates THEN up.tree \cup {up.fin} ELSE {}]
    /\ task' = [pc |-> "responding", todo |-> InitialEvents]
    /\ entry' = InitialEntry
    /\ UNCHANGED <<up, sm, subs, client>>
follow_respond ==
    /\ At("responding")
    /\ client' = [client EXCEPT !.id = "known"] /\ task' = [task EXCEPT !.pc = "inserting"]
    /\ UNCHANGED <<up, feed, entry, sm, subs>>

\* The entry only exists after the client has been told the identifier.
follow_insert ==
    /\ At("inserting")
    /\ entry' = [entry EXCEPT !.in = TRUE] /\ task' = [task EXCEPT !.pc = "initial"]
    /\ UNCHANGED <<up, feed, sm, subs, client>>

\* push_notification waits for a free slot.
push_initial ==
    /\ At("initial") /\ Len(sm) < QueueCap
    /\ sm' = Append(sm, Head(task.todo))
    /\ task' = [pc |-> IF Len(task.todo) = 1 THEN "loop" ELSE "initial", todo |-> Tail(task.todo)]
    /\ UNCHANGED <<up, feed, entry, subs, client>>

\* The entry after a notification, and the events for the client.
InsertBlock(b) == [entry EXCEPT !.tree = @ \cup {b}, !.pinned = @ \cup {b}]
BlockEvents(n) == <<Event("NewBlock", n.block, {}, {})>> \o IF n.best = n.block THEN <<Best(n.block)>> ELSE <<>>
EventsOf(n) ==
    CASE n.kind = "Block" -> BlockEvents(n)
      [] n.kind = "Best" -> <<Best(n.block)>>
      [] OTHER -> LET fins == AncestorTable[n.block] \cap entry.tree
                  IN <<Best(n.best), Event("Finalized", n.block, fins, entry.tree \ (fins \cup Kept(entry.tree, n.block)))>>
EntryKeepingForks(n) ==
    CASE n.kind = "Block" -> InsertBlock(n.block)
      [] n.kind = "Best" -> entry
      [] OTHER -> [entry EXCEPT !.tree = @ \ AncestorTable[n.block]]
EntryAfter(n) ==
    CASE n.kind = "Block" -> InsertBlock(n.block)
      [] n.kind = "Best" -> entry
      [] OTHER -> [entry EXCEPT !.tree = Kept(@, n.block)]

Break == entry' = NoEntry /\ task' = [pc |-> "stopping", todo |-> <<Event("Stop", 0, {}, {})>>]

\* try_push_notification, of each event; the task ends at the first one that
\* doesn't fit, unless it is a mere change of the best block.
follow_notification ==
    /\ At("loop") /\ feed.buf # <<>>
    /\ LET n == Head(feed.buf)
           events == EventsOf(n)
           room == QueueCap - Len(sm)
       IN /\ sm' = sm \o SubSeq(events, 1, IF Len(events) < room THEN Len(events) ELSE room)
          /\ IF Len(events) <= room \/ n.kind = "Best"
             THEN entry' = EntryAfter(n) /\ UNCHANGED task
             ELSE Break
    /\ feed' = [feed EXCEPT !.buf = Tail(@)]
    /\ UNCHANGED <<up, subs, client>>
closed_once_unpinned ==
    /\ At("loop") /\ feed.buf = <<>> /\ ~ feed.open /\ entry.pinned = {}
    /\ Break /\ UNCHANGED <<up, feed, sm, subs, client>>
follow_closed ==
    /\ At("loop") /\ feed.buf = <<>> /\ ~ feed.open
    /\ Break /\ UNCHANGED <<up, feed, sm, subs, client>>
follow_stop ==
    /\ At("stopping") /\ Len(sm) < QueueCap
    /\ sm' = sm \o task.todo /\ task' = Idle /\ feed' = NoFeed
    /\ UNCHANGED <<up, entry, subs, client>>

\* The task is aborted, which also drops the subscription to the service.  The
\* subscription of the client isn't stopped.
chain_head_unstable_unfollow ==
    /\ op.fault = "none" /\ client.id = "known"
    /\ client' = NobodyFollows
    /\ IF entry.in
       THEN entry' = NoEntry /\ task' = Idle /\ feed' = NoFeed /\ sm' = <<>>
       ELSE UNCHANGED <<entry, task, feed, sm>>
    /\ UNCHANGED <<up, subs, op>>

\* unpin_block panics if the service no longer knows any runtime, or if the
\* block isn't pinned by a subscription that is still open.
chain_head_unstable_unpin(b) ==
    /\ op.fault = "none" /\ client.id = "known" /\ b \in client.held
    /\ client' = [client EXCEPT !.held = @ \ {b}]
    /\ LET pinned == entry.in /\ b \in entry.pinned
           asks == pinned /\ RuntimeUpdates
       IN /\ entry' = IF pinned THEN [entry EXCEPT !.pinned = @ \ {b}] ELSE entry
          /\ feed' = IF asks THEN [feed EXCEPT !.pins = @ \ {b}] ELSE feed
          /\ op' = [op EXCEPT !.fault = CASE asks /\ ~ up.known -> "Invalid subscription"
                                          [] asks /\ up.known /\ feed.open /\ b \notin feed.pins -> "block already unpinned"
                                          [] OTHER -> "none"]
    /\ UNCHANGED <<up, task, sm, subs>>

chain_head_unstable_header(b) ==
    IF ~ entry.in THEN "null" ELSE IF b \in entry.pinned THEN "header" ELSE "InvalidParams"

-----------------------------------------------------------------------------
(* chain_head_unstable_body, chain_head_storage and chain_head_call: the   *)
(* block is looked up at the start, and a task does the rest.              *)

OpOnly == op.fault = "none" /\ UNCHANGED <<up, feed, entry, task, sm, client>>

OpStart(b, aborts, fault) ==
    /\ OpOnly /\ client.id = "known" /\ op.pc = "none" /\ op.left > 0 /\ subs < MaxSubs
    /\ b \in client.held /\ chain_head_unstable_header(b) # "InvalidParams"
    /\ subs' = subs + 1
    /\ op' = [pc |-> "query", misc |-> TRUE, aborts |-> aborts, left |-> op.left - 1, fault |-> fault]

chain_head_unstable_body(b) == OpStart(b, TRUE, "none")
chain_head_storage(b) == OpStart(b, TRUE, "none")

\* The runtime of the block is locked right away, which panics if the block isn't
\* pinned in the service.
chain_head_call(b) ==
    /\ entry.in => RuntimeUpdates
    /\ OpStart(b, FALSE, IF entry.in /\ b \notin feed.pins THEN "not pinned" ELSE "none")

\* The last notification, which waits for the client even after stop_subscription:
\* the result of the call, or of the query.
OpFinish ==
    /\ OpOnly /\ op.pc = "query"
    /\ subs' = IF op.misc THEN subs - 1 ELSE subs
    /\ op' = NoOp @@ [fault |-> "none", left |-> op.left]
call_finished == ~ op.aborts /\ OpFinish
storage_finished == op.aborts /\ OpFinish
body_finished == op.aborts /\ OpFinish

\* The task of a call isn't aborted when the client stops it.
StopOp == OpOnly /\ op.misc /\ subs' = subs - 1
chain_head_unstable_stop_body == op.aborts /\ StopOp /\ op' = NoOp @@ [fault |-> "none", left |-> op.left]
chain_head_unstable_stop_storage == op.aborts /\ StopOp /\ op' = NoOp @@ [fault |-> "none", left |-> op.left]
chain_head_unstable_stop_call == ~ op.aborts /\ StopOp /\ op' = [op EXCEPT !.misc = FALSE]

-----------------------------------------------------------------------------
FollowTask == follow_subscribe \/ follow_respond \/ follow_insert \/ push_initial
                  \/ follow_notification \/ follow_closed \/ follow_stop
HeadNext ==
    \/ \E b \in BlockSet, isNewBest \in BOOLEAN : NewBlock(b, isNewBest)
    \/ \E b \in BlockSet : NewBest(b)
    \/ \E b, best \in BlockSet : NewFinalized(b, best)
    \/ \E gap \in BOOLEAN : Close(gap)
    \/ RuntimeKnown
    \/ ClientReads
    \/ follow_start \/ FollowTask
    \/ chain_head_unstable_unfollow
    \/ \E b \in 0 .. LastBlock : chain_head_unstable_unpin(b)
    \/ \E b \in 0 .. LastBlock : chain_head_unstable_body(b) \/ chain_head_storage(b) \/ chain_head_call(b)
    \/ call_finished \/ storage_finished \/ body_finished
    \/ chain_head_unstable_stop_body \/ chain_head_unstable_stop_storage \/ chain_head_unstable_stop_call

HeadFairness == WF_headVars(FollowTask) /\ WF_headVars(ClientReads) /\ WF_headVars(call_finished \/ storage_finished \/ body_finished) /\ WF_headVars(RuntimeKnown)
HeadSpec == HeadInit /\ [][HeadNext]_headVars
FairHeadSpec == HeadSpec /\ HeadFairness

-----------------------------------------------------------------------------
(* Properties.                                                             *)

\* The client and the service agree: what the client has read, then what waits
\* for it, then what the channel still holds is exactly the tree of the service,
\* every event referring to blocks that the client knows; and the pins of the
\* entry, which let the client ask about these blocks, are those that the service
\* holds for the subscription (chain_head_follow, chain_head_unstable_unpin).
AfterNote(v, n) == FoldLeft(Replay, v, CASE n.kind = "Block" -> <<Event("NewBlock", n.block, {}, {})>>
                                         [] n.kind = "Best" -> <<>>
                                         [] OTHER -> LET fins == AncestorTable[n.block] \cap v.tree
                                                     IN <<Event("Finalized", n.block, fins, v.tree \ (fins \cup Kept(v.tree, n.block)))>>)
FollowerMirrors ==
    LET sent == FoldLeft(Replay, client.view, sm \o IF task.pc = "stopping" THEN <<>> ELSE task.todo)
        all == FoldLeft(AfterNote, sent, feed.buf)
        coming == {feed.buf[i].block : i \in {j \in DOMAIN feed.buf : feed.buf[j].kind = "Block"}}
    IN entry.in => /\ sent.ok /\ sent.tree = entry.tree
                   /\ feed.open => all.tree = up.tree /\ all.fin = up.fin
                   /\ feed.open /\ RuntimeUpdates => feed.pins = entry.pinned \cup coming

\* A block that was reported and that the client hasn't unpinned can be asked
\* about for as long as the client hasn't been told that the subscription is over
\* (chain_head_unstable_header, chain_head_unstable_body, chain_head_storage).
ReportedBlocksUsable ==
    client.id = "known" => \A b \in client.held : chain_head_unstable_header(b) # "InvalidParams"

\* Once the service has closed the subscription the client is told to stop, and
\* every operation comes to an end (follow_closed, the tasks of the operations).
ClosedLeadsToStop ==
    /\ [](entry.in /\ ~ feed.open => <>(~ entry.in \/ op.fault # "none"))
    /\ [](op.pc = "query" => <>(op.pc = "none" \/ op.fault # "none"))

\* Once everything has been delivered, the best block of the client is that of
\* the service.
BestReported ==
    entry.in /\ feed.open /\ feed.buf = <<>> /\ task.todo = <<>> /\ sm = <<>> => client.view.best = up.best

\* The requests of a client that follows the rules never panic the service.
NoPanic == op.fault = "none"

\* The subscriptions that count are those that are in use.
SubscriptionsReleased ==
    subs = (IF task.pc # "none" \/ \E i \in DOMAIN sm : sm[i].kind = "Stop" THEN 1 ELSE 0)
             + (IF op.misc THEN 1 ELSE 0)
=============================================================================
