---------------------------- MODULE SyncService ----------------------------
(***************************************************************************)
(* The background task of src/bin/light-base/src/sync_service/standalone.rs *)
(* seen from the other services: what it tells its subscribers and the      *)
(* network service about the chain, and the runtime it keeps for the first  *)
(* subscriber that asks for it.  Which block is verified, finalized or best *)
(* is decided by the syncing state machine (modules AllForks, AllSync and   *)
(* BlocksTree) and is a free choice here.                                   *)
(*                                                                         *)
(* A subscriber is the background task of runtime_service.rs: a copy of the *)
(* chain that the notifications of its stream update, in order, at its own  *)
(* pace.  A stream is a bounded channel.  An identifier of Streams names a  *)
(* sender and its receiver, and is used again once both are gone.           *)
(***************************************************************************)
EXTENDS HeaderTree, SequencesExt

CONSTANTS
    Nil,
    WarpTarget,      \* the block that the warp sync reaches
    RuntimeUpdates,  \* the blocks with a RuntimeEnvironmentUpdated digest item
    Streams,
    BufferSize       \* the buffer_size of subscribe_all

ASSUME SyncServiceAssumption ==
    /\ WarpTarget \in Blocks
    /\ RuntimeUpdates \subseteq Blocks
    /\ BufferSize \in Nat \ {0}
    /\ Nil \notin Blocks

VARIABLES
    pc,             \* where the main loop of the task is
    warping,        \* the state machine is still in GrandpaWarpSync
    chain,          \* [finalized, blocks, best] of the state machine
    known,          \* known_finalized_runtime: the block it was read at, or Nil
    upToDate,       \* network_up_to_date_best and network_up_to_date_finalized
    network,        \* what the network service was told
    senders,        \* all_notifications
    queue,          \* the messages in each channel
    view            \* the copy of the chain of each subscriber, Nil if it is gone

vars == <<pc, warping, chain, known, upToDate, network, senders, queue, view>>

ChainOf(finalized, blocks, best) ==
    [finalized |-> finalized, blocks |-> blocks, best |-> best]

(* The state runtime of a block is the one of its last update. *)
RuntimeOf(b) ==
    LET updates == {u \in RuntimeUpdates : u \in Above[b]}
    IN  IF updates = {} THEN Genesis
        ELSE CHOOSE u \in updates : \A v \in updates : Height(v) <= Height(u)

Init ==
    /\ pc = "Verify" /\ warping = TRUE
    /\ chain = ChainOf(Genesis, {}, Genesis)
    /\ known = Nil
    /\ upToDate = [best |-> TRUE, finalized |-> TRUE]
    /\ network = [best |-> Genesis, finalized |-> Genesis]
    /\ senders = <<>>
    /\ queue = [c \in Streams |-> <<>>]
    /\ view = [c \in Streams |-> Nil]

-----------------------------------------------------------------------------
(* Notifications. *)

BlockNotification(b, isNewBest) == [kind |-> "Block", block |-> b, isNewBest |-> isNewBest]
FinalizedNotification(c) == [kind |-> "Finalized", block |-> c.finalized, best |-> c.best]

SwapRemove(s, i) == IF i = Len(s) THEN Front(s) ELSE [Front(s) EXCEPT ![i] = Last(s)]

Upwards(s) == [i \in 1..Len(s) |-> i]
VisitOrder(s) == Reverse([i \in 1..Len(s) |-> i])

(* try_send fails when the buffer is full and when the receiver is gone. *)
TrySendFails(q, c) == view[c] = Nil \/ Len(q[c]) = BufferSize

DispatchAllSubscribers(notification) ==
    LET Visit(st, i) ==
            LET c == st.senders[i]
                rest == SwapRemove(st.senders, i)
            IN  IF TrySendFails(st.queue, c)
                THEN [st EXCEPT !.senders = rest]
                ELSE [senders |-> Append(rest, c),
                      queue |-> [st.queue EXCEPT ![c] = Append(@, notification)]]
        after == FoldLeft(Visit, [senders |-> senders, queue |-> queue], VisitOrder(senders))
    IN  senders' = after.senders /\ queue' = after.queue

-----------------------------------------------------------------------------
(* process_one_verification_queue. *)

Verify(A) == pc = "Verify" /\ pc' = "Update" /\ A /\ UNCHANGED <<warping, network, view>>

(* Nothing to verify, a warp sync fragment, a verification that fails, or a *)
(* finality proof without effect.                                           *)
VerifyNothing == UNCHANGED <<chain, known, upToDate, senders, queue>>

VerifyHeader(b, isNewBest) ==
    /\ ~warping
    /\ b \notin chain.blocks \cup {chain.finalized, Genesis}
    /\ Parent[b] \in chain.blocks \cup {chain.finalized}
    /\ chain' = [chain EXCEPT !.blocks = @ \cup {b}, !.best = IF isNewBest THEN b ELSE @]
    /\ upToDate' = [upToDate EXCEPT !.best = @ /\ ~isNewBest]
    /\ DispatchAllSubscribers(BlockNotification(b, isNewBest))
    /\ UNCHANGED known

(* The chain after the finalization of b; the best block stays if it can.   *)
Finalizations(b) ==
    LET left == {x \in chain.blocks \ {b} : b \in Above[x]}
    IN  {ChainOf(b, left, best) :
            best \in IF b \in Above[chain.best] THEN {chain.best} ELSE left \cup {b}}

NewlyFinalized(b) == {x \in chain.blocks : x \in Above[b]}

InvalidatesOnlyTarget(b) == b \in RuntimeUpdates
InvalidatesRuntime(b) == NewlyFinalized(b) \cap RuntimeUpdates # {}

ForgetsBest(c) == upToDate.best
BestStillUpToDate(c) == upToDate.best /\ c.best = chain.best

VerifyFinalityProof(b) ==
    /\ ~warping /\ b \in chain.blocks
    /\ chain' \in Finalizations(b)
    /\ upToDate' = [best |-> BestStillUpToDate(chain'), finalized |-> FALSE]
    /\ known' = IF InvalidatesRuntime(b) THEN Nil ELSE known
    /\ DispatchAllSubscribers(FinalizedNotification(chain'))

(* The end of the iteration, before the select! *)
UpdateNetwork ==
    /\ pc = "Update" /\ pc' = "Select"
    /\ network' = [best |-> IF upToDate.best THEN network.best ELSE chain.best,
                   finalized |-> IF upToDate.finalized THEN network.finalized
                                 ELSE chain.finalized]
    /\ upToDate' = [best |-> TRUE, finalized |-> TRUE]
    /\ UNCHANGED <<warping, chain, known, senders, queue, view>>

-----------------------------------------------------------------------------
(* The select! *)

Select(A) == pc = "Select" /\ pc' = "Verify" /\ A /\ UNCHANGED network

(* Nothing that this module is about, or a commit that is refused. *)
OtherEvent == UNCHANGED <<warping, chain, known, upToDate, senders, queue, view>>

(* inject_network_event on a commit message.  Ok(()) says nothing of whether *)
(* the commit had an effect: during the warp sync it is ignored.             *)
GrandpaCommitMessage ==
    /\ \/ UNCHANGED chain
       \/ ~warping /\ \E b \in chain.blocks : chain' \in Finalizations(b)
    /\ upToDate' = [best |-> FALSE, finalized |-> FALSE]
    /\ known' = Nil
    /\ DispatchAllSubscribers(FinalizedNotification(chain'))
    /\ UNCHANGED <<warping, view>>

(* ResponseOutcome::WarpSyncFinished. *)
WarpSyncFinished ==
    /\ warping /\ warping' = FALSE
    /\ chain' = ChainOf(WarpTarget, {}, WarpTarget)
    /\ known' = WarpTarget
    /\ upToDate' = [best |-> FALSE, finalized |-> FALSE]
    /\ senders' = <<>>
    /\ UNCHANGED <<queue, view>>

SubscribeAll(c, runtimeInterest) ==
    /\ view[c] = Nil /\ c \notin ToSet(senders)
    /\ senders' = Append(senders, c)
    /\ queue' = [queue EXCEPT ![c] = <<>>]
    /\ view' = [view EXCEPT ![c] = chain]
    /\ known' = IF runtimeInterest THEN Nil ELSE known
    /\ UNCHANGED <<warping, chain, upToDate>>

-----------------------------------------------------------------------------
(* The subscriber: the inner loop of runtime_service.rs. *)

(* What its unwraps take for granted: the parent, the finalized block and    *)
(* the best block are blocks it knows.                                      *)
Applicable(v, n) ==
    IF n.kind = "Block" THEN Parent[n.block] \in v.blocks \cup {v.finalized}
    ELSE \/ n.block = v.finalized
         \/ n.block \in v.blocks /\ n.best \in v.blocks /\ n.block \in Above[n.best]

Applied(v, n) ==
    IF n.kind = "Block"
    THEN [v EXCEPT !.blocks = @ \cup {n.block}, !.best = IF n.isNewBest THEN n.block ELSE @]
    ELSE IF n.block = v.finalized THEN v
         ELSE ChainOf(n.block, {x \in v.blocks \ {n.block} : n.block \in Above[x]}, n.best)

Receive(c) ==
    /\ queue[c] # <<>> /\ view[c] # Nil
    /\ view' = [view EXCEPT ![c] = Applied(@, Head(queue[c]))]
    /\ queue' = [queue EXCEPT ![c] = Tail(@)]
    /\ UNCHANGED <<pc, warping, chain, known, upToDate, network, senders>>

(* The end of the stream after its last message, or a subscriber that gives up. *)
Unsubscribe(c) ==
    /\ view[c] # Nil
    /\ view' = [view EXCEPT ![c] = Nil]
    /\ queue' = [queue EXCEPT ![c] = <<>>]
    /\ UNCHANGED <<pc, warping, chain, known, upToDate, network, senders>>

Next ==
    \/ Verify(VerifyNothing)
    \/ \E b \in Blocks, isNewBest \in BOOLEAN : Verify(VerifyHeader(b, isNewBest))
    \/ \E b \in Blocks : Verify(VerifyFinalityProof(b))
    \/ UpdateNetwork
    \/ Select(OtherEvent)
    \/ Select(GrandpaCommitMessage)
    \/ Select(WarpSyncFinished)
    \/ \E c \in Streams, interest \in BOOLEAN : Select(SubscribeAll(c, interest))
    \/ \E c \in Streams : Receive(c) \/ Unsubscribe(c)

Spec == Init /\ [][Next]_vars

-----------------------------------------------------------------------------
After(c, n) == FoldLeft(Applied, view[c], SubSeq(queue[c], 1, n))

(* However late a subscriber is, each message left in its stream applies to  *)
(* the chain it will have by then, so that the unwrap()s of                  *)
(* runtime_service.rs do not panic; and as long as dispatch_all_subscribers  *)
(* has its sender, reading everything yields the chain of the sync service.  *)
SubscribersMirror ==
    \A c \in Streams :
        view[c] # Nil =>
            /\ \A n \in 1..Len(queue[c]) : Applicable(After(c, n - 1), queue[c][n])
            /\ c \in ToSet(senders) => After(c, Len(queue[c])) = chain

(* The runtime kept since the warp sync and handed to a subscriber with the  *)
(* finalized block is the runtime of that block, however many blocks were    *)
(* finalized in between (known_finalized_runtime).                           *)
RuntimeOfFinalized == known # Nil => RuntimeOf(known) = RuntimeOf(chain.finalized)

(* Whenever the task waits for an event, the network service has been told   *)
(* the best and the finalized block, whichever of the paths changed them     *)
(* (network_up_to_date_best, network_up_to_date_finalized).                  *)
NetworkInformed ==
    pc = "Select" => network = [best |-> chain.best, finalized |-> chain.finalized]
=============================================================================
