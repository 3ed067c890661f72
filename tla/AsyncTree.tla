----------------------------- MODULE AsyncTree -----------------------------
(***************************************************************************)
(* src/src/chain/async_tree.rs: a tree of blocks, each of which needs an   *)
(* asynchronous operation (in practice: compiling its runtime) before the  *)
(* block may be shown to the consumer.  The input side (insert, set best,  *)
(* finalize) runs ahead of the output side, which reports a block once its *)
(* operation and the ones of all its ancestors have finished.              *)
(*                                                                         *)
(* One action per public operation; try_advance_output is three actions,   *)
(* one per kind of update it may return, with the priority of the code in  *)
(* their guards.  A user_data of the operation (TAsync) is represented by  *)
(* the identifier of the operation that computed it.                       *)
(***************************************************************************)
EXTENDS BlockForest, TLC

CONSTANTS RetryAfterFailed,  \* Config::retry_after_failed
          InputBestIsLeaf,   \* does the input only declare leaves of its tree best?
          MaxTime,           \* bound: the clock stops here
          MaxWeight          \* bound: number of times the input's best changes

ASSUME AsyncTreeAssumption ==
    /\ RetryAfterFailed \in Nat \ {0}
    /\ InputBestIsLeaf \in BOOLEAN
    /\ MaxTime \in Nat
    /\ MaxWeight \in Nat

VARIABLES
    parent,          \* fork tree: parent of a block, Nil if a root
    state,           \* Block::async_op, merged with presence in the tree
    sameAsParent,    \* AsyncOpState::Pending::same_as_parent
    timeout,         \* AsyncOpState::Pending::timeout; 0 is None
    opId,            \* async_op_id while in progress, user_data when finished
    weight,          \* Block::input_best_block_weight
    bestBlock,       \* best_block_index
    inputFinalized,  \* input_finalized_index
    nextWeight,      \* input_best_block_next_weight
    finalizedWeight, \* finalized_block_weight
    finalizedData,   \* finalized_async_user_data
    nextOpId,        \* next_async_op_id
    now,             \* the clock of the caller
    inputBest,       \* caller: the block it last declared best
    inFlight,        \* caller: operations started and not yet answered
    wantsSame        \* caller: same_async_op_as_parent given at insertion

treeVars == <<parent, state, sameAsParent, timeout, opId, weight>>
outVars  == <<bestBlock, inputFinalized, finalizedWeight, finalizedData>>
envVars  == <<now, inputBest, inFlight, wantsSame>>
vars == <<treeVars, outVars, envVars, nextWeight, nextOpId>>

(* AsyncOpState.  "finished" and "reported" are Finished { reported }; a    *)
(* block is "absent" before its insertion and "gone" once it is pruned or   *)
(* finalized in the output.                                                 *)
States == {"absent", "pending", "in_progress", "finished", "reported", "gone"}

Nodes    == {b \in Blocks : state[b] \notin {"absent", "gone"}}
Reported == {b \in Blocks : state[b] = "reported"}
Anc(b)   == AncestorsOf(b, Nodes, parent)

(* Beyond the types: the indices stored in the tree and outside of it are   *)
(* indices of nodes still in the tree, across prunings (each .unwrap() of   *)
(* non_finalized_blocks.get(idx), and the debug_assert_ne! on               *)
(* input_finalized_index while pruning).                                    *)
TypeOK ==
    /\ parent \in [Blocks -> Blocks \cup {Nil}]
    /\ state \in [Blocks -> States]
    /\ sameAsParent \in [Blocks -> BOOLEAN]
    /\ timeout \in [Blocks -> Nat]
    /\ opId \in [Blocks -> Nat]
    /\ weight \in [Blocks -> Nat]
    /\ bestBlock \in Blocks \cup {Nil}
    /\ nextWeight \in Nat /\ finalizedWeight \in Nat
    /\ finalizedData \in Nat /\ nextOpId \in Nat
    /\ now \in Nat
    /\ inFlight \subseteq Nat
    /\ wantsSame \in [Blocks -> BOOLEAN]
    /\ ParentsPresent(Nodes, parent)
    /\ inputFinalized \in Nodes \cup {Nil}
    /\ inputBest \in Nodes \cup {Nil}

Init ==
    /\ parent = [b \in Blocks |-> Nil]
    /\ state = [b \in Blocks |-> "absent"]
    /\ sameAsParent = [b \in Blocks |-> FALSE]
    /\ timeout = [b \in Blocks |-> 0]
    /\ opId = [b \in Blocks |-> 0]
    /\ weight = [b \in Blocks |-> 0]
    /\ bestBlock = Nil /\ inputFinalized = Nil /\ inputBest = Nil
    /\ nextWeight = 2 /\ finalizedWeight = 1    \* 0: "never best"
    /\ finalizedData = 0 /\ nextOpId = 1
    /\ now = 1
    /\ inFlight = {}
    /\ wantsSame = [b \in Blocks |-> FALSE]

(***************************************************************************)
(* Input                                                                   *)
(***************************************************************************)

(* The input only ever extends, or declares best, what descends from the   *)
(* block it has finalized.                                                 *)
BelowInputFinalized(b) == inputFinalized = Nil \/ inputFinalized \in Anc(b)

(* In the library's own trees (blocks_tree/best_block.rs) the best block is  *)
(* a leaf: the child of the best block is always better than its parent.    *)
(* The interface of AsyncTree does not ask for it.                          *)
MayBecomeBest(b) == InputBestIsLeaf => \A c \in Nodes : parent[c] # b

(* The async_op given to a block inserted under p. *)
InsertedState(p, same) ==
    CASE ~same -> "pending"
      [] same /\ p = Nil -> "finished"
      [] same /\ p # Nil /\ state[p] = "reported" -> "finished"
      [] OTHER -> state[p]

InsertBlock(b, p, same, isNewBest) ==
    /\ state[b] = "absent"
    /\ IF p = Nil THEN inputFinalized = Nil
                  ELSE p \in Nodes /\ BelowInputFinalized(p)
    /\ isNewBest => nextWeight <= MaxWeight
    /\ InputBestIsLeaf /\ p = inputBest => isNewBest
    /\ parent' = [parent EXCEPT ![b] = p]
    /\ state' = [state EXCEPT ![b] = InsertedState(p, same)]
    /\ sameAsParent' =
          [sameAsParent EXCEPT ![b] = same /\ InsertedState(p, same) = "pending"]
    /\ opId' = [opId EXCEPT ![b] =
                   CASE ~same -> 0
                     [] same /\ p = Nil -> finalizedData
                     [] OTHER -> opId[p]]
    /\ timeout' = [timeout EXCEPT ![b] = 0]
    /\ weight' = [weight EXCEPT ![b] = IF isNewBest THEN nextWeight ELSE 0]
    /\ nextWeight' = IF isNewBest THEN nextWeight + 1 ELSE nextWeight
    /\ inputBest' = IF isNewBest THEN b ELSE inputBest
    /\ wantsSame' = [wantsSame EXCEPT ![b] = same]
    /\ UNCHANGED <<outVars, now, inFlight, nextOpId>>

BumpWeightOnce(b) ==
    IF weight[b] # 0
    THEN UNCHANGED <<weight, nextWeight>>
    ELSE /\ nextWeight <= MaxWeight
         /\ weight' = [weight EXCEPT ![b] = nextWeight]
         /\ nextWeight' = nextWeight + 1

(* The weight update shared by input_set_best_block and input_finalize. *)
BumpWeight(b) ==
    IF weight[b] = nextWeight - 1
    THEN UNCHANGED <<weight, nextWeight>>
    ELSE /\ nextWeight <= MaxWeight
         /\ weight' = [weight EXCEPT ![b] = nextWeight]
         /\ nextWeight' = nextWeight + 1

SetBestBlock(b) ==
    /\ b \in Nodes /\ BelowInputFinalized(b) /\ MayBecomeBest(b)
    /\ BumpWeight(b)
    /\ inputBest' = b
    /\ UNCHANGED <<parent, state, sameAsParent, timeout, opId, outVars, now,
                   inFlight, wantsSame, nextOpId>>

Finalize(n, newBest) ==
    /\ n \in Nodes /\ BelowInputFinalized(n)
    /\ newBest \in Nodes /\ n \in Anc(newBest) /\ MayBecomeBest(newBest)
    /\ inputFinalized' = n
    /\ BumpWeight(newBest)
    /\ inputBest' = newBest
    /\ UNCHANGED <<parent, state, sameAsParent, timeout, opId, bestBlock,
                   finalizedWeight, finalizedData, now, inFlight, wantsSame,
                   nextOpId>>

(***************************************************************************)
(* Asynchronous operations                                                 *)
(***************************************************************************)

(* start_necessary_async_op finds something to do for b. *)
Startable(b) ==
    b \in Nodes /\ state[b] = "pending" /\ ~sameAsParent[b] /\ timeout[b] <= now

(* max_by_key keeps one of the heaviest blocks, whichever comes last. *)
Heaviest(S) == {b \in S : \A c \in S : weight[c] <= weight[b]}

SharedOpSelfOnly(b) == {b}

(* node_to_root_path(c).take_while(b): from c up to b, b excluded. *)
PathTo(b, c) == {x \in Anc(c) \ {b} : b \in Anc(x)}

(* b and the descendants tied to it by a chain of same_as_parent. *)
SharedOp(b) ==
    {c \in Nodes :
        b \in Anc(c) /\ \A x \in PathTo(b, c) : state[x] = "pending" /\ sameAsParent[x]}

(* next_necessary_async_op returns Ready for b: the input finalized block   *)
(* first, then the heaviest, then any.                                      *)
NextNecessaryAsyncOp(b) ==
    /\ Startable(b)
    /\ \/ b = inputFinalized
       \/ /\ inputFinalized = Nil \/ ~Startable(inputFinalized)
          /\ b \in Heaviest(Nodes) \/ \E h \in Heaviest(Nodes) : ~Startable(h)
    /\ state' = [c \in Blocks |-> IF c \in SharedOp(b) THEN "in_progress" ELSE state[c]]
    /\ opId' = [c \in Blocks |-> IF c \in SharedOp(b) THEN nextOpId ELSE opId[c]]
    /\ sameAsParent' = [c \in Blocks |-> sameAsParent[c] /\ c \notin SharedOp(b)]
    /\ timeout' = [c \in Blocks |-> IF c \in SharedOp(b) THEN 0 ELSE timeout[c]]
    /\ nextOpId' = nextOpId + 1
    /\ inFlight' = inFlight \cup {nextOpId}
    /\ UNCHANGED <<parent, weight, outVars, nextWeight, now, inputBest, wantsSame>>

PerformingRoot(id) ==
    {b \in Nodes : /\ state[b] = "in_progress" /\ opId[b] = id
                   /\ parent[b] # Nil => opId[parent[b]] # id}

(* The blocks bound to an operation. *)
Performing(id) == {b \in Nodes : state[b] = "in_progress" /\ opId[b] = id}

(* The blocks of the operation may all have been pruned in the meantime. *)
AsyncOpFinished(id) ==
    /\ id \in inFlight
    /\ state' = [b \in Blocks |-> IF b \in Performing(id) THEN "finished" ELSE state[b]]
    /\ inFlight' = inFlight \ {id}
    /\ UNCHANGED <<parent, sameAsParent, timeout, opId, weight, outVars,
                   nextWeight, nextOpId, now, inputBest, wantsSame>>

RetriedAlone(b, id) == FALSE

(* same_as_parent of a block of a failed operation.  The code goes from     *)
(* child to parent, so that a block still sees its parent in progress.      *)
RetriedWithParent(b, id) == parent[b] \in Performing(id)

AsyncOpFailure(id) ==
    /\ id \in inFlight
    /\ now + RetryAfterFailed <= MaxTime
    /\ state' = [b \in Blocks |-> IF b \in Performing(id) THEN "pending" ELSE state[b]]
    /\ sameAsParent' = [b \in Blocks |->
                          IF b \in Performing(id) THEN RetriedWithParent(b, id)
                                                  ELSE sameAsParent[b]]
    /\ timeout' = [b \in Blocks |-> IF b \in Performing(id) THEN now + RetryAfterFailed
                                                            ELSE timeout[b]]
    /\ opId' = [b \in Blocks |-> IF b \in Performing(id) THEN 0 ELSE opId[b]]
    /\ inFlight' = inFlight \ {id}
    /\ UNCHANGED <<parent, weight, outVars, nextWeight, nextOpId, now, inputBest,
                   wantsSame>>

Tick ==
    /\ now < MaxTime
    /\ now' = now + 1
    /\ UNCHANGED <<treeVars, outVars, nextWeight, nextOpId, inputBest, inFlight, wantsSame>>

(***************************************************************************)
(* try_advance_output                                                      *)
(***************************************************************************)

CanFinalizeWithGap(n) == n = inputFinalized /\ state[n] = "reported"

(* The first block on the path from the root to the input finalized block,  *)
(* provided it has been reported.                                           *)
CanFinalize(n) ==
    /\ inputFinalized # Nil
    /\ n \in Anc(inputFinalized) /\ parent[n] = Nil
    /\ state[n] = "reported"

(* The operation of b has finished and its parent is already reported. *)
CanReport(b) ==
    /\ state[b] = "finished"
    /\ parent[b] # Nil => state[parent[b]] = "reported"

(* Weight of the output best block, blk being Nil for the finalized block. *)
OutputWeight(blk, ifFinalized) == IF blk = Nil THEN ifFinalized ELSE weight[blk]

(* Scan of S for reported blocks heavier than the current best. *)
HeavierReported(S, current) ==
    {b \in S : state[b] = "reported" /\ weight[b] > current}

BestAfterScan(S, best, current) ==
    IF HeavierReported(S, current) = {} THEN {best}
    ELSE Heaviest(HeavierReported(S, current))

(* OutputUpdate::Finalized: one block is finalized, what does not descend   *)
(* from it is pruned, and the best block is chosen again.                   *)
AdvanceFinalized(n) ==
    LET kept  == KeptByPrune(n, Nodes, parent)
        best1 == IF bestBlock \in kept THEN bestBlock ELSE Nil
    IN  /\ CanFinalize(n)
        /\ inputFinalized' = IF inputFinalized = n THEN Nil ELSE inputFinalized
        /\ parent' = ParentAfterPrune(n, Nodes, parent)
        /\ state' = [b \in Blocks |-> IF b \in Nodes \ kept THEN "gone" ELSE state[b]]
        /\ sameAsParent' = [b \in Blocks |-> b \in kept /\ sameAsParent[b]]
        /\ timeout' = [b \in Blocks |-> IF b \in kept THEN timeout[b] ELSE 0]
        /\ opId' = [b \in Blocks |-> IF b \in kept THEN opId[b] ELSE 0]
        /\ weight' = [b \in Blocks |-> IF b \in kept THEN weight[b] ELSE 0]
        /\ wantsSame' = [b \in Blocks |-> b \in kept /\ wantsSame[b]]
        /\ finalizedWeight' = weight[n]
        /\ finalizedData' = opId[n]
        /\ bestBlock' \in BestAfterScan(kept, best1, OutputWeight(best1, weight[n]))
        /\ inputBest' = IF inputBest = n THEN Nil ELSE inputBest
        /\ UNCHANGED <<nextWeight, nextOpId, now, inFlight>>

(* OutputUpdate::Block *)
AdvanceReport(b) ==
    /\ \A n \in Nodes : ~CanFinalize(n)
    /\ CanReport(b)
    /\ state' = [state EXCEPT ![b] = "reported"]
    /\ bestBlock' = IF weight[b] > OutputWeight(bestBlock, finalizedWeight)
                    THEN b ELSE bestBlock
    /\ UNCHANGED <<parent, sameAsParent, timeout, opId, weight, inputFinalized,
                   finalizedWeight, finalizedData, envVars, nextWeight, nextOpId>>

(* OutputUpdate::BestBlockChanged *)
AdvanceBest ==
    LET current == OutputWeight(bestBlock, finalizedWeight)
    IN  /\ \A n \in Nodes : ~CanFinalize(n) /\ ~CanReport(n)
        /\ HeavierReported(Nodes, current) # {}
        /\ bestBlock' \in BestAfterScan(Nodes, bestBlock, current)
        /\ UNCHANGED <<treeVars, inputFinalized, finalizedWeight, finalizedData,
                       envVars, nextWeight, nextOpId>>

(* try_advance_output returns None. *)
NothingToAdvance ==
    /\ \A n \in Nodes : ~CanFinalize(n) /\ ~CanReport(n)
    /\ HeavierReported(Nodes, OutputWeight(bestBlock, finalizedWeight)) = {}

Input ==
    \/ \E b \in Blocks, p \in Blocks \cup {Nil}, same, isNewBest \in BOOLEAN :
          InsertBlock(b, p, same, isNewBest)
    \/ \E b \in Blocks : SetBestBlock(b)
    \/ \E n, b \in Blocks : Finalize(n, b)

StartOp == \E b \in Blocks : NextNecessaryAsyncOp(b)

Advance ==
    \/ \E b \in Blocks : AdvanceFinalized(b) \/ AdvanceReport(b)
    \/ AdvanceBest

Next ==
    \/ Input
    \/ StartOp
    \/ \E id \in inFlight : AsyncOpFinished(id) \/ AsyncOpFailure(id)
    \/ Tick
    \/ Advance

Spec == Init /\ [][Next]_vars

(***************************************************************************)
(* The runtime service calls try_advance_output until it returns None and   *)
(* next_necessary_async_op until it returns NotReady after every event, and *)
(* waits on the futures of the operations and on the timer.                 *)
(***************************************************************************)
AnswerOldestOp ==
    \E id \in inFlight : (\A other \in inFlight : id <= other) /\ AsyncOpFinished(id)

Fairness ==
    /\ WF_vars(StartOp) /\ WF_vars(Tick) /\ WF_vars(Advance)
    /\ WF_vars(AnswerOldestOp)

FairSpec == Spec /\ Fairness

(***************************************************************************)
(* Properties                                                              *)
(***************************************************************************)

(* A consumer never learns of a block before its parent: the parent of a    *)
(* reported block is reported or is the output finalized block, whatever    *)
(* the order in which the operations finish (try_advance_output skips the   *)
(* blocks "if its parent isn't reported yet").                              *)
ReportedClosed ==
    \A b \in Reported : parent[b] = Nil \/ parent[b] \in Reported

(* The output best block is a block the consumer knows; best_block_index()  *)
(* reaches unreachable!() otherwise, and a pruned index would panic.        *)
OutputBestReported == bestBlock # Nil => bestBlock \in Reported

(* The comment of AsyncOpState::Pending: "it is illegal for the parent to   *)
(* be in the state Finished or InProgress" when same_as_parent is true.     *)
(* The block would then never be started: only its parent's start does it.  *)
SameAsParentPending ==
    \A b \in Nodes : state[b] = "pending" /\ sameAsParent[b] =>
        parent[b] # Nil /\ state[parent[b]] = "pending"

(* The debug_assert!s on input_best_block_weight: weights other than 0 are  *)
(* unique, also with respect to the finalized block, and below the next.    *)
WeightsDistinct ==
    /\ finalizedWeight < nextWeight
    /\ \A b \in Nodes :
          /\ weight[b] < nextWeight
          /\ weight[b] # 0 => weight[b] # finalizedWeight
          /\ \A c \in Nodes \ {b} : weight[b] = weight[c] => weight[b] = 0

(* b and its parent are both pending, both waiting for the same operation,  *)
(* or both have the result of the same operation.                           *)
SharedWithParent(b) ==
    IF parent[b] = Nil
    THEN state[b] \in {"finished", "reported"} /\ opId[b] = finalizedData
    ELSE \/ state[b] = "pending" /\ sameAsParent[b] /\ state[parent[b]] = "pending"
         \/ state[b] = "in_progress" /\ state[parent[b]] = "in_progress"
            /\ opId[b] = opId[parent[b]]
         \/ state[b] \in {"finished", "reported"}
            /\ state[parent[b]] \in {"finished", "reported"}
            /\ opId[b] = opId[parent[b]]

(* A block inserted with same_async_op_as_parent goes through its life with *)
(* its parent, wherever the parent was in its own at the insertion and      *)
(* through any number of failures and retries ("This "sharing" is done by   *)
(* emitting only one asynchronous operation for both blocks, and/or by      *)
(* cloning the TAsyncOp").                                                  *)
SharedLifecycle == \A b \in Nodes : wantsSame[b] => SharedWithParent(b)

(* No lost wake-up: a block in progress waits for an operation that the     *)
(* caller is still performing, even when it was inserted while its parent's *)
(* operation was already in flight; an operation the caller has answered    *)
(* leaves nobody waiting (async_op_finished, async_op_failure).             *)
InProgressAwaited ==
    \A b \in Nodes : state[b] = "in_progress" => opId[b] \in inFlight

(* When try_advance_output returns None and every operation has finished,   *)
(* the output is the input: same finalized block, and the best block is the *)
(* one the input declared best last, not merely a heavy one.                *)
OutputCaughtUp ==
    Nodes = Reported /\ inputFinalized = Nil /\ bestBlock = inputBest

ConvergedWhenIdle ==
    NothingToAdvance /\ (\A b \in Nodes : state[b] \in {"finished", "reported"})
        => OutputCaughtUp

(* Once the input is quiet, operations get answered and time passes, the    *)
(* output catches up with the input and stays there: no block is stuck.     *)
EventuallyCaughtUp == <>[]OutputCaughtUp

(* What a consumer of the OutputUpdates sees. *)
Output == INSTANCE OutputChain
            WITH known <- Reported, best <- bestBlock,
                 knownParent <- [b \in Blocks |-> IF b \in Reported THEN parent[b] ELSE Nil]

(* The updates returned by try_advance_output are a well-formed history of  *)
(* a chain: see OutputChain.                                                *)
OutputSpec == Output!Spec

(* The blocks are interchangeable. *)
BlockSymmetry == Permutations(Blocks)
=============================================================================
