---------------------------- MODULE OutputChain ----------------------------
(***************************************************************************)
(* What a consumer of AsyncTree's OutputUpdates may rely on (the comments   *)
(* of enum OutputUpdate in src/src/chain/async_tree.rs): each block is      *)
(* announced once, after its parent; "Blocks are guaranteed to be finalized *)
(* one after the other, without any gap"; a finalization removes what does  *)
(* not descend from the finalized block and nothing else; the best block is *)
(* the finalized block (Nil) or an announced block.                         *)
(***************************************************************************)
EXTENDS BlockForest

VARIABLES known,        \* blocks announced, neither finalized nor pruned
          knownParent,  \* parent announced with a block, Nil: the finalized block
          best

vars == <<known, knownParent, best>>

Init == known = {} /\ knownParent = [b \in Blocks |-> Nil] /\ best = Nil

(* OutputUpdate::Block { is_new_best } *)
Block(b, p) ==
    /\ b \notin known /\ p \in known \cup {Nil}
    /\ known' = known \cup {b}
    /\ knownParent' = [knownParent EXCEPT ![b] = p]
    /\ best' \in {best, b}

(* OutputUpdate::Finalized: a child of the finalized block. *)
Finalized(n) ==
    /\ n \in known /\ knownParent[n] = Nil
    /\ known' = KeptByPrune(n, known, knownParent)
    /\ knownParent' = ParentAfterPrune(n, known, knownParent)
    /\ best' \in known' \cup {Nil}
    /\ best \in known' => best' # Nil

(* OutputUpdate::BestBlockChanged *)
BestBlockChanged ==
    best' \in known /\ best' # best /\ UNCHANGED <<known, knownParent>>

Next ==
    \/ \E b \in Blocks, p \in Blocks \cup {Nil} : Block(b, p)
    \/ \E n \in Blocks : Finalized(n)
    \/ BestBlockChanged

Spec == Init /\ [][Next]_vars
=============================================================================
