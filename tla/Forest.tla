------------------------------- MODULE Forest -------------------------------
(***************************************************************************)
(* What src/src/chain/fork_tree.rs promises its users: a set of nodes, each *)
(* with at most one parent, that grows by leaves and is pruned in one step. *)
(***************************************************************************)
EXTENDS BlockForest

VARIABLES nodes, nodeParent
vars == <<nodes, nodeParent>>

Init == nodes = {} /\ nodeParent = [b \in Blocks |-> Nil]

(* insert: the index is one that is not in use. *)
Insert(b, p) ==
    /\ b \notin nodes /\ p \in nodes \cup {Nil}
    /\ nodes' = nodes \cup {b}
    /\ nodeParent' = [nodeParent EXCEPT ![b] = p]

(* prune_ancestors: "The node passed as parameter.  The ancestors of the    *)
(* node passed as parameter.  Any node not a descendant of the node passed  *)
(* as parameter." are removed.                                              *)
PruneAncestors(n) ==
    /\ n \in nodes
    /\ nodes' = KeptByPrune(n, nodes, nodeParent)
    /\ nodeParent' = ParentAfterPrune(n, nodes, nodeParent)

(* prune_uncles: "Removes from the tree any node that isn't either an       *)
(* ancestor or a descendant of the target node."                            *)
PruneUncles(n) ==
    LET kept == {b \in nodes : \/ IsAncestor(n, b, nodes, nodeParent)
                               \/ IsAncestor(b, n, nodes, nodeParent)}
    IN  /\ n \in nodes
        /\ nodes' = kept
        /\ nodeParent' = [b \in Blocks |-> IF b \in kept THEN nodeParent[b] ELSE Nil]

Clear == nodes' = {} /\ nodeParent' = [b \in Blocks |-> Nil]

Next ==
    \/ \E b \in Blocks, p \in Blocks \cup {Nil} : Insert(b, p)
    \/ \E n \in Blocks : PruneAncestors(n) \/ PruneUncles(n)
    \/ Clear

Spec == Init /\ [][Next]_vars
=============================================================================
