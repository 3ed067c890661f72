---------------------------- MODULE BlockForest ----------------------------
(***************************************************************************)
(* The forest of non-finalized blocks as its users see it: a set of nodes  *)
(* and a parent function whose value Nil stands for "the parent is the     *)
(* finalized block".  It is the interface of src/src/chain/fork_tree.rs    *)
(* that async_tree.rs and blocks_tree.rs are written against; the linked   *)
(* slab behind it is the subject of module ForkTree.                       *)
(*                                                                         *)
(* Ancestors are defined as a least fixed point (the intersection of the   *)
(* sets closed under "parent") instead of by recursion, so that TLAPS can  *)
(* reason about them without induction.  Module ForkTree's runs compare    *)
(* this definition with the pointer walks of the code.                     *)
(***************************************************************************)
EXTENDS Naturals, FiniteSets

CONSTANTS Blocks,   \* identities of the blocks (the NodeIndex of the code)
          Nil       \* "None": no block, or the finalized block as a parent

ASSUME NilAssumption == Nil \notin Blocks

(* S contains the parent of each of its members that has one. *)
ClosedUnderParent(S, parent) ==
    \A x \in S : parent[x] # Nil => parent[x] \in S

(* node_to_root_path: b and everything above it. *)
AncestorsOf(b, nodes, parent) ==
    {a \in nodes : \A S \in SUBSET nodes :
                       (b \in S /\ ClosedUnderParent(S, parent)) => a \in S}

(* is_ancestor, which is reflexive in the code. *)
IsAncestor(a, b, nodes, parent) == a \in AncestorsOf(b, nodes, parent)

(* Every parent is Nil or a node of the forest. *)
ParentsPresent(nodes, parent) == ClosedUnderParent(nodes, parent)

(* Going up always ends: no set of nodes is without a way out. *)
Acyclic(nodes, parent) ==
    \A S \in SUBSET nodes : S # {} => \E x \in S : parent[x] \notin S

KeptByPruneWithTarget(n, nodes, parent) ==
    {b \in nodes : IsAncestor(n, b, nodes, parent)}

(* prune_ancestors(n): what is left are the strict descendants of n ... *)
KeptByPrune(n, nodes, parent) ==
    {b \in nodes \ {n} : IsAncestor(n, b, nodes, parent)}

(* ... and the children of n become roots. *)
ParentAfterPrune(n, nodes, parent) ==
    [b \in Blocks |->
        IF b \in KeptByPrune(n, nodes, parent) /\ parent[b] # n
        THEN parent[b] ELSE Nil]
=============================================================================
