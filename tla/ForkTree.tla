------------------------------ MODULE ForkTree ------------------------------
(***************************************************************************)
(* src/src/chain/fork_tree.rs: the forest of blocks as a slab of nodes tied *)
(* together by parent, first-child and sibling links, and the lazy iterator *)
(* that prunes it.  The iterator borrows the tree, so that nothing else can *)
(* happen between two of its iterations; but each of them leaves the links  *)
(* half updated, which the next ones rely on.                               *)
(*                                                                         *)
(* An index freed by a pruning may be given to a later node (the slab).     *)
(***************************************************************************)
EXTENDS BlockForest, Sequences

CONSTANT NotPruning   \* value of pruner when no PruneAncestorsIter exists

Pruners == [newFinal : Blocks, unclesOnly : BOOLEAN, iter : Blocks, traversingUp : BOOLEAN]

ASSUME ForkTreeAssumption == NotPruning \notin Pruners

VARIABLES
    slab,            \* indices in use
    parent, firstChild, nextSibling, previousSibling,   \* Nil is None
    isPruneTargetAncestor,
    firstRoot,
    pruner,          \* the PruneAncestorsIter, if there is one
    before           \* history: the forest when the pruning started

links == <<parent, firstChild, nextSibling, previousSibling>>
vars  == <<slab, links, isPruneTargetAncestor, firstRoot, pruner, before>>

NoLinks == [b \in Blocks |-> Nil]

Init ==
    /\ slab = {}
    /\ parent = NoLinks /\ firstChild = NoLinks
    /\ nextSibling = NoLinks /\ previousSibling = NoLinks
    /\ isPruneTargetAncestor = [b \in Blocks |-> FALSE]
    /\ firstRoot = Nil
    /\ pruner = NotPruning
    /\ before = [nodes |-> {}, parent |-> NoLinks]

Idle == pruner = NotPruning

(***************************************************************************)
(* Queries.  A walk is cut after as many steps as there are indices.        *)
(***************************************************************************)
MaxLen == Cardinality(Blocks)

Walk(start, Successor(_)) ==
    LET at[k \in 1..(MaxLen + 1)] ==
            IF k = 1 THEN start
            ELSE IF at[k - 1] = Nil THEN Nil ELSE Successor(at[k - 1])
    IN  [k \in {j \in 1..(MaxLen + 1) : at[j] # Nil} |-> at[k]]

NodeToRootPath(b) == Walk(b, LAMBDA x : parent[x])
Children(p) == Walk(IF p = Nil THEN firstRoot ELSE firstChild[p], LAMBDA x : nextSibling[x])
RootToNodePath(b) ==
    LET up == NodeToRootPath(b) IN [k \in 1..Len(up) |-> up[Len(up) + 1 - k]]

WalkContains(s, b) == \E k \in 1..Len(s) : s[k] = b
FirstAt(S) == CHOOSE k \in S : \A j \in S : k <= j

(* The children first, else the next sibling, else the next sibling of the  *)
(* closest ancestor that has one.                                           *)
AncestryOrderNextShallow(b) ==
    IF firstChild[b] # Nil THEN firstChild[b]
    ELSE IF nextSibling[b] # Nil THEN nextSibling[b]
    ELSE IF parent[b] # Nil THEN nextSibling[parent[b]] ELSE Nil

AncestryOrderNext(b) ==
    LET up    == NodeToRootPath(b)
        turns == {k \in 1..Len(up) : nextSibling[up[k]] # Nil}
    IN  IF firstChild[b] # Nil THEN firstChild[b]
        ELSE IF turns = {} THEN Nil
        ELSE nextSibling[up[FirstAt(turns)]]

AncestryOrder == Walk(firstRoot, AncestryOrderNext)

(* Both paths are cut to the same distance from the root, and the first     *)
(* place where they agree is the answer.                                    *)
CommonAncestorUnaligned(b, c) ==
    LET p1 == NodeToRootPath(b)
        p2 == NodeToRootPath(c)
        same == {k \in 1..(IF Len(p1) < Len(p2) THEN Len(p1) ELSE Len(p2)) : p1[k] = p2[k]}
    IN  IF same = {} THEN Nil ELSE p1[FirstAt(same)]

CommonAncestor(b, c) ==
    LET p1 == NodeToRootPath(b)
        p2 == NodeToRootPath(c)
        len == IF Len(p1) < Len(p2) THEN Len(p1) ELSE Len(p2)
        q1 == SubSeq(p1, Len(p1) - len + 1, Len(p1))
        q2 == SubSeq(p2, Len(p2) - len + 1, Len(p2))
        same == {k \in 1..len : q1[k] = q2[k]}
    IN  IF same = {} THEN Nil ELSE q1[FirstAt(same)]

TakeUntil(s, b) ==
    LET stops == {k \in 1..Len(s) : s[k] = b}
    IN  IF stops = {} THEN s ELSE SubSeq(s, 1, FirstAt(stops) - 1)
SkipPast(s, b) ==
    LET stops == {k \in 1..Len(s) : s[k] = b}
    IN  IF stops = {} THEN <<>> ELSE SubSeq(s, FirstAt(stops) + 1, Len(s))

AscendAndDescend(b, c) ==
    LET common == CommonAncestor(b, c)
    IN  [ascend  |-> TakeUntil(NodeToRootPath(b), common),
         descend |-> IF common = Nil THEN RootToNodePath(c)
                     ELSE SkipPast(RootToNodePath(c), common)]

(***************************************************************************)
(* Operations                                                              *)
(***************************************************************************)

LinkedAfterForgotten(b, next) == previousSibling

(* The former first child, or first root, gets b before it. *)
LinkedAfter(b, next) ==
    [x \in Blocks |-> IF x = next THEN b ELSE IF x = b THEN Nil ELSE previousSibling[x]]

Insert(b, p) ==
    LET next == IF p = Nil THEN firstRoot ELSE firstChild[p]
    IN  /\ Idle
        /\ b \notin slab /\ p \in slab \cup {Nil}
        /\ slab' = slab \cup {b}
        /\ parent' = [parent EXCEPT ![b] = p]
        /\ nextSibling' = [nextSibling EXCEPT ![b] = next]
        /\ previousSibling' = LinkedAfter(b, next)
        /\ firstChild' = [x \in Blocks |-> IF x = p THEN b ELSE IF x = b THEN Nil
                                                          ELSE firstChild[x]]
        /\ firstRoot' = IF p = Nil THEN b ELSE firstRoot
        /\ before' = [nodes |-> slab', parent |-> parent']
        /\ UNCHANGED <<isPruneTargetAncestor, pruner>>

Clear ==
    /\ Idle
    /\ slab' = {} /\ firstRoot' = Nil
    /\ parent' = NoLinks /\ firstChild' = NoLinks
    /\ nextSibling' = NoLinks /\ previousSibling' = NoLinks
    /\ before' = [nodes |-> {}, parent |-> NoLinks]
    /\ UNCHANGED <<isPruneTargetAncestor, pruner>>

(* prune_ancestors_inner: the target and all its ancestors are marked, and  *)
(* first_root is updated ahead of the removals.                             *)
StartPrune(n, unclesOnly) ==
    LET up == AncestorsOf(n, slab, parent)
    IN  /\ Idle /\ n \in slab
        /\ isPruneTargetAncestor' = [b \in Blocks |-> isPruneTargetAncestor[b] \/ b \in up]
        /\ firstRoot' = IF unclesOnly THEN CHOOSE b \in up : parent[b] = Nil ELSE firstChild[n]
        /\ pruner' = [newFinal |-> n, unclesOnly |-> unclesOnly,
                      iter |-> firstRoot, traversingUp |-> FALSE]
        /\ UNCHANGED <<slab, links, before>>

BackToKeptTargetDown ==
    [pruner EXCEPT !.iter = pruner.newFinal, !.traversingUp = ~pruner.unclesOnly]

(* The target's own turn comes after its last child's. *)
BackToTarget == [pruner EXCEPT !.iter = pruner.newFinal, !.traversingUp = TRUE]

(* A direct child of the target stays, as a root unless only the uncles are *)
(* removed.                                                                 *)
KeepChild ==
    LET it == pruner.iter
        next == nextSibling[it]
    IN  /\ ~Idle /\ parent[it] = pruner.newFinal
        /\ parent' = IF pruner.unclesOnly THEN parent ELSE [parent EXCEPT ![it] = Nil]
        /\ pruner' = IF next # Nil THEN [pruner EXCEPT !.iter = next]
                     ELSE BackToTarget
        /\ UNCHANGED <<slab, firstChild, nextSibling, previousSibling,
                       isPruneTargetAncestor, firstRoot, before>>

GoDown ==
    /\ ~Idle /\ parent[pruner.iter] # pruner.newFinal
    /\ ~pruner.traversingUp /\ firstChild[pruner.iter] # Nil
    /\ pruner' = [pruner EXCEPT !.iter = firstChild[pruner.iter]]
    /\ UNCHANGED <<slab, links, isPruneTargetAncestor, firstRoot, before>>

(* The node is left for good: nothing below it remains to be visited. *)
LeaveNode ==
    /\ ~Idle /\ parent[pruner.iter] # pruner.newFinal
    /\ pruner.traversingUp \/ firstChild[pruner.iter] = Nil

MovedToSibling(it) == [pruner EXCEPT !.iter = nextSibling[it], !.traversingUp = FALSE]

(* To the next sibling, else to the parent, else the iterator is finished   *)
(* and its Drop has nothing left to remove.                                 *)
Moved(it) ==
    IF nextSibling[it] # Nil THEN MovedToSibling(it)
    ELSE IF parent[it] # Nil
         THEN [pruner EXCEPT !.iter = parent[it], !.traversingUp = TRUE]
         ELSE NotPruning

FinishedWith(slabAfter, parentAfter) ==
    before' = IF pruner' = NotPruning
              THEN [nodes |-> slabAfter,
                    parent |-> [b \in Blocks |-> IF b \in slabAfter THEN parentAfter[b] ELSE Nil]]
              ELSE before

(* A kept node that was not the first child of its parent becomes it, its   *)
(* siblings being removed.                                                  *)
PromotedToFirstChild(it) ==
    IF previousSibling[it] # Nil /\ parent[it] # Nil
    THEN [firstChild EXCEPT ![parent[it]] = it] ELSE firstChild

KeepTargetAncestor ==
    LET it == pruner.iter
    IN  /\ LeaveNode
        /\ pruner.unclesOnly /\ isPruneTargetAncestor[it]
        /\ pruner' = Moved(it)
        /\ isPruneTargetAncestor' = [isPruneTargetAncestor EXCEPT ![it] = FALSE]
        /\ nextSibling' = [nextSibling EXCEPT ![it] = Nil]
        /\ previousSibling' = [previousSibling EXCEPT ![it] = Nil]
        /\ firstChild' = PromotedToFirstChild(it)
        /\ FinishedWith(slab, parent)
        /\ UNCHANGED <<slab, parent, firstRoot>>

RemoveNode ==
    LET it == pruner.iter
    IN  /\ LeaveNode
        /\ ~(pruner.unclesOnly /\ isPruneTargetAncestor[it])
        /\ pruner' = Moved(it)
        /\ slab' = slab \ {it}
        /\ isPruneTargetAncestor' = [isPruneTargetAncestor EXCEPT ![it] = FALSE]
        /\ parent' = [parent EXCEPT ![it] = Nil]
        /\ firstChild' = [firstChild EXCEPT ![it] = Nil]
        /\ nextSibling' = [nextSibling EXCEPT ![it] = Nil]
        /\ previousSibling' = [previousSibling EXCEPT ![it] = Nil]
        /\ FinishedWith(slab \ {it}, parent)
        /\ UNCHANGED firstRoot

PruneStep == KeepChild \/ GoDown \/ KeepTargetAncestor \/ RemoveNode

Next ==
    \/ \E b \in Blocks, p \in Blocks \cup {Nil} : Insert(b, p)
    \/ \E n \in Blocks, unclesOnly \in BOOLEAN : StartPrune(n, unclesOnly)
    \/ PruneStep
    \/ Clear

Spec == Init /\ [][Next]_vars

(* Drop runs the iterator to its end. *)
FairSpec == Spec /\ WF_vars(PruneStep)

(***************************************************************************)
(* Properties                                                              *)
(***************************************************************************)

IsListing(s, S) ==
    Len(s) = Cardinality(S) /\ \A b \in S : WalkContains(s, b)

(* The links of the slab agree with each other whenever no pruning is going *)
(* on: the children of a node, as first_child and next_sibling list them,   *)
(* are the nodes whose parent it is, next_sibling and previous_sibling are  *)
(* inverse, no link leads to a freed index and no mark is left behind (the  *)
(* debug_assert!s of ancestry_order_next and of PruneAncestorsIter::drop).  *)
LinksConsistent ==
    Idle =>
      /\ \A b \in Blocks : ~isPruneTargetAncestor[b]
      /\ \A p \in slab \cup {Nil} : IsListing(Children(p), {b \in slab : parent[b] = p})
      /\ \A b \in slab :
            /\ parent[b] \in slab \cup {Nil}
            /\ IF previousSibling[b] = Nil
               THEN b = IF parent[b] = Nil THEN firstRoot ELSE firstChild[parent[b]]
               ELSE nextSibling[previousSibling[b]] = b
            /\ nextSibling[b] # Nil => previousSibling[nextSibling[b]] = b

(* iter_ancestry_order returns every node once, "in an order in which the   *)
(* parents are found before their children".                                *)
AncestryOrderComplete ==
    Idle =>
      /\ IsListing(AncestryOrder, slab)
      /\ \A j, k \in 1..Len(AncestryOrder) :
            parent[AncestryOrder[j]] = AncestryOrder[k] => k < j

(* node_to_root_path goes through the ancestors of a node, each once;       *)
(* common_ancestor returns the deepest of the common ancestors, None if     *)
(* there is none; ascend_and_descend goes from one node up to it and down   *)
(* to the other, "The common ancestor isn't included in either iterator".   *)
CommonAncestorDeepest ==
    Idle => \A b, c \in slab :
        LET common == AncestorsOf(b, slab, parent) \cap AncestorsOf(c, slab, parent)
            a == CommonAncestor(b, c)
            path == AscendAndDescend(b, c)
        IN  /\ IsListing(NodeToRootPath(b), AncestorsOf(b, slab, parent))
            /\ IF common = {} THEN a = Nil
               ELSE a \in common /\ common = AncestorsOf(a, slab, parent)
            /\ IsListing(path.ascend, AncestorsOf(b, slab, parent) \ common)
            /\ IsListing(path.descend, AncestorsOf(c, slab, parent) \ common)

(* A pruning removes what the documentation says, all of it, and leaves a   *)
(* forest: the slab implements Forest.                                      *)
Abstract == INSTANCE Forest WITH nodes <- before.nodes, nodeParent <- before.parent
ImplementsForest ==
    /\ Abstract!Spec
    /\ [][~Idle /\ pruner' = NotPruning =>
            IF pruner.unclesOnly THEN Abstract!PruneUncles(pruner.newFinal)
            ELSE Abstract!PruneAncestors(pruner.newFinal)]_vars

(* The traversal, which follows links it has itself half updated, ends. *)
PruningTerminates == (~Idle) ~> Idle
=============================================================================
