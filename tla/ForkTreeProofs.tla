---------------------------- MODULE ForkTreeProofs ---------------------------
(***************************************************************************)
(* Proofs about ForkTree: the linked slab, pruned by an iterator that      *)
(* follows links it has itself half updated, implements the forest of      *)
(* module Forest, for every number of nodes.                               *)
(***************************************************************************)
EXTENDS ForkTree, BlockForestProofs

(* The first child of a node, or the first root. *)
First == [p \in Blocks \cup {Nil} |-> IF p = Nil THEN firstRoot ELSE firstChild[p]]

(* The types of the links. *)
LinkTypes ==
    /\ slab \subseteq Blocks
    /\ parent \in [Blocks -> Blocks \cup {Nil}]
    /\ firstChild \in [Blocks -> Blocks \cup {Nil}]
    /\ nextSibling \in [Blocks -> Blocks \cup {Nil}]
    /\ previousSibling \in [Blocks -> Blocks \cup {Nil}]
    /\ isPruneTargetAncestor \in [Blocks -> BOOLEAN]
    /\ firstRoot \in Blocks \cup {Nil}
    /\ \A b \in Blocks \ slab : parent[b] = Nil
    /\ Acyclic(slab, previousSibling)

(* The forest at the beginning of the pruning, or now. *)
ForestInv ==
    /\ before = [nodes |-> before.nodes, parent |-> before.parent]
    /\ before.nodes \subseteq Blocks
    /\ before.parent \in [Blocks -> Blocks \cup {Nil}]
    /\ ParentsPresent(before.nodes, before.parent)
    /\ Acyclic(before.nodes, before.parent)

(* Between two prunings, the links are those of one list of siblings for    *)
(* each parent.                                                             *)
LinksInv ==
    /\ before.nodes = slab /\ before.parent = parent
    /\ \A b \in Blocks : ~isPruneTargetAncestor[b]
    /\ \A x \in slab :
        /\ IF previousSibling[x] = Nil THEN First[parent[x]] = x
           ELSE /\ previousSibling[x] \in slab
                /\ parent[previousSibling[x]] = parent[x]
                /\ nextSibling[previousSibling[x]] = x
        /\ nextSibling[x] # Nil =>
                /\ nextSibling[x] \in slab
                /\ parent[nextSibling[x]] = parent[x]
                /\ previousSibling[nextSibling[x]] = x
    /\ \A p \in slab \cup {Nil} : First[p] # Nil =>
        First[p] \in slab /\ parent[First[p]] = p /\ previousSibling[First[p]] = Nil

(* During a pruning.  Up are the ancestors of each node when it started,    *)
(* Below what was then below the target, and Kept what has to stay.         *)
Up == [b \in Blocks |-> AncestorsOf(b, before.nodes, before.parent)]
Below == KeptByPrune(pruner.newFinal, before.nodes, before.parent)
Kept == IF pruner.unclesOnly THEN Below \cup Up[pruner.newFinal] ELSE Below

(* The nodes that the iterator still has to remove, or to change. *)
Todo ==
    {b \in slab : \/ b \notin Kept
                  \/ IF pruner.unclesOnly THEN isPruneTargetAncestor[b]
                     ELSE parent[b] = pruner.newFinal}

(* The nodes whose children are as they were when the pruning started. *)
Path == Up[pruner.iter]
Fresh == {b \in Blocks : b \notin Path \/ (b = pruner.iter /\ ~pruner.traversingUp)}

(* No node is lost that has to stay, and no parent has changed but those of  *)
(* the children that prune_ancestors has made roots.                        *)
NodesInv ==
    /\ pruner \in Pruners
    /\ pruner.newFinal \in before.nodes
    /\ slab \subseteq before.nodes /\ Kept \subseteq slab
    /\ \A x \in slab :
        \/ parent[x] = before.parent[x]
        \/ /\ ~pruner.unclesOnly
           /\ before.parent[x] = pruner.newFinal /\ parent[x] = Nil

(* The iterator is at a node that it has to change, or, under prune_uncles,  *)
(* at a child of the target; it still has to come back to what is above.    *)
IterInv ==
    /\ pruner.iter \in slab
    /\ \/ pruner.iter \in Todo
       \/ pruner.unclesOnly /\ before.parent[pruner.iter] = pruner.newFinal
    /\ Path \ {pruner.iter} \subseteq Todo

(* The lists of the nodes B below the node n: each starts at its parent, or *)
(* at the root r when the children of n have become the roots.              *)
LinksBelow(B, par, n, uncles, r, fc, ns, ps) ==
    \A x \in B :
        /\ IF ps[x] = Nil
           THEN IF par[x] = n /\ ~uncles THEN r = x ELSE fc[par[x]] = x
           ELSE ps[x] \in B /\ par[ps[x]] = par[x] /\ ns[ps[x]] = x
        /\ ns[x] # Nil => ns[x] \in B /\ par[ns[x]] = par[x] /\ ps[ns[x]] = x
        /\ fc[x] # Nil => fc[x] \in B /\ par[fc[x]] = x /\ ps[fc[x]] = Nil

(* What is below the target is left alone, and reachable in the end. *)
BelowInv ==
    LinksBelow(Below, before.parent, pruner.newFinal, pruner.unclesOnly,
               firstRoot, firstChild, nextSibling, previousSibling)

(* Its first node is the first child of the target or the first root. *)
Top == IF pruner.unclesOnly THEN firstChild[pruner.newFinal] ELSE firstRoot
TopInv ==
    Top # Nil => /\ Top \in Below /\ before.parent[Top] = pruner.newFinal
                 /\ previousSibling[Top] = Nil

(* The marks are those of the target and of its ancestors. *)
MarksInv == \A x \in Blocks : isPruneTargetAncestor[x] => x \in slab /\ x \in Up[pruner.newFinal]

(* The ancestors of the target that prune_uncles has already visited. *)
AboveInv ==
    pruner.unclesOnly =>
        /\ firstRoot \in Up[pruner.newFinal] /\ before.parent[firstRoot] = Nil
        /\ \A x \in Up[pruner.newFinal] : ~isPruneTargetAncestor[x] =>
                /\ nextSibling[x] = Nil /\ previousSibling[x] = Nil
                /\ before.parent[x] # Nil => firstChild[before.parent[x]] = x

(* The iterator will find what it still has to visit: from the sibling      *)
(* before it, or from its parent, and so on up to where it is.              *)
VisitInv ==
    \A x \in Todo :
        /\ previousSibling[x] = Nil /\ before.parent[x] # Nil => firstChild[before.parent[x]] = x
        /\ x \notin Path =>
            IF previousSibling[x] = Nil
            THEN before.parent[x] # Nil /\ before.parent[x] \in Todo \cap Fresh
            ELSE /\ previousSibling[x] \in Todo
                 /\ before.parent[previousSibling[x]] = before.parent[x]
                 /\ nextSibling[previousSibling[x]] = x
        /\ nextSibling[x] # Nil =>
                /\ nextSibling[x] \in Todo /\ before.parent[nextSibling[x]] = before.parent[x]
                /\ previousSibling[nextSibling[x]] = x
        /\ firstChild[x] # Nil /\ x \in Fresh /\ before.parent[x] # pruner.newFinal =>
                /\ firstChild[x] \in slab
                /\ firstChild[x] \in Todo \/ (pruner.unclesOnly /\ x = pruner.newFinal)
                /\ before.parent[firstChild[x]] = x
                /\ previousSibling[firstChild[x]] = Nil

(* The invariant while a pruning is going on. *)
PruneInv ==
    NodesInv /\ IterInv /\ BelowInv /\ TopInv /\ MarksInv /\ AboveInv /\ VisitInv

(* The inductive invariant. *)
TreeInv == LinkTypes /\ ForestInv /\ (IF Idle THEN LinksInv ELSE PruneInv)

-----------------------------------------------------------------------------
(* Those lists are the same when the links they consist of are. *)
LEMMA SameLinksBelow ==
    ASSUME NEW B, NEW par, NEW n, NEW uncles, NEW r,
           NEW fc, NEW ns, NEW ps, NEW fc2, NEW ns2, NEW ps2,
           LinksBelow(B, par, n, uncles, r, fc, ns, ps),
           \A x \in B : par[x] = n \/ par[x] \in B,
           \A x \in B : ns2[x] = ns[x] /\ ps2[x] = ps[x] /\ fc2[x] = fc[x],
           uncles => fc2[n] = fc[n]
    PROVE  LinksBelow(B, par, n, uncles, r, fc2, ns2, ps2)
<1>1. ASSUME NEW x \in B
      PROVE  /\ IF ps2[x] = Nil
                THEN IF par[x] = n /\ ~uncles THEN r = x ELSE fc2[par[x]] = x
                ELSE ps2[x] \in B /\ par[ps2[x]] = par[x] /\ ns2[ps2[x]] = x
             /\ ns2[x] # Nil => ns2[x] \in B /\ par[ns2[x]] = par[x] /\ ps2[ns2[x]] = x
             /\ fc2[x] # Nil => fc2[x] \in B /\ par[fc2[x]] = x /\ ps2[fc2[x]] = Nil
  BY DEF LinksBelow
<1> QED BY <1>1, Zenon DEF LinksBelow

(* The ancestors of a node are itself and those of its parent. *)
LEMMA AncestorsUnfold ==
    ASSUME NEW nodes, NEW parents, ParentsPresent(nodes, parents), Nil \notin nodes,
           NEW b \in nodes
    PROVE  AncestorsOf(b, nodes, parents) =
             IF parents[b] = Nil THEN {b} ELSE {b} \cup AncestorsOf(parents[b], nodes, parents)
<1> DEFINE up(x) == AncestorsOf(x, nodes, parents)
<1>1. b \in up(b)
  BY AncestorSelf
<1>2. ASSUME NEW a \in up(b), a # b PROVE parents[b] # Nil /\ a \in up(parents[b])
  BY <1>2, AncestorStep
<1>3. ASSUME parents[b] # Nil, NEW a \in up(parents[b]) PROVE a \in up(b)
  BY <1>3, AncestorOfParent
<1> HIDE DEF up
<1> QED BY <1>1, <1>2, <1>3 DEF up

(* A node is not above its parent. *)
LEMMA NotAboveParent ==
    ASSUME NEW nodes, NEW parents, ParentsPresent(nodes, parents), Nil \notin nodes,
           Acyclic(nodes, parents), NEW b \in nodes, parents[b] # Nil
    PROVE  b \notin AncestorsOf(parents[b], nodes, parents) /\ parents[b] # b
<1>1. parents[b] \in nodes /\ parents[b] \in AncestorsOf(b, nodes, parents)
  BY AncestorSelf, AncestorParent DEF ParentsPresent, ClosedUnderParent
<1>2. parents[b] # b
  <2>1. SUFFICES ASSUME parents[b] = b PROVE FALSE
    OBVIOUS
  <2>2. {b} \in SUBSET nodes /\ {b} # {} /\ \A x \in {b} : parents[x] \in {b}
    BY <2>1
  <2> QED BY <2>2, Zenon DEF Acyclic
<1> QED BY <1>1, <1>2, AncestorAntisymmetric

(* Of two ancestors of a node, one is above the other. *)
LEMMA AncestorsChain ==
    ASSUME NEW nodes, NEW parents, ParentsPresent(nodes, parents), Nil \notin nodes,
           NEW x \in nodes
    PROVE  \A a, b \in AncestorsOf(x, nodes, parents) :
              a \in AncestorsOf(b, nodes, parents) \/ b \in AncestorsOf(a, nodes, parents)
<1> DEFINE up(y) == AncestorsOf(y, nodes, parents)
           S == {a \in up(x) : \A b \in up(x) : a \in up(b) \/ b \in up(a)}
<1>1. S \in SUBSET nodes /\ x \in S
  BY AncestorSelf DEF AncestorsOf
<1>2. ASSUME NEW a \in S, parents[a] # Nil PROVE parents[a] \in S
  <2>1. a \in nodes /\ a \in up(x) /\ parents[a] \in up(x)
    BY <1>1, <1>2, AncestorParent
  <2>2. ASSUME NEW b \in up(x) PROVE parents[a] \in up(b) \/ b \in up(parents[a])
    <3>1. CASE a \in up(b)
      BY <1>2, <3>1, AncestorParent
    <3>2. CASE b \in up(a) /\ b # a
      BY <2>1, <3>2, AncestorStep
    <3> QED BY <2>2, <3>1, <3>2, AncestorSelf DEF AncestorsOf
  <2> QED BY <2>1, <2>2
<1>3. ClosedUnderParent(S, parents)
  BY <1>2 DEF ClosedUnderParent
<1>4. \A a \in up(x) : a \in S
  <2> HIDE DEF S
  <2> QED BY <1>1, <1>3 DEF AncestorsOf
<1> QED BY <1>4

(* An ancestor of a node is the only one with its parent: the path to the   *)
(* root meets each list of siblings once.                                   *)
LEMMA OneOfSiblings ==
    ASSUME NEW nodes, NEW parents, ParentsPresent(nodes, parents), Nil \notin nodes,
           Acyclic(nodes, parents), NEW x \in nodes,
           NEW a \in AncestorsOf(x, nodes, parents), NEW b \in AncestorsOf(x, nodes, parents),
           parents[a] = parents[b]
    PROVE  a = b
<1>1. a \in nodes /\ b \in nodes
  BY DEF AncestorsOf
<1>2. ASSUME NEW c \in nodes, NEW d \in nodes, parents[c] = parents[d], c # d,
             c \in AncestorsOf(d, nodes, parents)
      PROVE  FALSE
  <2>1. parents[d] # Nil /\ c \in AncestorsOf(parents[d], nodes, parents)
    BY <1>2, AncestorStep
  <2> QED BY <1>2, <2>1, NotAboveParent
<1> QED BY <1>1, <1>2, AncestorsChain

(* What is below a node is what has it, or something below it, as parent. *)
LEMMA BelowStep ==
    ASSUME NEW nodes, NEW parents, ParentsPresent(nodes, parents), Nil \notin nodes,
           Acyclic(nodes, parents), NEW n \in nodes, NEW x \in nodes
    PROVE  x \in KeptByPrune(n, nodes, parents)
             <=> parents[x] = n \/ parents[x] \in KeptByPrune(n, nodes, parents)
<1> DEFINE up(y) == AncestorsOf(y, nodes, parents)
<1>1. ASSUME x # n, n \in up(x) PROVE parents[x] # Nil /\ n \in up(parents[x]) /\ parents[x] \in nodes
  BY <1>1, AncestorStep DEF ParentsPresent, ClosedUnderParent
<1>2. ASSUME parents[x] \in nodes, n \in up(parents[x]) PROVE x # n /\ n \in up(x)
  <2>1. parents[x] # Nil
    BY <1>2
  <2> QED BY <1>2, <2>1, AncestorOfParent, NotAboveParent
<1>3. n \in up(n)
  BY AncestorSelf
<1> QED BY <1>1, <1>2, <1>3 DEF KeptByPrune, IsAncestor

(* Nothing is both above and below a node, itself excepted. *)
LEMMA AboveNotBelow ==
    ASSUME NEW nodes, NEW parents, ParentsPresent(nodes, parents), Nil \notin nodes,
           Acyclic(nodes, parents), NEW n \in nodes, NEW x \in AncestorsOf(n, nodes, parents)
    PROVE  x \in nodes /\ x \notin KeptByPrune(n, nodes, parents)
  BY AncestorAntisymmetric DEF AncestorsOf, KeptByPrune, IsAncestor

(* The path from a node to the root goes through a child of each strict     *)
(* ancestor.                                                                *)
LEMMA PathThroughChild ==
    ASSUME NEW nodes, NEW parents, ParentsPresent(nodes, parents), Nil \notin nodes,
           NEW n \in nodes, NEW p \in AncestorsOf(n, nodes, parents), p # n
    PROVE  \E a \in AncestorsOf(n, nodes, parents) : parents[a] = p
<1> DEFINE up == AncestorsOf(n, nodes, parents)
<1>1. SUFFICES ASSUME \A a \in up : parents[a] # p PROVE FALSE
  OBVIOUS
<1>2. up \ {p} \in SUBSET nodes /\ n \in up \ {p}
  BY AncestorSelf DEF AncestorsOf
<1>3. ClosedUnderParent(up \ {p}, parents)
  BY <1>1, AncestorParent DEF ClosedUnderParent
<1>4. p \in up \ {p}
  <2> HIDE DEF up
  <2>1. p \in AncestorsOf(n, nodes, parents)
    OBVIOUS
  <2> QED BY <1>2, <1>3, <2>1 DEF AncestorsOf
<1> QED BY <1>4

(* There is a root above each node. *)
LEMMA RootAbove ==
    ASSUME NEW nodes, NEW parents, ParentsPresent(nodes, parents), Acyclic(nodes, parents),
           NEW n \in nodes
    PROVE  \E r \in AncestorsOf(n, nodes, parents) : parents[r] = Nil
<1>1. AncestorsOf(n, nodes, parents) \in SUBSET nodes /\ n \in AncestorsOf(n, nodes, parents)
  BY AncestorSelf DEF AncestorsOf
<1>2. PICK r \in AncestorsOf(n, nodes, parents) : parents[r] \notin AncestorsOf(n, nodes, parents)
  BY <1>1, Zenon DEF Acyclic
<1>3. parents[r] # Nil => parents[r] \in AncestorsOf(n, nodes, parents)
  BY AncestorParent
<1> QED BY <1>2, <1>3

-----------------------------------------------------------------------------
(* The forest of a pruning, as its invariant speaks of it. *)
LEMMA Shape ==
    ASSUME ForestInv
    PROVE  /\ Nil \notin before.nodes
           /\ \A x \in before.nodes :
                /\ x \in Up[x] /\ Up[x] \subseteq before.nodes
                /\ before.parent[x] # Nil => /\ before.parent[x] \in before.nodes
                                             /\ before.parent[x] # x
                                             /\ x \notin Up[before.parent[x]]
                /\ Up[x] = IF before.parent[x] = Nil THEN {x} ELSE {x} \cup Up[before.parent[x]]
                /\ \A a, b \in Up[x] : before.parent[a] = before.parent[b] => a = b
<1>1. PICK N, P : N = before.nodes /\ P = before.parent
  OBVIOUS
<1>2. Nil \notin N /\ N \subseteq Blocks /\ ParentsPresent(N, P) /\ Acyclic(N, P)
  BY <1>1, NilAssumption DEF ForestInv
<1>3. \A x \in N : Up[x] = AncestorsOf(x, N, P)
  BY <1>1, <1>2 DEF Up
<1>4. \A x \in N : P[x] # Nil => P[x] \in N
  BY <1>2 DEF ParentsPresent, ClosedUnderParent
<1>5. ASSUME NEW x \in N
      PROVE  /\ x \in Up[x] /\ Up[x] \subseteq N
             /\ P[x] # Nil => P[x] \in N /\ P[x] # x /\ x \notin Up[P[x]]
             /\ Up[x] = IF P[x] = Nil THEN {x} ELSE {x} \cup Up[P[x]]
             /\ \A a, b \in Up[x] : P[a] = P[b] => a = b
  <2>1. x \in Up[x]
    BY <1>3, AncestorSelf
  <2>2. Up[x] \subseteq N
    BY <1>3 DEF AncestorsOf
  <2>3. P[x] # Nil => P[x] \in N /\ P[x] # x /\ x \notin Up[P[x]]
    BY <1>2, <1>3, <1>4, NotAboveParent
  <2>4. Up[x] = IF P[x] = Nil THEN {x} ELSE {x} \cup Up[P[x]]
    <3>1. AncestorsOf(x, N, P) = IF P[x] = Nil THEN {x} ELSE {x} \cup AncestorsOf(P[x], N, P)
      BY <1>2, AncestorsUnfold
    <3> QED BY <1>3, <1>4, <3>1
  <2>5. \A a, b \in Up[x] : P[a] = P[b] => a = b
    BY <1>2, <1>3, OneOfSiblings
  <2> QED BY <2>1, <2>2, <2>3, <2>4, <2>5
<1> QED BY <1>1, <1>2, <1>5, Zenon

(* What is above and below its target. *)
TargetFacts ==
    LET n == pruner.newFinal
    IN  /\ Below \subseteq before.nodes /\ n \notin Below /\ Nil \notin Below
        /\ \A x \in before.nodes :
                x \in Below <=> before.parent[x] = n \/ before.parent[x] \in Below
        /\ \A x \in Up[n] : x \in before.nodes /\ x \notin Below
        /\ \A x \in Up[n] : before.parent[x] = Nil \/ before.parent[x] \in Up[n]
        /\ \A p \in Up[n] \ {n} : \E a \in Up[n] : before.parent[a] = p

(* The forest has this shape. *)
LEMMA TargetShape == ForestInv /\ pruner.newFinal \in before.nodes => TargetFacts
<1> SUFFICES ASSUME ForestInv, NEW n, n = pruner.newFinal, n \in before.nodes
             PROVE  TargetFacts
  OBVIOUS
<1>1. PICK N, P : N = before.nodes /\ P = before.parent
  OBVIOUS
<1>2. Nil \notin N /\ N \subseteq Blocks /\ ParentsPresent(N, P) /\ Acyclic(N, P) /\ n \in N
  BY <1>1, NilAssumption DEF ForestInv
<1>3. Up[n] = AncestorsOf(n, N, P) /\ Below = KeptByPrune(n, N, P)
  BY <1>1, <1>2 DEF Up, Below
<1>4. KeptByPrune(n, N, P) \subseteq N \ {n}
  BY DEF KeptByPrune
<1>5. \A x \in N : x \in KeptByPrune(n, N, P) <=> P[x] = n \/ P[x] \in KeptByPrune(n, N, P)
  BY <1>2, BelowStep
<1>6. \A x \in AncestorsOf(n, N, P) : x \in N /\ x \notin KeptByPrune(n, N, P)
  BY <1>2, AboveNotBelow
<1>7. \A x \in AncestorsOf(n, N, P) : P[x] = Nil \/ P[x] \in AncestorsOf(n, N, P)
  BY <1>2, AncestorParent
<1>8. \A p \in AncestorsOf(n, N, P) \ {n} : \E a \in AncestorsOf(n, N, P) : P[a] = p
  BY <1>2, PathThroughChild
<1> QED BY <1>1, <1>2, <1>3, <1>4, <1>5, <1>6, <1>7, <1>8 DEF TargetFacts

-----------------------------------------------------------------------------
(* The new first sibling keeps the lists of siblings finite. *)
LEMMA AcyclicLinkedAfter ==
    ASSUME LinkTypes, NEW b \in Blocks \ slab, NEW next \in slab \cup {Nil}
    PROVE  Acyclic(slab \cup {b}, LinkedAfter(b, next))
<1> DEFINE link == LinkedAfter(b, next)
<1>1. SUFFICES ASSUME NEW S \in SUBSET (slab \cup {b}), S # {}
               PROVE  \E x \in S : link[x] \notin S
  BY DEF Acyclic
<1>2. Nil \notin S /\ \A x \in slab \cup {b} : x \in Blocks
  BY NilAssumption DEF LinkTypes
<1>3. CASE b \in S
  <2>1. link[b] = Nil
    BY NilAssumption DEF LinkedAfter, LinkTypes
  <2> QED BY <1>2, <1>3, <2>1
<1>4. CASE b \notin S
  <2>1. S \in SUBSET slab
    BY <1>4
  <2>2. PICK x \in S : previousSibling[x] \notin S
    BY <1>1, <2>1 DEF LinkTypes, Acyclic
  <2>3. link[x] \in {b, previousSibling[x]}
    BY <1>2, <1>4, <2>2 DEF LinkedAfter
  <2> QED BY <1>4, <2>2, <2>3
<1> QED BY <1>3, <1>4

(* insert *)
LEMMA InsertKeeps ==
    ASSUME TreeInv, NEW b \in Blocks, NEW p \in Blocks \cup {Nil}, Insert(b, p)
    PROVE  TreeInv'
<1>0. /\ Idle /\ Idle' /\ LinkTypes /\ ForestInv /\ LinksInv
      /\ b \notin slab /\ p \in slab \cup {Nil} /\ Nil \notin Blocks
  BY NilAssumption DEF TreeInv, Insert, Idle
<1>1. PICK next : next = First[p]
  OBVIOUS
<1>2. /\ slab' = slab \cup {b}
      /\ parent' = [parent EXCEPT ![b] = p]
      /\ nextSibling' = [nextSibling EXCEPT ![b] = next]
      /\ previousSibling' = LinkedAfter(b, next)
      /\ firstChild' = [x \in Blocks |-> IF x = p THEN b ELSE IF x = b THEN Nil ELSE firstChild[x]]
      /\ firstRoot' = (IF p = Nil THEN b ELSE firstRoot)
      /\ before' = [nodes |-> slab', parent |-> parent']
      /\ UNCHANGED isPruneTargetAncestor
  BY <1>1 DEF Insert, First
<1>3. next \in slab \cup {Nil} /\ (next # Nil => parent[next] = p /\ previousSibling[next] = Nil)
  BY <1>0, <1>1 DEF LinksInv
<1>4. LinkTypes'
  <2>1. previousSibling' \in [Blocks -> Blocks \cup {Nil}]
    BY <1>2 DEF LinkedAfter, LinkTypes, TreeInv
  <2>2. Acyclic(slab', previousSibling')
    BY <1>0, <1>2, <1>3, AcyclicLinkedAfter
  <2>3. /\ slab' \subseteq Blocks /\ parent' \in [Blocks -> Blocks \cup {Nil}]
        /\ firstChild' \in [Blocks -> Blocks \cup {Nil}]
        /\ nextSibling' \in [Blocks -> Blocks \cup {Nil}]
        /\ isPruneTargetAncestor' \in [Blocks -> BOOLEAN]
        /\ firstRoot' \in Blocks \cup {Nil}
        /\ \A x \in Blocks \ slab' : parent'[x] = Nil
    BY <1>0, <1>2, <1>3 DEF LinkTypes
  <2> QED BY <2>1, <2>2, <2>3 DEF LinkTypes
<1>5. ForestInv'
  <2>1. before' = [nodes |-> slab', parent |-> parent'] /\ before'.nodes = slab' /\ before'.parent = parent'
    BY <1>2
  <2>2. Acyclic(slab', parent')
    BY <1>0, <1>2, AcyclicInsert, Zenon DEF LinkTypes, ForestInv, LinksInv
  <2>3. ParentsPresent(slab', parent')
    BY <1>0, <1>2 DEF LinkTypes, ForestInv, LinksInv, ParentsPresent, ClosedUnderParent
  <2> QED BY <1>4, <2>1, <2>2, <2>3 DEF ForestInv, LinkTypes
<1>6. LinksInv'
  <2>1. before'.nodes = slab' /\ before'.parent = parent'
    BY <1>2
  <2>2. /\ previousSibling'[b] = Nil /\ nextSibling'[b] = next /\ parent'[b] = p
        /\ \A x \in slab : /\ parent'[x] = parent[x] /\ nextSibling'[x] = nextSibling[x]
                           /\ previousSibling'[x] = IF x = next THEN b ELSE previousSibling[x]
                           /\ x \in Blocks /\ x # b
    BY <1>0, <1>2, <1>3 DEF LinkTypes, LinkedAfter
  <2>3. /\ First'[p] = b /\ First'[b] = Nil
        /\ \A q \in slab \cup {Nil} : q # p => First'[q] = First[q]
    BY <1>0, <1>2 DEF First, LinkTypes
  <2>4. \A x \in slab : parent[x] \in slab \cup {Nil}
    BY <1>0 DEF ForestInv, LinksInv, ParentsPresent, ClosedUnderParent, LinkTypes
  <2>5. ASSUME NEW x \in slab'
        PROVE  /\ IF previousSibling'[x] = Nil THEN First'[parent'[x]] = x
                  ELSE /\ previousSibling'[x] \in slab'
                       /\ parent'[previousSibling'[x]] = parent'[x]
                       /\ nextSibling'[previousSibling'[x]] = x
               /\ nextSibling'[x] # Nil =>
                       /\ nextSibling'[x] \in slab'
                       /\ parent'[nextSibling'[x]] = parent'[x]
                       /\ previousSibling'[nextSibling'[x]] = x
    <3>1. CASE x = b
      BY <1>0, <1>2, <1>3, <2>2, <2>3, <3>1
    <3>2. CASE x # b /\ x = next
      <4>1. x \in slab /\ previousSibling'[x] = b
        BY <1>2, <2>2, <3>2
      <4>2. nextSibling[x] # Nil => nextSibling[x] \in slab /\ parent[nextSibling[x]] = parent[x]
                                    /\ previousSibling[nextSibling[x]] = x
        BY <1>0, <4>1 DEF LinksInv
      <4>3. nextSibling[x] # Nil => nextSibling[x] # next
        BY <1>0, <1>3, <3>2, <4>1, <4>2
      <4> QED BY <1>0, <1>2, <1>3, <2>2, <3>2, <4>1, <4>2, <4>3
    <3>3. CASE x # b /\ x # next
      <4>1. x \in slab /\ previousSibling'[x] = previousSibling[x]
        BY <1>2, <2>2, <3>3
      <4>2. nextSibling[x] # Nil => nextSibling[x] \in slab /\ parent[nextSibling[x]] = parent[x]
                                    /\ previousSibling[nextSibling[x]] = x
        BY <1>0, <4>1 DEF LinksInv
      <4>3. nextSibling[x] # Nil => nextSibling[x] # next
        BY <1>0, <1>3, <2>2, <4>1, <4>2
      <4>4. CASE previousSibling[x] = Nil
        <5>1. First[parent[x]] = x
          BY <1>0, <4>1, <4>4 DEF LinksInv
        <5>2. parent[x] # p
          BY <1>1, <3>3, <5>1
        <5> QED BY <1>2, <2>2, <2>3, <2>4, <4>1, <4>2, <4>3, <4>4, <5>1, <5>2
      <4>5. CASE previousSibling[x] # Nil
        <5>1. /\ previousSibling[x] \in slab /\ parent[previousSibling[x]] = parent[x]
              /\ nextSibling[previousSibling[x]] = x
          BY <1>0, <4>1, <4>5 DEF LinksInv
        <5> QED BY <1>2, <2>2, <4>1, <4>2, <4>3, <4>5, <5>1
      <4> QED BY <4>4, <4>5
    <3> QED BY <3>1, <3>2, <3>3
  <2>6. ASSUME NEW q \in slab' \cup {Nil}, First'[q] # Nil
        PROVE  First'[q] \in slab' /\ parent'[First'[q]] = q /\ previousSibling'[First'[q]] = Nil
    <3>1. CASE q = p
      BY <1>2, <2>2, <2>3, <3>1
    <3>2. CASE q # p
      <4>1. q # b /\ q \in slab \cup {Nil} /\ First'[q] = First[q]
        BY <1>2, <2>3, <2>6, <3>2
      <4>2. First[q] \in slab /\ parent[First[q]] = q /\ previousSibling[First[q]] = Nil
        BY <1>0, <2>6, <4>1 DEF LinksInv
      <4>3. First[q] # next
        BY <1>0, <1>3, <2>6, <3>2, <4>1, <4>2
      <4> QED BY <1>2, <2>2, <4>1, <4>2, <4>3
    <3> QED BY <3>1, <3>2
  <2>7. \A x \in Blocks : ~isPruneTargetAncestor'[x]
    BY <1>0, <1>2 DEF LinksInv
  <2> QED BY <2>1, <2>5, <2>6, <2>7 DEF LinksInv
<1> QED BY <1>0, <1>4, <1>5, <1>6 DEF TreeInv

(* A tree without nodes, as it is created and as clear leaves it. *)
NoNodes ==
    /\ slab = {} /\ firstRoot = Nil /\ Idle /\ before = [nodes |-> {}, parent |-> NoLinks]
    /\ parent = NoLinks /\ firstChild = NoLinks /\ nextSibling = NoLinks
    /\ previousSibling = NoLinks /\ isPruneTargetAncestor = [b \in Blocks |-> FALSE]

(* A tree without nodes satisfies the invariant. *)
LEMMA EmptyTree == NoNodes => TreeInv
<1> SUFFICES ASSUME NoNodes PROVE TreeInv
  OBVIOUS
<1>1. Acyclic({}, NoLinks) /\ ParentsPresent({}, NoLinks)
  BY DEF Acyclic, ParentsPresent, ClosedUnderParent
<1>2. LinkTypes /\ ForestInv
  BY <1>1 DEF NoNodes, LinkTypes, ForestInv, NoLinks
<1>3. LinksInv
  BY DEF NoNodes, LinksInv, First
<1> QED BY <1>2, <1>3 DEF NoNodes, TreeInv

(* A tree that has a node has a first root. *)
LEMMA FirstRootExists ==
    ASSUME Idle, TreeInv, slab # {}
    PROVE  firstRoot \in slab /\ parent[firstRoot] = Nil /\ previousSibling[firstRoot] = Nil
<1>0. /\ LinkTypes /\ ForestInv /\ LinksInv /\ Nil \notin slab
      /\ Acyclic(slab, parent) /\ ParentsPresent(slab, parent)
  BY NilAssumption DEF TreeInv, LinkTypes, LinksInv, ForestInv
<1>1. PICK x \in slab : parent[x] \notin slab
  BY <1>0 DEF Acyclic
<1>2. parent[x] = Nil
  BY <1>0, <1>1 DEF ParentsPresent, ClosedUnderParent
<1> DEFINE S == {y \in slab : parent[y] = Nil}
<1>3. S \in SUBSET slab /\ S # {}
  BY <1>1, <1>2
<1>4. PICK y \in S : previousSibling[y] \notin S
  <2> HIDE DEF S
  <2> QED BY <1>0, <1>3 DEF LinkTypes, Acyclic
<1>5. previousSibling[y] = Nil
  BY <1>0, <1>4 DEF LinksInv
<1>6. First[Nil] = y /\ First[Nil] = firstRoot
  BY <1>0, <1>4, <1>5, Zenon DEF LinksInv, First
<1> QED BY <1>4, <1>5, <1>6

(* prune_ancestors and prune_uncles, until the first call to next. *)
LEMMA StartPruneKeeps ==
    ASSUME TreeInv, NEW n \in Blocks, NEW unclesOnly \in BOOLEAN,
           StartPrune(n, unclesOnly)
    PROVE  TreeInv' /\ ~Idle'
<1>0. /\ Idle /\ LinkTypes /\ ForestInv /\ LinksInv /\ n \in slab /\ Nil \notin Blocks
      /\ slab' = slab /\ before' = before /\ slab \subseteq Blocks
      /\ parent' = parent /\ firstChild' = firstChild
      /\ nextSibling' = nextSibling /\ previousSibling' = previousSibling
      /\ before.nodes = slab /\ before.parent = parent
      /\ ParentsPresent(slab, parent) /\ Acyclic(slab, parent)
  BY NilAssumption DEF TreeInv, StartPrune, links, LinkTypes, LinksInv, ForestInv
<1>i. LinksInv /\ n \in slab /\ n # Nil
  BY <1>0, Zenon
<1>1. PICK up, root : up = AncestorsOf(n, slab, parent) /\ root = CHOOSE b \in up : parent[b] = Nil
  OBVIOUS
<1>2. root \in up /\ parent[root] = Nil /\ up \subseteq slab
  <2>1. (\E r \in up : parent[r] = Nil) /\ up \subseteq slab
    BY <1>0, <1>1, RootAbove DEF AncestorsOf
  <2> QED BY <1>1, <2>1, Zenon
<1>3. \A b \in Blocks : ~isPruneTargetAncestor[b]
  BY <1>0 DEF LinksInv
<1>4. /\ isPruneTargetAncestor' = [b \in Blocks |-> isPruneTargetAncestor[b] \/ b \in up]
      /\ firstRoot' = (IF unclesOnly THEN root ELSE firstChild[n])
      /\ pruner' = [newFinal |-> n, unclesOnly |-> unclesOnly,
                    iter |-> firstRoot, traversingUp |-> FALSE]
  BY <1>1 DEF StartPrune
<1>5. firstRoot \in slab /\ parent[firstRoot] = Nil /\ previousSibling[firstRoot] = Nil
  BY <1>0, FirstRootExists
<1>6. /\ pruner' \in Pruners /\ ~Idle'
      /\ pruner'.newFinal = n /\ pruner'.unclesOnly = unclesOnly
      /\ pruner'.iter = firstRoot /\ pruner'.traversingUp = FALSE
  <2>1. firstRoot \in Blocks
    BY <1>0, <1>5
  <2>2. PICK new : new = pruner'
    OBVIOUS
  <2>3. new = [newFinal |-> n, unclesOnly |-> unclesOnly, iter |-> firstRoot, traversingUp |-> FALSE]
    BY <1>4, <2>2
  <2>4. new \in Pruners
    BY <2>1, <2>3 DEF Pruners
  <2>5. new # NotPruning
    BY <2>4, ForkTreeAssumption
  <2>6. new.newFinal = n /\ new.unclesOnly = unclesOnly /\ new.iter = firstRoot
        /\ new.traversingUp = FALSE
    BY <2>3
  <2> QED BY <2>2, <2>4, <2>5, <2>6 DEF Idle
<1>7. ForestInv'
  BY <1>0 DEF ForestInv
<1>8. /\ Up' = Up /\ Up[n] = AncestorsOf(n, slab, parent)
      /\ \A b \in Blocks : isPruneTargetAncestor'[b] <=> b \in Up[n]
      /\ root \in Up[n] /\ parent[root] = Nil
  BY <1>0, <1>1, <1>2, <1>3, <1>4, Zenon DEF Up
<1>9. /\ isPruneTargetAncestor' \in [Blocks -> BOOLEAN] /\ firstRoot' \in Blocks \cup {Nil}
  <2>1. isPruneTargetAncestor' \in [Blocks -> BOOLEAN]
    BY <1>0, <1>4 DEF LinkTypes
  <2>2. root \in Blocks
    BY <1>0, <1>2
  <2>3. firstChild[n] \in Blocks \cup {Nil}
    BY <1>0 DEF LinkTypes
  <2> QED BY <1>4, <2>1, <2>2, <2>3, Zenon
<1>10. LinkTypes'
  BY <1>0, <1>9 DEF LinkTypes
<1>11. PICK D : D = Below'
  OBVIOUS
<1>12. /\ D \subseteq slab /\ n \notin D /\ Nil \notin D
       /\ \A x \in slab : x \in D <=> parent[x] = n \/ parent[x] \in D
       /\ \A x \in Up[n] : x \in slab /\ x \notin D
  <2>1. (pruner.newFinal \in before.nodes)'
    BY <1>0, <1>6
  <2>2. TargetFacts'
    BY <1>7, <2>1, TargetShape, PTL
  <2> QED BY <1>0, <1>6, <1>8, <1>11, <2>2 DEF TargetFacts
<1>13. Kept' = (IF unclesOnly THEN D \cup Up[n] ELSE D)
  BY <1>6, <1>8, <1>11 DEF Kept
<1>14. Todo' = {b \in slab : b \notin D \/ (~unclesOnly /\ parent[b] = n)}
  <2>1. Todo' = {b \in slab : \/ b \notin Kept'
                              \/ IF unclesOnly THEN isPruneTargetAncestor'[b] ELSE parent[b] = n}
    BY <1>0, <1>6 DEF Todo
  <2> QED BY <1>0, <1>8, <1>12, <1>13, <2>1
<1>15. Path' = {firstRoot} /\ Fresh' = Blocks
  <2>1. Up[firstRoot] = {firstRoot}
    BY <1>0, <1>5, Shape, Zenon
  <2>2. Path' = {firstRoot}
    BY <1>6, <1>8, <2>1 DEF Path
  <2> QED BY <1>6, <2>2 DEF Fresh
<1>16. /\ \A x \in slab : x \in Blocks /\ x # Nil /\ parent[x] \in slab \cup {Nil}
       /\ \A x \in slab : parent[x] # Nil => First[parent[x]] = firstChild[parent[x]]
       /\ \A x \in slab : First[x] = firstChild[x]
       /\ First[Nil] = firstRoot
  BY <1>0 DEF First, ParentsPresent, ClosedUnderParent
<1>17. NodesInv'
  BY <1>0, <1>6, <1>12, <1>13 DEF NodesInv
<1>18. IterInv'
  BY <1>0, <1>5, <1>6, <1>12, <1>14, <1>15 DEF IterInv
<1>19. BelowInv'
  <2>1. ASSUME NEW x \in D
        PROVE  /\ IF previousSibling[x] = Nil
                  THEN IF parent[x] = n /\ ~unclesOnly THEN firstRoot' = x ELSE firstChild[parent[x]] = x
                  ELSE /\ previousSibling[x] \in D /\ parent[previousSibling[x]] = parent[x]
                       /\ nextSibling[previousSibling[x]] = x
               /\ nextSibling[x] # Nil => /\ nextSibling[x] \in D /\ parent[nextSibling[x]] = parent[x]
                                          /\ previousSibling[nextSibling[x]] = x
               /\ firstChild[x] # Nil => /\ firstChild[x] \in D /\ parent[firstChild[x]] = x
                                         /\ previousSibling[firstChild[x]] = Nil
    <3>1. x \in slab /\ parent[x] # Nil /\ parent[x] \in slab
      <4>1. x \in slab /\ (parent[x] = n \/ parent[x] \in D)
        BY <1>12, Zenon
      <4> QED BY <1>i, <1>12, <4>1, Zenon
    <3>2. previousSibling[x] = Nil => firstChild[parent[x]] = x
      BY <1>i, <1>16, <3>1 DEF LinksInv
    <3>3. previousSibling[x] # Nil => /\ previousSibling[x] \in slab
                                      /\ parent[previousSibling[x]] = parent[x]
                                      /\ nextSibling[previousSibling[x]] = x
      BY <1>i, <3>1, Zenon DEF LinksInv
    <3>4. nextSibling[x] # Nil => /\ nextSibling[x] \in slab /\ parent[nextSibling[x]] = parent[x]
                                  /\ previousSibling[nextSibling[x]] = x
      BY <1>i, <3>1, Zenon DEF LinksInv
    <3>5. firstChild[x] # Nil => /\ firstChild[x] \in slab /\ parent[firstChild[x]] = x
                                 /\ previousSibling[firstChild[x]] = Nil
      BY <1>i, <1>16, <3>1 DEF LinksInv
    <3> QED BY <1>4, <1>12, <3>1, <3>2, <3>3, <3>4, <3>5
  <2> QED BY <1>0, <1>6, <1>11, <2>1 DEF BelowInv, LinksBelow
<1>20. TopInv'
  <2>1. Top' = firstChild[n]
    BY <1>0, <1>4, <1>6, Zenon DEF Top
  <2>2. firstChild[n] # Nil => /\ firstChild[n] \in slab /\ parent[firstChild[n]] = n
                               /\ previousSibling[firstChild[n]] = Nil
    BY <1>i, <1>16 DEF LinksInv
  <2>3. firstChild[n] # Nil => firstChild[n] \in D
    BY <1>12, <2>2, Zenon
  <2> QED BY <1>0, <1>6, <1>11, <2>1, <2>2, <2>3, Zenon DEF TopInv
<1>21. MarksInv' /\ AboveInv'
  <2>1. MarksInv'
    BY <1>0, <1>6, <1>8, <1>12, Zenon DEF MarksInv
  <2> QED BY <1>0, <1>4, <1>6, <1>8, <1>12, <2>1, Zenon DEF AboveInv
<1>22. VisitInv'
  <2> DEFINE V == {b \in slab : b \notin D \/ (~unclesOnly /\ parent[b] = n)}
  <2>1. ASSUME NEW x \in V
        PROVE  /\ previousSibling[x] = Nil /\ parent[x] # Nil => firstChild[parent[x]] = x
               /\ x # firstRoot =>
                    IF previousSibling[x] = Nil THEN parent[x] # Nil /\ parent[x] \in V
                    ELSE /\ previousSibling[x] \in V /\ parent[previousSibling[x]] = parent[x]
                         /\ nextSibling[previousSibling[x]] = x
               /\ nextSibling[x] # Nil => /\ nextSibling[x] \in V /\ parent[nextSibling[x]] = parent[x]
                                          /\ previousSibling[nextSibling[x]] = x
               /\ firstChild[x] # Nil /\ parent[x] # n =>
                    /\ firstChild[x] \in slab
                    /\ firstChild[x] \in V \/ (unclesOnly /\ x = n)
                    /\ parent[firstChild[x]] = x /\ previousSibling[firstChild[x]] = Nil
    <3>1. x \in slab /\ (x \in D => ~unclesOnly /\ parent[x] = n)
      OBVIOUS
    <3>2. previousSibling[x] = Nil => First[parent[x]] = x
      BY <1>i, <3>1, Zenon DEF LinksInv
    <3>3. previousSibling[x] # Nil => /\ previousSibling[x] \in slab
                                      /\ parent[previousSibling[x]] = parent[x]
                                      /\ nextSibling[previousSibling[x]] = x
      BY <1>i, <3>1, Zenon DEF LinksInv
    <3>4. nextSibling[x] # Nil => /\ nextSibling[x] \in slab /\ parent[nextSibling[x]] = parent[x]
                                  /\ previousSibling[nextSibling[x]] = x
      BY <1>i, <3>1, Zenon DEF LinksInv
    <3>5. firstChild[x] # Nil => /\ firstChild[x] \in slab /\ parent[firstChild[x]] = x
                                 /\ previousSibling[firstChild[x]] = Nil
      BY <1>i, <1>16, <3>1 DEF LinksInv
    <3>6. previousSibling[x] = Nil /\ x # firstRoot => parent[x] # Nil /\ parent[x] \in V
      <4>1. ASSUME previousSibling[x] = Nil, x # firstRoot PROVE parent[x] # Nil /\ parent[x] \in slab
        BY <1>16, <3>1, <3>2, <4>1
      <4> QED BY <1>12, <3>1, <4>1
    <3>7. previousSibling[x] # Nil => previousSibling[x] \in V
      BY <1>12, <3>1, <3>3
    <3>8. nextSibling[x] # Nil => nextSibling[x] \in V
      BY <1>12, <3>1, <3>4
    <3>9. firstChild[x] # Nil /\ parent[x] # n => firstChild[x] \in V \/ (unclesOnly /\ x = n)
      BY <1>12, <3>1, <3>5
    <3> QED BY <1>16, <3>1, <3>2, <3>3, <3>4, <3>5, <3>6, <3>7, <3>8, <3>9, Zenon
  <2>2. Todo' = V /\ V \subseteq Blocks
    BY <1>0, <1>14
  <2> HIDE DEF V
  <2> QED BY <1>0, <1>6, <1>15, <2>1, <2>2, Zenon DEF VisitInv
<1> QED BY <1>6, <1>7, <1>10, <1>17, <1>18, <1>19, <1>20, <1>21, <1>22 DEF TreeInv, PruneInv

-----------------------------------------------------------------------------
(* What the steps of the iterator use of the invariant.  Where it stands is *)
(* still to be visited, unless it is a child of the target that             *)
(* prune_uncles keeps.                                                      *)
LEMMA AtIter ==
    ASSUME LinkTypes, ForestInv, PruneInv,
           NEW it, it = pruner.iter, NEW n, n = pruner.newFinal, parent[it] # n
    PROVE  /\ it \in Todo /\ it \in slab /\ it \notin Below
           /\ before.parent[it] # n /\ parent[it] = before.parent[it]
<1>1. it \in slab /\ it \in before.nodes /\ TargetFacts
  BY TargetShape DEF PruneInv, IterInv, NodesInv
<1>2. before.parent[it] = n => it \in Below
  BY <1>1 DEF TargetFacts
<1>3. it \in Todo /\ before.parent[it] # n /\ parent[it] = before.parent[it]
  BY <1>1, <1>2 DEF PruneInv, IterInv, NodesInv, Todo, Kept
<1>4. it \notin Below
  <2>1. SUFFICES ASSUME it \in Below PROVE FALSE
    OBVIOUS
  <2>2. pruner.unclesOnly /\ isPruneTargetAncestor[it]
    BY <1>3, <2>1 DEF Todo, Kept
  <2>3. it \in Up[n] /\ it \in Blocks
    BY <1>1, <2>2 DEF PruneInv, MarksInv, LinkTypes
  <2> QED BY <1>1, <2>1, <2>3 DEF TargetFacts
<1> QED BY <1>1, <1>3, <1>4

(* What is below a child of the target is not visited. *)
LEMMA TodoNotBelow ==
    ASSUME LinkTypes, ForestInv, PruneInv, NEW x \in Todo
    PROVE  before.parent[x] \notin Below
<1>1. x \in slab /\ x \in before.nodes /\ x \in Blocks /\ TargetFacts /\ NodesInv
  BY TargetShape DEF PruneInv, NodesInv, Todo, LinkTypes
<1>2. SUFFICES ASSUME before.parent[x] \in Below PROVE FALSE
  OBVIOUS
<1>3. x \in Below /\ before.parent[x] # pruner.newFinal
  BY <1>1, <1>2 DEF TargetFacts
<1>4. CASE pruner.unclesOnly
  <2>1. x \in Up[pruner.newFinal]
    BY <1>1, <1>3, <1>4 DEF Todo, Kept, PruneInv, MarksInv
  <2> QED BY <1>1, <1>3, <2>1 DEF TargetFacts
<1>5. CASE ~pruner.unclesOnly
  <2>1. parent[x] = pruner.newFinal
    BY <1>3, <1>5 DEF Todo, Kept
  <2>2. Nil # pruner.newFinal
    BY <1>1, NilAssumption DEF NodesInv, ForestInv
  <2> QED BY <1>1, <1>3, <2>1, <2>2 DEF NodesInv
<1> QED BY <1>4, <1>5

(* A sibling of the node where the iterator stands that is still to be      *)
(* visited is not the first one.                                            *)
LEMMA SiblingsAfter ==
    ASSUME LinkTypes, ForestInv, PruneInv, NEW it, it = pruner.iter,
           NEW x \in Todo, x # it, before.parent[x] = before.parent[it]
    PROVE  /\ x \notin Path /\ previousSibling[x] # Nil
           /\ previousSibling[x] \in Todo /\ nextSibling[previousSibling[x]] = x
           /\ before.parent[previousSibling[x]] = before.parent[it]
<1>1. it \in before.nodes /\ x \in before.nodes /\ Path = Up[it]
  BY DEF PruneInv, IterInv, NodesInv, Todo, Path
<1>2. it \in Up[it] /\ x \notin Path
  BY <1>1, Shape, Zenon
<1>3. ASSUME before.parent[x] # Nil PROVE before.parent[x] \notin Fresh
  <2>1. before.parent[it] # it /\ before.parent[it] \in before.nodes
        /\ Up[it] = {it} \cup Up[before.parent[it]]
    BY <1>1, <1>3, Shape, Zenon
  <2>2. before.parent[it] \in Up[before.parent[it]]
    BY <2>1, Shape, Zenon
  <2> QED BY <1>1, <2>1, <2>2 DEF Fresh
<1> QED BY <1>2, <1>3 DEF PruneInv, VisitInv

(* All of them come after it. *)
LEMMA NobodyBefore ==
    ASSUME LinkTypes, ForestInv, PruneInv, NEW it, it = pruner.iter, NEW x \in Todo
    PROVE  nextSibling[x] # it
<1>1. SUFFICES ASSUME nextSibling[x] = it PROVE FALSE
  OBVIOUS
<1>2. it # Nil /\ Nil \notin Blocks /\ slab \subseteq Blocks /\ Todo \subseteq slab
  BY NilAssumption DEF PruneInv, IterInv, Todo, LinkTypes
<1>3. it \in Todo /\ before.parent[it] = before.parent[x] /\ previousSibling[it] = x
  BY <1>1, <1>2 DEF PruneInv, VisitInv
<1> DEFINE S == {y \in Todo : before.parent[y] = before.parent[it]}
<1>4. ASSUME NEW y \in S PROVE previousSibling[y] \in S
  <2>1. CASE y = it
    BY <1>3, <2>1
  <2>2. CASE y # it
    BY <2>2, SiblingsAfter
  <2> QED BY <2>1, <2>2
<1>5. S \in SUBSET slab /\ it \in S
  BY <1>2, <1>3
<1> HIDE DEF S
<1> QED BY <1>4, <1>5 DEF LinkTypes, Acyclic

(* A node is not its own sibling. *)
LEMMA SiblingIsOther ==
    ASSUME LinkTypes, NEW x \in slab
    PROVE  previousSibling[x] # x
<1>1. {x} \in SUBSET slab /\ {x} # {}
  OBVIOUS
<1>2. PICK y \in {x} : previousSibling[y] \notin {x}
  BY <1>1, Zenon DEF LinkTypes, Acyclic
<1> QED BY <1>2

(* Unlinking a node keeps the lists of siblings finite. *)
LEMMA AcyclicUnlink ==
    ASSUME LinkTypes, NEW nodes \in SUBSET slab, NEW link,
           \A x \in nodes : link[x] \in {previousSibling[x], Nil}
    PROVE  Acyclic(nodes, link)
<1>1. SUFFICES ASSUME NEW S \in SUBSET nodes, S # {} PROVE \E x \in S : link[x] \notin S
  BY DEF Acyclic
<1>2. PICK x \in S : previousSibling[x] \notin S
  BY <1>1 DEF LinkTypes, Acyclic
<1>3. Nil \notin S
  BY NilAssumption DEF LinkTypes
<1> QED BY <1>2, <1>3

(* A step of the iterator that does not end the pruning. *)
LEMMA Frame ==
    ASSUME before' = before, pruner'.newFinal = pruner.newFinal,
           pruner'.unclesOnly = pruner.unclesOnly
    PROVE  Up' = Up /\ Below' = Below /\ Kept' = Kept
<1>1. Up' = Up /\ Below' = Below
  BY DEF Up, Below
<1> QED BY <1>1 DEF Kept

(* The iterator goes down to the first child. *)
LEMMA GoDownKeeps ==
    ASSUME TreeInv, GoDown
    PROVE  TreeInv' /\ ~Idle' /\ before' = before
<1>0. /\ LinkTypes /\ ForestInv /\ PruneInv /\ NodesInv /\ pruner \in Pruners
      /\ slab' = slab /\ before' = before /\ firstRoot' = firstRoot
      /\ isPruneTargetAncestor' = isPruneTargetAncestor
      /\ parent' = parent /\ firstChild' = firstChild
      /\ nextSibling' = nextSibling /\ previousSibling' = previousSibling
  BY DEF GoDown, TreeInv, links, PruneInv, NodesInv
<1>1. PICK it, n, c : it = pruner.iter /\ n = pruner.newFinal /\ c = firstChild[it]
  OBVIOUS
<1>2. /\ parent[it] # n /\ ~pruner.traversingUp /\ c # Nil
      /\ pruner' = [pruner EXCEPT !.iter = c]
  BY <1>1 DEF GoDown
<1>3. it \in Todo /\ it \in slab /\ before.parent[it] # n
  BY <1>0, <1>1, <1>2, AtIter
<1>4. it \in Fresh
  BY <1>0, <1>1, <1>2, <1>3 DEF Fresh, LinkTypes
<1>5. /\ c \in slab /\ before.parent[c] = it /\ previousSibling[c] = Nil
      /\ c \in Todo \/ (pruner.unclesOnly /\ it = n)
  BY <1>0, <1>1, <1>2, <1>3, <1>4 DEF PruneInv, VisitInv
<1>6. /\ pruner' \in Pruners /\ pruner'.iter = c /\ ~pruner'.traversingUp
      /\ pruner'.newFinal = n /\ pruner'.unclesOnly = pruner.unclesOnly
  <2>1. c \in Blocks
    BY <1>0, <1>5 DEF LinkTypes
  <2> QED BY <1>0, <1>1, <1>2, <2>1 DEF Pruners
<1>7. ~Idle'
  BY <1>6, ForkTreeAssumption DEF Idle
<1>8. Up' = Up /\ Below' = Below /\ Kept' = Kept
  BY <1>0, <1>1, <1>6, Frame
<1>9. Todo' = Todo
  BY <1>0, <1>1, <1>6, <1>8 DEF Todo
<1>10. c \notin Path /\ Path' = Path \cup {c} /\ it \in Path
  <2>1. c \in before.nodes /\ it \in before.nodes /\ it # Nil /\ Path = Up[it]
    BY <1>0, <1>1, <1>3, <1>5, NilAssumption DEF NodesInv, ForestInv, Path
  <2>2. c \notin Up[it] /\ Up[c] = {c} \cup Up[it] /\ it \in Up[it]
    BY <1>0, <1>5, <2>1, Shape, Zenon
  <2>3. Path' = Up[c]
    BY <1>6, <1>8 DEF Path
  <2> QED BY <2>1, <2>2, <2>3
<1>11. Fresh' = {b \in Blocks : b \notin Path}
  BY <1>6, <1>10 DEF Fresh
<1>12. NodesInv'
  BY <1>0, <1>1, <1>6, <1>8, Zenon DEF NodesInv
<1>13. IterInv'
  BY <1>0, <1>1, <1>3, <1>5, <1>6, <1>9, <1>10, Zenon DEF IterInv, PruneInv
<1>14. BelowInv' /\ TopInv' /\ MarksInv' /\ AboveInv'
  <2>1. BelowInv' /\ TopInv'
    <3>1. BelowInv'
      BY <1>0, <1>1, <1>6, <1>8 DEF PruneInv, BelowInv
    <3>2. Top' = Top
      BY <1>0, <1>1, <1>6, Zenon DEF Top
    <3> QED BY <1>0, <1>1, <1>6, <1>8, <3>1, <3>2, Zenon DEF PruneInv, TopInv
  <2>2. MarksInv' /\ AboveInv'
    BY <1>0, <1>1, <1>6, <1>8, Zenon DEF PruneInv, MarksInv, AboveInv
  <2> QED BY <2>1, <2>2
<1>15. VisitInv'
  <2>1. ASSUME NEW x \in Todo, x \notin Path, x # c, previousSibling[x] = Nil
        PROVE  before.parent[x] \notin Path
    <3>1. before.parent[x] \in Fresh /\ firstChild[before.parent[x]] = x
      BY <1>0, <2>1, Zenon DEF PruneInv, VisitInv
    <3>2. before.parent[x] # it
      BY <1>1, <2>1, <3>1, Zenon
    <3> QED BY <1>1, <3>1, <3>2 DEF Fresh
  <2>2. \A x \in Fresh' : x \in Fresh
    BY <1>11 DEF Fresh
  <2>3. ASSUME NEW x \in Todo
        PROVE  /\ previousSibling[x] = Nil /\ before.parent[x] # Nil => firstChild[before.parent[x]] = x
               /\ x \notin Path' =>
                    IF previousSibling[x] = Nil
                    THEN before.parent[x] # Nil /\ before.parent[x] \in Todo \cap Fresh'
                    ELSE /\ previousSibling[x] \in Todo
                         /\ before.parent[previousSibling[x]] = before.parent[x]
                         /\ nextSibling[previousSibling[x]] = x
               /\ nextSibling[x] # Nil =>
                    /\ nextSibling[x] \in Todo /\ before.parent[nextSibling[x]] = before.parent[x]
                    /\ previousSibling[nextSibling[x]] = x
               /\ firstChild[x] # Nil /\ x \in Fresh' /\ before.parent[x] # n =>
                    /\ firstChild[x] \in slab
                    /\ firstChild[x] \in Todo \/ (pruner.unclesOnly /\ x = n)
                    /\ before.parent[firstChild[x]] = x
                    /\ previousSibling[firstChild[x]] = Nil
    <3>1. \A y \in Todo : y \in Blocks
      BY <1>0 DEF Todo, LinkTypes
    <3> QED BY <1>0, <1>1, <1>10, <1>11, <2>1, <2>2, <2>3, <3>1, Zenon DEF PruneInv, VisitInv
  <2> QED BY <1>0, <1>1, <1>6, <1>9, <2>3, Zenon DEF VisitInv
<1>16. LinkTypes' /\ ForestInv'
  BY <1>0 DEF LinkTypes, ForestInv
<1> QED BY <1>0, <1>7, <1>12, <1>13, <1>14, <1>15, <1>16 DEF TreeInv, PruneInv

(* The iterator passes a child of the target. *)
LEMMA KeepChildKeeps ==
    ASSUME TreeInv, KeepChild
    PROVE  TreeInv' /\ ~Idle' /\ before' = before
<1>0. /\ LinkTypes /\ ForestInv /\ PruneInv /\ NodesInv /\ pruner \in Pruners /\ TargetFacts
      /\ slab' = slab /\ before' = before /\ firstRoot' = firstRoot
      /\ isPruneTargetAncestor' = isPruneTargetAncestor /\ firstChild' = firstChild
      /\ nextSibling' = nextSibling /\ previousSibling' = previousSibling
  BY TargetShape DEF KeepChild, TreeInv, PruneInv, NodesInv
<1>1. PICK it, n, s, uncles : /\ it = pruner.iter /\ n = pruner.newFinal /\ s = nextSibling[it]
                              /\ uncles = pruner.unclesOnly
  OBVIOUS
<1>2. /\ parent[it] = n
      /\ parent' = (IF uncles THEN parent ELSE [parent EXCEPT ![it] = Nil])
      /\ pruner' = IF s # Nil THEN [pruner EXCEPT !.iter = s]
                   ELSE [pruner EXCEPT !.iter = n, !.traversingUp = TRUE]
  BY <1>1 DEF KeepChild, BackToTarget
<1>3. /\ n \in before.nodes /\ n # Nil /\ it \in slab /\ it \in before.nodes /\ n \in Blocks
      /\ before.nodes \subseteq Blocks /\ slab \subseteq Blocks /\ Nil \notin Blocks
  BY <1>0, <1>1, NilAssumption DEF NodesInv, PruneInv, IterInv, ForestInv
<1>4. before.parent[it] = n /\ it \in Below
  BY <1>0, <1>1, <1>2, <1>3 DEF NodesInv, TargetFacts
<1>5. /\ s # Nil => s \in Below /\ before.parent[s] = n /\ previousSibling[s] = it
      /\ Below \subseteq slab /\ Below \cap Up[n] = {}
  <2>1. BelowInv
    BY <1>0 DEF PruneInv
  <2>2. s # Nil => s \in Below /\ before.parent[s] = n /\ previousSibling[s] = it
    BY <1>1, <1>4, <2>1, Zenon DEF BelowInv, LinksBelow
  <2>3. Below \subseteq slab
    BY <1>0, Zenon DEF NodesInv, Kept
  <2>4. Below \cap Up[n] = {}
    BY <1>0, <1>1, Zenon DEF TargetFacts
  <2> QED BY <2>2, <2>3, <2>4, Zenon
<1>6. s # it
  BY <1>3, <1>5, <1>0, SiblingIsOther, Zenon
<1>7. /\ pruner' \in Pruners /\ pruner'.newFinal = n /\ pruner'.unclesOnly = uncles
      /\ pruner'.iter = (IF s # Nil THEN s ELSE n)
      /\ s = Nil => pruner'.traversingUp
  <2>1. s # Nil => s \in Blocks
    BY <1>3, <1>5
  <2>2. CASE s # Nil
    BY <1>0, <1>1, <1>2, <2>1, <2>2 DEF Pruners
  <2>3. CASE s = Nil
    <3>1. pruner' = [pruner EXCEPT !.iter = n, !.traversingUp = TRUE]
      BY <1>2, <2>3
    <3>2. pruner'.traversingUp = TRUE /\ pruner'.iter = n
      BY <1>0, <3>1 DEF Pruners
    <3>3. pruner'.newFinal = pruner.newFinal /\ pruner'.unclesOnly = pruner.unclesOnly
      BY <1>0, <3>1 DEF Pruners
    <3>4. pruner' \in Pruners
      BY <1>0, <1>3, <3>1, Zenon DEF Pruners
    <3> QED BY <1>1, <2>3, <3>2, <3>3, <3>4
  <2> QED BY <2>2, <2>3
<1>8. ~Idle'
  BY <1>7, ForkTreeAssumption DEF Idle
<1>9. Up' = Up /\ Below' = Below /\ Kept' = Kept
  BY <1>0, <1>1, <1>7, Frame
<1>10. Todo' = Todo \ {it}
  <2>1. CASE uncles
    <3>1. it \notin Todo
      <4>1. isPruneTargetAncestor[it] => it \in Up[n]
        BY <1>0, <1>1, <1>3, <2>1 DEF PruneInv, MarksInv
      <4>2. ~isPruneTargetAncestor[it] /\ it \in Kept
        BY <1>1, <1>4, <1>5, <2>1, <4>1 DEF Kept
      <4> QED BY <1>1, <2>1, <4>2 DEF Todo
    <3>2. Todo' = Todo
      <4>1. Todo = {b \in slab : b \notin Kept \/ isPruneTargetAncestor[b]}
        BY <1>1, <2>1, Zenon DEF Todo
      <4>2. Todo' = {b \in slab' : b \notin Kept' \/ isPruneTargetAncestor'[b]}
        BY <1>7, <2>1, Zenon DEF Todo
      <4> QED BY <1>0, <1>9, <4>1, <4>2, Zenon
    <3> QED BY <3>1, <3>2
  <2>2. CASE ~uncles
    <3>1. Todo = {b \in slab : b \notin Below \/ parent[b] = n}
      BY <1>1, <2>2 DEF Todo, Kept
    <3>2. Todo' = {b \in slab : b \notin Below \/ parent'[b] = n}
      <4>1. Todo' = {b \in slab' : b \notin Kept' \/ parent'[b] = n}
        BY <1>7, <2>2 DEF Todo
      <4> QED BY <1>0, <1>1, <1>9, <2>2, <4>1 DEF Kept
    <3>3. parent'[it] = Nil /\ \A b \in Blocks : b # it => parent'[b] = parent[b]
      BY <1>0, <1>2, <1>3, <2>2 DEF LinkTypes
    <3> QED BY <1>3, <1>4, <3>1, <3>2, <3>3
  <2> QED BY <2>1, <2>2
<1>11. /\ Path = {it} \cup Up[n] /\ n \in Up[n] /\ it \notin Up[n]
       /\ Path' = IF s # Nil THEN {s} \cup Up[n] ELSE Up[n]
  <2>1. Path = {it} \cup Up[n] /\ n \in Up[n]
    BY <1>0, <1>1, <1>3, <1>4, Shape, Zenon DEF Path
  <2>2. s # Nil => Up[s] = {s} \cup Up[n]
    <3>1. s # Nil => s \in before.nodes
      BY <1>0, <1>5 DEF NodesInv
    <3> QED BY <1>0, <1>3, <1>5, <3>1, Shape, Zenon
  <2>3. Path' = Up[IF s # Nil THEN s ELSE n]
    BY <1>7, <1>9 DEF Path
  <2> QED BY <1>4, <1>5, <2>1, <2>2, <2>3
<1>12. Up[n] \subseteq Todo \ {it}
  BY <1>0, <1>1, <1>11 DEF PruneInv, IterInv
<1>13. NodesInv'
  <2>1. \A x \in slab : \/ parent'[x] = before.parent[x]
                        \/ ~uncles /\ before.parent[x] = n /\ parent'[x] = Nil
    BY <1>0, <1>1, <1>2, <1>3, <1>4 DEF NodesInv, LinkTypes
  <2> QED BY <1>0, <1>1, <1>3, <1>7, <1>9, <2>1, Zenon DEF NodesInv
<1>14. IterInv'
  <2>1. CASE s = Nil
    BY <1>0, <1>3, <1>7, <1>10, <1>11, <1>12, <2>1, Zenon DEF IterInv, Todo
  <2>2. CASE s # Nil
    <3>1. s \in slab
      BY <1>5, <2>2
    <3>2. s \in Todo \ {it} \/ uncles
      <4>1. ~uncles => it \in Todo
        BY <1>1, <1>2, <1>3 DEF Todo
      <4> QED BY <1>0, <1>1, <1>6, <2>2, <4>1, Zenon DEF PruneInv, VisitInv
    <3> QED BY <1>0, <1>5, <1>7, <1>10, <1>11, <1>12, <2>2, <3>1, <3>2, Zenon DEF IterInv
  <2> QED BY <2>1, <2>2
<1>15. BelowInv' /\ TopInv' /\ MarksInv' /\ AboveInv'
  <2>1. BelowInv' /\ TopInv'
    <3>1. BelowInv'
      BY <1>0, <1>1, <1>7, <1>9 DEF PruneInv, BelowInv
    <3>2. Top' = Top
      BY <1>0, <1>1, <1>7, Zenon DEF Top
    <3> QED BY <1>0, <1>1, <1>7, <1>9, <3>1, <3>2, Zenon DEF PruneInv, TopInv
  <2>2. MarksInv' /\ AboveInv'
    BY <1>0, <1>1, <1>7, <1>9, Zenon DEF PruneInv, MarksInv, AboveInv
  <2> QED BY <2>1, <2>2
<1>16. VisitInv'
  <2>0. \A y \in Todo : y \in Blocks /\ y # Nil
    BY <1>3 DEF Todo
  <2>1. \A x \in Todo : before.parent[x] \notin Below
    BY <1>0, TodoNotBelow
  <2>2. \A x \in Todo : nextSibling[x] # it
    BY <1>0, <1>1, NobodyBefore
  <2>3. \A x \in Todo \ {it} : x \notin Path' => x \notin Path /\ (s # Nil => x # s)
    BY <1>11
  <2>4. ASSUME NEW x \in Todo \ {it}, x \notin Path'
        PROVE  IF previousSibling[x] = Nil
               THEN before.parent[x] # Nil /\ before.parent[x] \in Todo' \cap Fresh'
               ELSE /\ previousSibling[x] \in Todo'
                    /\ before.parent[previousSibling[x]] = before.parent[x]
                    /\ nextSibling[previousSibling[x]] = x
    <3>1. x \in Todo /\ x \notin Path /\ (s # Nil => x # s)
      BY <2>3, <2>4
    <3>2. CASE previousSibling[x] = Nil
      <4>1. before.parent[x] # Nil /\ before.parent[x] \in Todo /\ before.parent[x] \in Fresh
        BY <1>0, <3>1, <3>2, Zenon DEF PruneInv, VisitInv
      <4>2. before.parent[x] # it /\ before.parent[x] \notin Below
        BY <1>4, <2>1, <3>1
      <4>3. before.parent[x] \notin Path
        BY <1>1, <4>1, <4>2 DEF Fresh
      <4>4. before.parent[x] \notin Path' /\ before.parent[x] \in Blocks
        BY <1>5, <1>11, <2>0, <4>1, <4>2, <4>3, Zenon
      <4> QED BY <1>10, <3>2, <4>1, <4>2, <4>4, Zenon DEF Fresh
    <3>3. CASE previousSibling[x] # Nil
      <4>1. /\ previousSibling[x] \in Todo
            /\ before.parent[previousSibling[x]] = before.parent[x]
            /\ nextSibling[previousSibling[x]] = x
        BY <1>0, <3>1, <3>3, Zenon DEF PruneInv, VisitInv
      <4>2. previousSibling[x] # it
        BY <1>1, <2>0, <3>1, <4>1
      <4> QED BY <1>10, <3>3, <4>1, <4>2, Zenon
    <3> QED BY <3>2, <3>3, Zenon
  <2>5. ASSUME NEW x \in Todo \ {it}, firstChild[x] # Nil, x \in Fresh', before.parent[x] # n
        PROVE  /\ firstChild[x] \in slab
               /\ firstChild[x] \in Todo' \/ (uncles /\ x = n)
               /\ before.parent[firstChild[x]] = x
               /\ previousSibling[firstChild[x]] = Nil
    <3>1. x \notin Path' \/ (x = pruner'.iter /\ ~pruner'.traversingUp)
      BY <2>5 DEF Fresh
    <3>2. x \notin Path'
      BY <1>5, <1>7, <2>5, <3>1
    <3>3. x \notin Path /\ x # n
      BY <1>11, <2>3, <3>2
    <3>4. x \in Fresh
      BY <2>0, <3>3 DEF Fresh
    <3>5. /\ firstChild[x] \in slab
          /\ firstChild[x] \in Todo \/ (uncles /\ x = n)
          /\ before.parent[firstChild[x]] = x
          /\ previousSibling[firstChild[x]] = Nil
      BY <1>0, <1>1, <2>5, <3>4, Zenon DEF PruneInv, VisitInv
    <3>6. firstChild[x] # it
      BY <1>4, <3>3, <3>5, Zenon
    <3> QED BY <1>10, <3>5, <3>6, Zenon
  <2>6. ASSUME NEW x \in Todo \ {it}
        PROVE  /\ previousSibling[x] = Nil /\ before.parent[x] # Nil => firstChild[before.parent[x]] = x
               /\ nextSibling[x] # Nil =>
                    /\ nextSibling[x] \in Todo' /\ before.parent[nextSibling[x]] = before.parent[x]
                    /\ previousSibling[nextSibling[x]] = x
    BY <1>0, <1>10, <2>2, Zenon DEF PruneInv, VisitInv
  <2> QED BY <1>0, <1>7, <1>10, <2>4, <2>5, <2>6, Zenon DEF VisitInv
<1>17. LinkTypes' /\ ForestInv'
  <2>1. parent' \in [Blocks -> Blocks \cup {Nil}] /\ \A b \in Blocks \ slab : parent'[b] = Nil
    BY <1>0, <1>2, <1>3 DEF LinkTypes
  <2> QED BY <1>0, <2>1, Zenon DEF LinkTypes, ForestInv
<1> QED BY <1>0, <1>8, <1>13, <1>14, <1>15, <1>16, <1>17 DEF TreeInv, PruneInv

(* What the two steps that leave the node it for its sibling or its parent p *)
(* have in common.                                                           *)
Left(it, n, p) ==
    /\ it \in Todo /\ it \in slab /\ it \notin Below /\ parent[it] = p /\ p # n
    /\ p \notin Below /\ p # it
    /\ pruner.traversingUp \/ firstChild[it] = Nil
    /\ slab' \subseteq slab /\ slab \ {it} \subseteq slab'
    /\ IF it \in slab'
       THEN /\ pruner.unclesOnly /\ it \in Up[n]
            /\ parent'[it] = p /\ firstChild'[it] = firstChild[it]
            /\ previousSibling[it] # Nil /\ p # Nil => firstChild'[p] = it
       ELSE it \notin Kept /\ parent'[it] = Nil
    /\ firstRoot' = firstRoot /\ ~isPruneTargetAncestor'[it]
    /\ nextSibling'[it] = Nil /\ previousSibling'[it] = Nil
    /\ \A x \in Blocks \ {it} :
         /\ parent'[x] = parent[x] /\ nextSibling'[x] = nextSibling[x]
         /\ previousSibling'[x] = previousSibling[x]
         /\ isPruneTargetAncestor'[x] = isPruneTargetAncestor[x]
         /\ firstChild'[x] # firstChild[x] => x = p /\ firstChild'[x] = it /\ it \in slab'
    /\ pruner' = Moved(it)
    /\ LinkTypes'

(* Both of these steps are so. *)
LEMMA LeaveFrame ==
    ASSUME LinkTypes, ForestInv, PruneInv, KeepTargetAncestor \/ RemoveNode,
           NEW it, it = pruner.iter, NEW n, n = pruner.newFinal,
           NEW p, p = before.parent[it]
    PROVE  Left(it, n, p)
<1>1. parent[it] # n /\ (pruner.traversingUp \/ firstChild[it] = Nil) /\ pruner' = Moved(it)
  BY Zenon DEF KeepTargetAncestor, RemoveNode, LeaveNode
<1>2. /\ it \in Todo /\ it \in slab /\ it \notin Below /\ parent[it] = p /\ p # n
      /\ TargetFacts /\ it \in before.nodes /\ it \in Blocks /\ NodesInv
      /\ slab \subseteq Blocks /\ n \in Blocks
  BY <1>1, AtIter, TargetShape, Zenon DEF PruneInv, NodesInv, LinkTypes, ForestInv
<1>3. p \notin Below /\ p # it
  <2>1. p \notin Below
    BY <1>2 DEF TargetFacts
  <2>2. p # it
    BY <1>2, Shape, Zenon
  <2> QED BY <2>1, <2>2
<1>4. CASE KeepTargetAncestor
  <2>1. /\ pruner.unclesOnly /\ isPruneTargetAncestor[it]
        /\ isPruneTargetAncestor' = [isPruneTargetAncestor EXCEPT ![it] = FALSE]
        /\ nextSibling' = [nextSibling EXCEPT ![it] = Nil]
        /\ previousSibling' = [previousSibling EXCEPT ![it] = Nil]
        /\ firstChild' = PromotedToFirstChild(it)
        /\ slab' = slab /\ parent' = parent /\ firstRoot' = firstRoot
    BY <1>4, Zenon DEF KeepTargetAncestor
  <2>2. it \in Up[n]
    BY <1>2, <2>1, Zenon DEF PruneInv, MarksInv
  <2>3. p # Nil => p \in Blocks
    BY <1>2 DEF LinkTypes
  <2>4. /\ firstChild' \in [Blocks -> Blocks \cup {Nil}]
        /\ previousSibling[it] # Nil /\ p # Nil => firstChild'[p] = it
        /\ \A x \in Blocks : firstChild'[x] # firstChild[x] => x = p /\ firstChild'[x] = it
    BY <1>2, <2>1, <2>3, Zenon DEF PromotedToFirstChild, LinkTypes
  <2>5. Acyclic(slab', previousSibling')
    <3>1. \A x \in slab' : previousSibling'[x] \in {previousSibling[x], Nil}
      BY <1>2, <2>1, Zenon DEF LinkTypes
    <3>2. slab' \in SUBSET slab
      BY <2>1
    <3> QED BY <3>1, <3>2, AcyclicUnlink
  <2>6. LinkTypes'
    BY <1>2, <2>1, <2>4, <2>5, Zenon DEF LinkTypes
  <2>7. \A x \in Blocks \ {it} :
                /\ parent'[x] = parent[x] /\ nextSibling'[x] = nextSibling[x]
                /\ previousSibling'[x] = previousSibling[x]
    BY <2>1, Zenon DEF LinkTypes
  <2>9. \A x \in Blocks \ {it} : isPruneTargetAncestor'[x] = isPruneTargetAncestor[x]
    BY <2>1, Zenon DEF LinkTypes
  <2>8. ~isPruneTargetAncestor'[it] /\ nextSibling'[it] = Nil /\ previousSibling'[it] = Nil
    BY <1>2, <2>1, Zenon DEF LinkTypes
  <2> QED BY <1>1, <1>2, <1>3, <2>1, <2>2, <2>4, <2>6, <2>7, <2>8, <2>9, Zenon DEF Left
<1>5. CASE RemoveNode
  <2>1. /\ ~(pruner.unclesOnly /\ isPruneTargetAncestor[it])
        /\ slab' = slab \ {it}
        /\ isPruneTargetAncestor' = [isPruneTargetAncestor EXCEPT ![it] = FALSE]
        /\ parent' = [parent EXCEPT ![it] = Nil]
        /\ firstChild' = [firstChild EXCEPT ![it] = Nil]
        /\ nextSibling' = [nextSibling EXCEPT ![it] = Nil]
        /\ previousSibling' = [previousSibling EXCEPT ![it] = Nil]
        /\ firstRoot' = firstRoot
    BY <1>5, Zenon DEF RemoveNode
  <2>2. it \notin Kept
    BY <1>1, <1>2, <2>1, Zenon DEF Todo
  <2>3. Acyclic(slab', previousSibling')
    <3>1. \A x \in slab' : previousSibling'[x] \in {previousSibling[x], Nil}
      BY <1>2, <2>1, Zenon DEF LinkTypes
    <3>2. slab' \in SUBSET slab
      BY <2>1
    <3> QED BY <3>1, <3>2, AcyclicUnlink
  <2>4. LinkTypes'
    BY <1>2, <2>1, <2>3, Zenon DEF LinkTypes
  <2>5. /\ ~isPruneTargetAncestor'[it] /\ nextSibling'[it] = Nil /\ previousSibling'[it] = Nil
        /\ parent'[it] = Nil
        /\ \A x \in Blocks \ {it} :
                /\ parent'[x] = parent[x] /\ nextSibling'[x] = nextSibling[x]
                /\ previousSibling'[x] = previousSibling[x]
                /\ firstChild'[x] = firstChild[x]
    BY <1>2, <2>1, Zenon DEF LinkTypes
  <2>6. \A x \in Blocks \ {it} : isPruneTargetAncestor'[x] = isPruneTargetAncestor[x]
    BY <2>1, Zenon DEF LinkTypes
  <2>7. slab' \subseteq slab /\ slab \ {it} \subseteq slab' /\ it \notin slab'
    BY <2>1
  <2> QED BY <1>1, <1>2, <1>3, <2>1, <2>2, <2>4, <2>5, <2>6, <2>7, Zenon DEF Left
<1> QED BY <1>4, <1>5, Zenon

(* Leaving a node does not disturb what is below the target, and an ancestor *)
(* of the target that has been left is an only child.                        *)
LEMMA LeaveKept ==
    ASSUME LinkTypes, ForestInv, PruneInv, KeepTargetAncestor \/ RemoveNode,
           NEW n, n = pruner.newFinal
    PROVE  /\ \A x \in Below : /\ nextSibling'[x] = nextSibling[x]
                               /\ previousSibling'[x] = previousSibling[x]
                               /\ firstChild'[x] = firstChild[x] /\ parent'[x] = parent[x]
           /\ firstRoot' = firstRoot
           /\ \A x \in Blocks : isPruneTargetAncestor'[x] => x \in slab' /\ x \in Up[n]
           /\ pruner.unclesOnly =>
                /\ firstChild'[n] = firstChild[n]
                /\ \A x \in Up[n] : ~isPruneTargetAncestor'[x] =>
                        /\ nextSibling'[x] = Nil /\ previousSibling'[x] = Nil
                        /\ before.parent[x] # Nil => firstChild'[before.parent[x]] = x
<1>1. PICK it, p : it = pruner.iter /\ p = before.parent[it]
  OBVIOUS
<1>l. Left(it, n, p)
  BY <1>1, LeaveFrame
<1>2. /\ it \in Todo /\ it \in slab /\ it \notin Below /\ parent[it] = p /\ p # n
      /\ p \notin Below /\ p # it /\ slab \ {it} \subseteq slab'
      /\ IF it \in slab'
         THEN /\ pruner.unclesOnly /\ it \in Up[n] /\ firstChild'[it] = firstChild[it]
              /\ previousSibling[it] # Nil /\ p # Nil => firstChild'[p] = it
         ELSE it \notin Kept
      /\ firstRoot' = firstRoot /\ ~isPruneTargetAncestor'[it]
      /\ nextSibling'[it] = Nil /\ previousSibling'[it] = Nil
      /\ \A x \in Blocks \ {it} :
                /\ parent'[x] = parent[x] /\ nextSibling'[x] = nextSibling[x]
                /\ previousSibling'[x] = previousSibling[x]
                /\ isPruneTargetAncestor'[x] = isPruneTargetAncestor[x]
                /\ firstChild'[x] # firstChild[x] => x = p /\ firstChild'[x] = it /\ it \in slab'
  BY <1>l, Zenon DEF Left
<1>3. /\ TargetFacts /\ NodesInv /\ n \in before.nodes /\ before.nodes \subseteq Blocks
      /\ Nil \notin Blocks /\ n \in Blocks
  BY TargetShape, NilAssumption DEF PruneInv, NodesInv, ForestInv
<1>4. \A x \in Below : /\ nextSibling'[x] = nextSibling[x]
                       /\ previousSibling'[x] = previousSibling[x]
                       /\ firstChild'[x] = firstChild[x] /\ parent'[x] = parent[x]
  <2> TAKE x \in Below
  <2>1. x \in Blocks \ {it} /\ x # p
    BY <1>2, <1>3, Zenon DEF TargetFacts
  <2> QED BY <1>2, <2>1
<1>5. ASSUME pruner.unclesOnly
      PROVE  /\ firstChild'[n] = firstChild[n]
             /\ \A x \in Up[n] : ~isPruneTargetAncestor'[x] =>
                        /\ nextSibling'[x] = Nil /\ previousSibling'[x] = Nil
                        /\ before.parent[x] # Nil => firstChild'[before.parent[x]] = x
  <2>1. Up[n] \subseteq Kept /\ Up[n] \subseteq Blocks /\ n \in Up[n]
    <3>1. n \in Up[n] /\ Up[n] \subseteq before.nodes
      BY <1>3, Shape, Zenon
    <3> QED BY <1>3, <1>5, <3>1 DEF Kept
  <2>2. it \in Up[n] => it \in slab'
    BY <1>2, <2>1, Zenon
  <2>3. firstChild'[n] = firstChild[n]
    BY <1>2, <1>3, <2>1, <2>2, Zenon
  <2>5. ASSUME NEW x \in Up[n], ~isPruneTargetAncestor'[x]
        PROVE  /\ nextSibling'[x] = Nil /\ previousSibling'[x] = Nil
               /\ before.parent[x] # Nil => firstChild'[before.parent[x]] = x
    <3>1. CASE x = it
      <4>1. ASSUME p # Nil PROVE firstChild'[p] = it
        <5>1. CASE previousSibling[it] # Nil
          BY <1>2, <2>2, <2>5, <3>1, <4>1, <5>1, Zenon
        <5>2. CASE previousSibling[it] = Nil
          <6>1. firstChild[p] = it
            <7>1. VisitInv
              BY DEF PruneInv
            <7>2. it \in Todo /\ before.parent[it] = p
              BY <1>1, <1>2, Zenon
            <7> QED BY <4>1, <5>2, <7>1, <7>2, Zenon DEF VisitInv
          <6>2. p \in Blocks
            <7>1. parent \in [Blocks -> Blocks \cup {Nil}] /\ slab \subseteq Blocks
              BY DEF LinkTypes
            <7>2. parent[it] = p /\ it \in slab
              BY <1>2, Zenon
            <7> QED BY <4>1, <7>1, <7>2
          <6> QED BY <1>2, <6>1, <6>2, Zenon
        <5> QED BY <5>1, <5>2
      <4> QED BY <1>1, <1>2, <3>1, <4>1, Zenon
    <3>2. CASE x # it
      <4>1. x \in Blocks \ {it} /\ ~isPruneTargetAncestor[x]
        BY <1>2, <2>1, <2>5, <3>2, Zenon
      <4>2. /\ nextSibling[x] = Nil /\ previousSibling[x] = Nil
            /\ before.parent[x] # Nil => firstChild[before.parent[x]] = x
        BY <1>5, <2>5, <4>1, Zenon DEF PruneInv, AboveInv
      <4>3. ASSUME before.parent[x] # Nil PROVE firstChild'[before.parent[x]] = x
        <5>1. before.parent[x] \in Up[n] /\ before.parent[x] \in Blocks
          BY <1>3, <2>1, <2>5, <4>3, Zenon DEF TargetFacts
        <5>2. CASE before.parent[x] = it
          BY <1>2, <2>2, <4>2, <4>3, <5>1, <5>2, Zenon
        <5>3. CASE before.parent[x] # it
          <6>1. it \in slab' => before.parent[x] # before.parent[it]
            <7>1. it \in slab' => it \in Up[n]
              BY <1>2, Zenon
            <7>2. \A a, b \in Up[n] : before.parent[a] = before.parent[b] => a = b
              BY <1>3, Shape, Zenon
            <7> QED BY <2>5, <3>2, <7>1, <7>2, Zenon
          <6> QED BY <1>1, <1>2, <4>2, <4>3, <5>1, <5>3, <6>1, Zenon
        <5> QED BY <5>2, <5>3
      <4> QED BY <1>2, <4>1, <4>2, <4>3, Zenon
    <3> QED BY <3>1, <3>2
  <2> QED BY <2>3, <2>5
<1>6. ASSUME NEW x \in Blocks, isPruneTargetAncestor'[x] PROVE x \in slab' /\ x \in Up[n]
  <2>1. x # it /\ isPruneTargetAncestor[x]
    BY <1>2, <1>6, Zenon
  <2>2. x \in slab /\ x \in Up[n]
    BY <2>1 DEF PruneInv, MarksInv
  <2> QED BY <1>2, <2>1, <2>2, Zenon
<1> QED BY <1>2, <1>4, <1>5, <1>6, Zenon

(* When a node is left, nothing below it remains to be visited. *)
LEMMA NoChildLeft ==
    ASSUME LinkTypes, ForestInv, PruneInv, NEW it, it = pruner.iter,
           pruner.traversingUp \/ firstChild[it] = Nil,
           NEW x \in Todo, previousSibling[x] = Nil
    PROVE  before.parent[x] # it
<1>1. SUFFICES ASSUME before.parent[x] = it PROVE FALSE
  OBVIOUS
<1>2. /\ it \in before.nodes /\ x \in before.nodes /\ Path = Up[it] /\ it # Nil /\ x # Nil
      /\ VisitInv
  BY NilAssumption, Zenon DEF PruneInv, IterInv, NodesInv, Todo, Path, ForestInv
<1>3. it \in Path /\ x \notin Path
  BY <1>1, <1>2, Shape, Zenon
<1>4. firstChild[it] = x /\ it \in Fresh
  <2>1. firstChild[before.parent[x]] = x
    BY <1>1, <1>2, Zenon DEF VisitInv
  <2>2. before.parent[x] \in Fresh
    BY <1>2, <1>3, Zenon DEF VisitInv
  <2> QED BY <1>1, <2>1, <2>2, Zenon
<1>5. ~pruner.traversingUp
  BY <1>3, <1>4 DEF Fresh
<1> QED BY <1>2, <1>4, <1>5

(* Where the iterator goes when it leaves a node. *)
LEMMA LeaveMoves ==
    ASSUME LinkTypes, ForestInv, PruneInv, KeepTargetAncestor \/ RemoveNode,
           NEW it, it = pruner.iter, NEW p, p = before.parent[it],
           NEW s, s = nextSibling[it], s # Nil \/ p # Nil
    PROVE  /\ pruner' \in Pruners /\ before' = before
           /\ pruner'.newFinal = pruner.newFinal /\ pruner'.unclesOnly = pruner.unclesOnly
           /\ pruner'.iter = (IF s # Nil THEN s ELSE p)
           /\ (pruner'.traversingUp <=> s = Nil)
<1>1. /\ it \in slab /\ parent[it] = p /\ pruner' = Moved(it) /\ pruner \in Pruners
      /\ p \in Blocks \cup {Nil} /\ s \in Blocks \cup {Nil}
  <2>1. it \in slab /\ parent[it] = p /\ pruner' = Moved(it)
    <3>1. Left(it, pruner.newFinal, p)
      BY LeaveFrame
    <3> QED BY <3>1, Zenon DEF Left
  <2> QED BY <2>1, Zenon DEF LinkTypes, PruneInv, NodesInv
<1>2. /\ pruner' \in Pruners
      /\ pruner'.newFinal = pruner.newFinal /\ pruner'.unclesOnly = pruner.unclesOnly
      /\ pruner'.iter = (IF s # Nil THEN s ELSE p)
      /\ (pruner'.traversingUp <=> s = Nil)
  <2>1. CASE s # Nil
    <3>1. pruner' = [pruner EXCEPT !.iter = s, !.traversingUp = FALSE] /\ s \in Blocks
      BY <1>1, <2>1 DEF Moved, MovedToSibling
    <3>2. pruner' \in Pruners
      BY <1>1, <3>1, Zenon DEF Pruners
    <3>3. pruner'.traversingUp = FALSE /\ pruner'.iter = s
      BY <1>1, <3>1 DEF Pruners
    <3>4. pruner'.newFinal = pruner.newFinal /\ pruner'.unclesOnly = pruner.unclesOnly
      BY <1>1, <3>1 DEF Pruners
    <3> QED BY <2>1, <3>2, <3>3, <3>4, Zenon
  <2>2. CASE s = Nil
    <3>1. pruner' = [pruner EXCEPT !.iter = p, !.traversingUp = TRUE] /\ p \in Blocks
      BY <1>1, <2>2 DEF Moved, MovedToSibling
    <3>2. pruner' \in Pruners
      BY <1>1, <3>1, Zenon DEF Pruners
    <3>3. pruner'.traversingUp = TRUE /\ pruner'.iter = p
      BY <1>1, <3>1 DEF Pruners
    <3>4. pruner'.newFinal = pruner.newFinal /\ pruner'.unclesOnly = pruner.unclesOnly
      BY <1>1, <3>1 DEF Pruners
    <3> QED BY <2>2, <3>2, <3>3, <3>4
  <2> QED BY <2>1, <2>2, Zenon
<1>3. pruner' # NotPruning
  BY <1>2, ForkTreeAssumption
<1>4. before' = before
  BY <1>3, Zenon DEF KeepTargetAncestor, RemoveNode, FinishedWith
<1> QED BY <1>2, <1>4

(* Leaving a node that is not the last one. *)
LEMMA LeaveKeeps ==
    ASSUME TreeInv, ~Idle, KeepTargetAncestor \/ RemoveNode,
           NEW it, it = pruner.iter, NEW p, p = before.parent[it],
           NEW s, s = nextSibling[it], s # Nil \/ p # Nil
    PROVE  TreeInv' /\ ~Idle' /\ before' = before
<1>0. LinkTypes /\ ForestInv /\ PruneInv /\ VisitInv /\ NodesInv
  BY DEF TreeInv, PruneInv
<1>1. PICK n, uncles : n = pruner.newFinal /\ uncles = pruner.unclesOnly
  OBVIOUS
<1>l. Left(it, n, p)
  BY <1>0, <1>1, LeaveFrame
<1>2. /\ it \in Todo /\ it \in slab /\ it \notin Below /\ parent[it] = p /\ p # n
      /\ p \notin Below /\ p # it
      /\ pruner.traversingUp \/ firstChild[it] = Nil
      /\ slab' \subseteq slab /\ slab \ {it} \subseteq slab'
      /\ IF it \in slab' THEN uncles /\ it \in Up[n] /\ parent'[it] = p ELSE it \notin Kept
      /\ ~isPruneTargetAncestor'[it]
      /\ \A x \in Blocks \ {it} :
                /\ parent'[x] = parent[x] /\ nextSibling'[x] = nextSibling[x]
                /\ previousSibling'[x] = previousSibling[x]
                /\ isPruneTargetAncestor'[x] = isPruneTargetAncestor[x]
                /\ firstChild'[x] # firstChild[x] => x = p
      /\ LinkTypes'
  BY <1>1, <1>l, Zenon DEF Left
<1>3. /\ pruner' \in Pruners /\ before' = before
      /\ pruner'.newFinal = n /\ pruner'.unclesOnly = uncles
      /\ pruner'.iter = (IF s # Nil THEN s ELSE p)
      /\ (pruner'.traversingUp <=> s = Nil)
  BY <1>0, <1>1, LeaveMoves
<1>4. ~Idle'
  BY <1>3, ForkTreeAssumption DEF Idle
<1>5. Up' = Up /\ Below' = Below /\ Kept' = Kept
  BY <1>1, <1>3, Frame
<1>6. Todo' = Todo \ {it} /\ slab \subseteq Blocks /\ Nil \notin Blocks
  <2>1. slab \subseteq Blocks /\ Nil \notin Blocks
    BY <1>0, NilAssumption DEF LinkTypes
  <2>2. CASE uncles
    <3>1. Todo = {b \in slab : b \notin Kept \/ isPruneTargetAncestor[b]}
      BY <1>1, <2>2, Zenon DEF Todo
    <3>2. Todo' = {b \in slab' : b \notin Kept' \/ isPruneTargetAncestor'[b]}
      BY <1>3, <2>2, Zenon DEF Todo
    <3>3. it \in slab' => it \in Kept
      BY <1>1, <1>2, <2>2, Zenon DEF Kept
    <3>4. \A b : b \in Todo' <=> b \in Todo \ {it}
      BY <1>2, <1>5, <2>1, <3>1, <3>2, <3>3, Zenon
    <3> QED BY <2>1, <3>4, Zenon
  <2>3. CASE ~uncles
    <3>1. Todo = {b \in slab : b \notin Kept \/ parent[b] = n}
      BY <1>1, <2>3, Zenon DEF Todo
    <3>2. Todo' = {b \in slab' : b \notin Kept' \/ parent'[b] = n}
      BY <1>3, <2>3, Zenon DEF Todo
    <3>3. it \in slab' => FALSE
      BY <1>2, <2>3, Zenon
    <3>4. \A b : b \in Todo' <=> b \in Todo \ {it}
      BY <1>2, <1>5, <2>1, <3>1, <3>2, <3>3, Zenon
    <3> QED BY <2>1, <3>4, Zenon
  <2> QED BY <2>1, <2>2, <2>3
<1>7. /\ s # Nil => s \in Todo /\ s # it /\ before.parent[s] = p /\ previousSibling[s] = it
      /\ s # Nil => s \notin Path
  <2>1. s # Nil => s \in Todo /\ before.parent[s] = p /\ previousSibling[s] = it
    BY <1>0, <1>2, Zenon DEF VisitInv
  <2>2. s # it
    BY <1>0, <1>2, NobodyBefore, Zenon
  <2> QED BY <1>0, <2>1, <2>2, SiblingsAfter, Zenon
<1>8. /\ it \in Path /\ (p # Nil => p \in Path)
      /\ Path' = IF s # Nil THEN {s} \cup (Path \ {it}) ELSE Path \ {it}
      /\ Path \ {it} \subseteq Todo
  <2>1. Path = Up[it] /\ it \in before.nodes /\ (s # Nil => s \in before.nodes)
    BY <1>0, <1>2, <1>7, Zenon DEF Path, NodesInv, Todo
  <2>2. it \in Up[it] /\ (p # Nil => it \notin Up[p] /\ p \in Up[p])
    BY <1>0, <2>1, Shape, Zenon
  <2>3. Up[it] = IF p = Nil THEN {it} ELSE {it} \cup Up[p]
    BY <1>0, <2>1, Shape, Zenon
  <2>4. s # Nil => Up[s] = IF p = Nil THEN {s} ELSE {s} \cup Up[p]
    <3>1. SUFFICES ASSUME s # Nil PROVE Up[s] = IF p = Nil THEN {s} ELSE {s} \cup Up[p]
      OBVIOUS
    <3>2. s \in before.nodes /\ before.parent[s] = p
      BY <1>7, <2>1, <3>1
    <3> QED BY <1>0, <3>2, Shape, Zenon
  <2>5. Path' = Up[IF s # Nil THEN s ELSE p]
    BY <1>3, <1>5 DEF Path
  <2>6. Path \ {it} \subseteq Todo
    BY <1>0 DEF PruneInv, IterInv
  <2>7. Path \ {it} = IF p = Nil THEN {} ELSE Up[p]
    <3>1. CASE p = Nil
      BY <2>1, <2>3, <3>1
    <3>2. CASE p # Nil
      BY <2>1, <2>2, <2>3, <3>2
    <3> QED BY <3>1, <3>2, Zenon
  <2>8. Path' = IF s # Nil THEN {s} \cup (Path \ {it}) ELSE Path \ {it}
    <3>1. CASE s # Nil
      BY <2>4, <2>5, <2>7, <3>1
    <3>2. CASE s = Nil
      BY <1>1, <2>5, <2>7, <3>2
    <3> QED BY <3>1, <3>2, Zenon
  <2>9. it \in Path /\ (p # Nil => p \in Path)
    BY <2>1, <2>2, <2>3
  <2> QED BY <2>6, <2>8, <2>9, Zenon
<1>9. NodesInv'
  <2>1. \A x \in slab' : parent'[x] = parent[x]
    BY <1>2, <1>6, Zenon
  <2>2. Kept \subseteq slab'
    <3>1. Kept \subseteq slab
      BY <1>0 DEF NodesInv
    <3>2. it \in Kept => it \in slab'
      BY <1>2
    <3> QED BY <1>2, <3>1, <3>2, Zenon
  <2>3. \A x \in slab' :
            (parent'[x] = before.parent[x]) \/ (~uncles /\ before.parent[x] = n /\ parent'[x] = Nil)
    <3>1. \A x \in slab :
              (parent[x] = before.parent[x]) \/ (~uncles /\ before.parent[x] = n /\ parent[x] = Nil)
      BY <1>0, <1>1, Zenon DEF NodesInv
    <3>2. slab' \subseteq slab
      BY <1>2, Zenon
    <3> QED BY <2>1, <3>1, <3>2, Zenon
  <2>4. n \in before.nodes /\ slab' \subseteq before.nodes
    BY <1>0, <1>1, <1>2, Zenon DEF NodesInv
  <2> QED BY <1>3, <1>5, <2>2, <2>3, <2>4, Zenon DEF NodesInv
<1>10. IterInv'
  <2>1. pruner'.iter \in Todo'
    BY <1>2, <1>3, <1>6, <1>7, <1>8, Zenon
  <2>2. pruner'.iter \in slab'
    BY <2>1 DEF Todo
  <2>3. Path' \ {pruner'.iter} \subseteq Todo'
    BY <1>3, <1>6, <1>8, Zenon
  <2> QED BY <2>1, <2>2, <2>3 DEF IterInv
<1>11. BelowInv' /\ TopInv' /\ MarksInv' /\ AboveInv'
  <2>1. /\ \A x \in Below : /\ nextSibling'[x] = nextSibling[x]
                            /\ previousSibling'[x] = previousSibling[x]
                            /\ firstChild'[x] = firstChild[x] /\ parent'[x] = parent[x]
        /\ firstRoot' = firstRoot
        /\ \A x \in Blocks : isPruneTargetAncestor'[x] => x \in slab' /\ x \in Up[n]
        /\ uncles =>
                /\ firstChild'[n] = firstChild[n]
                /\ \A x \in Up[n] : ~isPruneTargetAncestor'[x] =>
                        /\ nextSibling'[x] = Nil /\ previousSibling'[x] = Nil
                        /\ before.parent[x] # Nil => firstChild'[before.parent[x]] = x
    BY <1>0, <1>1, LeaveKept, Zenon
  <2>2. BelowInv'
    <3>1. \A x \in Below : before.parent[x] = n \/ before.parent[x] \in Below
      BY <1>0, <1>1, TargetShape, Zenon DEF NodesInv, TargetFacts
    <3>2. LinksBelow(Below, before.parent, n, uncles, firstRoot,
                     firstChild, nextSibling, previousSibling)
      BY <1>0, <1>1 DEF PruneInv, BelowInv
    <3>3. LinksBelow(Below, before.parent, n, uncles, firstRoot,
                     firstChild', nextSibling', previousSibling')
      <4>1. \A x \in Below : /\ nextSibling'[x] = nextSibling[x]
                              /\ previousSibling'[x] = previousSibling[x]
                              /\ firstChild'[x] = firstChild[x]
        BY <2>1, Zenon
      <4>2. uncles => firstChild'[n] = firstChild[n]
        BY <2>1, Zenon
      <4> QED BY <3>1, <3>2, <4>1, <4>2, SameLinksBelow
    <3> QED BY <1>3, <1>5, <2>1, <3>3 DEF BelowInv
  <2>3. TopInv'
    <3>1. Top' = Top
      BY <1>1, <1>3, <2>1, Zenon DEF Top
    <3> QED BY <1>0, <1>1, <1>3, <1>5, <2>1, <3>1, Zenon DEF PruneInv, TopInv
  <2>4. AboveInv'
    <3>1. uncles => firstRoot \in Up[n] /\ before.parent[firstRoot] = Nil
      BY <1>0, <1>1, Zenon DEF PruneInv, AboveInv
    <3> QED BY <1>3, <1>5, <2>1, <3>1, Zenon DEF AboveInv
  <2>5. MarksInv'
    BY <1>3, <1>5, <2>1, Zenon DEF MarksInv
  <2> QED BY <2>2, <2>3, <2>4, <2>5
<1>12. VisitInv'
  <2> DEFINE T == Todo \ {it}
  <2>1. \A x \in T : x \in Blocks \ {it} /\ x \in Todo /\ x # Nil
    BY <1>6, Zenon DEF Todo
  <2>2. \A x \in T : /\ previousSibling'[x] = previousSibling[x]
                     /\ nextSibling'[x] = nextSibling[x] /\ nextSibling[x] # it
    BY <1>0, <1>2, <2>1, NobodyBefore, Zenon
  <2>3. \A x \in T : previousSibling[x] = Nil => before.parent[x] # it /\ before.parent[x] # p
    <3> TAKE x \in T
    <3>1. previousSibling[x] = Nil => before.parent[x] # it
      BY <1>0, <1>2, <2>1, NoChildLeft, Zenon
    <3>2. previousSibling[x] = Nil => before.parent[x] # p
      BY <1>0, <2>1, SiblingsAfter, Zenon
    <3> QED BY <3>1, <3>2, Zenon
  <2>4. ASSUME NEW x \in T, previousSibling'[x] = Nil, before.parent[x] # Nil
        PROVE  firstChild'[before.parent[x]] = x
    <3>1. firstChild[before.parent[x]] = x
      BY <1>0, <2>1, <2>2, <2>4, Zenon DEF VisitInv
    <3>2. before.parent[x] \in Blocks
      BY <1>0, <2>1, <2>4 DEF ForestInv
    <3> QED BY <1>2, <2>2, <2>3, <2>4, <3>1, <3>2, Zenon
  <2>5. ASSUME NEW x \in T, x \notin Path'
        PROVE  IF previousSibling'[x] = Nil
               THEN before.parent[x] # Nil /\ before.parent[x] \in T \cap Fresh'
               ELSE /\ previousSibling'[x] \in T
                    /\ before.parent[previousSibling'[x]] = before.parent[x]
                    /\ nextSibling'[previousSibling'[x]] = x
    <3>1. x \notin Path /\ x # s
      BY <1>8, <2>1, <2>5
    <3>2. CASE previousSibling[x] = Nil
      <4>1. /\ before.parent[x] # Nil /\ before.parent[x] \in Todo /\ before.parent[x] \in Fresh
            /\ before.parent[x] # it
        BY <1>0, <2>1, <2>3, <3>1, <3>2, Zenon DEF VisitInv
      <4>2. before.parent[x] \notin Path
        BY <4>1, Zenon DEF Fresh
      <4>3. before.parent[x] \notin Path' \/ (before.parent[x] = s /\ s # Nil)
        BY <1>8, <4>2
      <4>4. before.parent[x] \in Fresh'
        BY <1>3, <1>6, <4>1, <4>3, Zenon DEF Fresh, Todo
      <4> QED BY <2>2, <3>2, <4>1, <4>4, Zenon
    <3>3. CASE previousSibling[x] # Nil
      <4>1. /\ previousSibling[x] \in Todo
            /\ before.parent[previousSibling[x]] = before.parent[x]
            /\ nextSibling[previousSibling[x]] = x
        BY <1>0, <2>1, <3>1, <3>3, Zenon DEF VisitInv
      <4>2. previousSibling[x] \in T
        BY <3>1, <4>1, Zenon
      <4> QED BY <2>2, <3>3, <4>1, <4>2, Zenon
    <3> QED BY <2>2, <3>2, <3>3, Zenon
  <2>6. ASSUME NEW x \in T, nextSibling'[x] # Nil
        PROVE  /\ nextSibling'[x] \in T /\ before.parent[nextSibling'[x]] = before.parent[x]
               /\ previousSibling'[nextSibling'[x]] = x
    <3>1. /\ nextSibling[x] \in Todo /\ before.parent[nextSibling[x]] = before.parent[x]
          /\ previousSibling[nextSibling[x]] = x
      BY <1>0, <2>1, <2>2, <2>6 DEF VisitInv
    <3> QED BY <2>2, <3>1, Zenon
  <2>7. ASSUME NEW x \in T, firstChild'[x] # Nil, x \in Fresh', before.parent[x] # n
        PROVE  /\ firstChild'[x] \in slab'
               /\ firstChild'[x] \in T \/ (uncles /\ x = n)
               /\ before.parent[firstChild'[x]] = x
               /\ previousSibling'[firstChild'[x]] = Nil
    <3>1. x \notin Path' \/ (x = s /\ s # Nil)
      BY <1>3, <2>7, Zenon DEF Fresh
    <3>2. x \notin Path
      BY <1>7, <1>8, <2>1, <3>1, Zenon
    <3>3. x \in Fresh /\ x # p
      BY <1>8, <2>1, <3>2, Zenon DEF Fresh
    <3>4. firstChild'[x] = firstChild[x]
      BY <1>2, <2>1, <3>3, Zenon
    <3>5. /\ firstChild[x] \in slab
          /\ firstChild[x] \in Todo \/ (uncles /\ x = n)
          /\ before.parent[firstChild[x]] = x
          /\ previousSibling[firstChild[x]] = Nil
      BY <1>0, <1>1, <2>1, <2>7, <3>3, <3>4, Zenon DEF VisitInv
    <3>6. firstChild[x] # it
      BY <3>3, <3>5
    <3>7. firstChild[x] \in slab'
      BY <1>2, <3>5, <3>6, Zenon
    <3>8. previousSibling'[firstChild[x]] = previousSibling[firstChild[x]]
      <4>1. firstChild[x] \in Blocks \ {it}
        BY <1>6, <3>5, <3>6, Zenon
      <4> QED BY <1>2, <4>1, Zenon
    <3> QED BY <3>4, <3>5, <3>6, <3>7, <3>8, Zenon
  <2>8. \A x \in T :
        /\ previousSibling'[x] = Nil /\ before.parent[x] # Nil => firstChild'[before.parent[x]] = x
        /\ x \notin Path' =>
            IF previousSibling'[x] = Nil
            THEN before.parent[x] # Nil /\ before.parent[x] \in T \cap Fresh'
            ELSE /\ previousSibling'[x] \in T
                 /\ before.parent[previousSibling'[x]] = before.parent[x]
                 /\ nextSibling'[previousSibling'[x]] = x
        /\ nextSibling'[x] # Nil =>
                /\ nextSibling'[x] \in T /\ before.parent[nextSibling'[x]] = before.parent[x]
                /\ previousSibling'[nextSibling'[x]] = x
        /\ firstChild'[x] # Nil /\ x \in Fresh' /\ before.parent[x] # n =>
                /\ firstChild'[x] \in slab'
                /\ firstChild'[x] \in T \/ (uncles /\ x = n)
                /\ before.parent[firstChild'[x]] = x
                /\ previousSibling'[firstChild'[x]] = Nil
    BY <2>4, <2>5, <2>6, <2>7, Zenon
  <2> HIDE DEF T
  <2>9. Todo' = T
    BY <1>6, Zenon DEF T
  <2>10. /\ before'.parent = before.parent /\ pruner'.newFinal = n
         /\ pruner'.unclesOnly = uncles
    BY <1>3, Zenon
  <2> QED BY <2>8, <2>9, <2>10 DEF VisitInv
<1>13. ForestInv'
  BY <1>0, <1>3, Zenon DEF ForestInv
<1> QED BY <1>2, <1>3, <1>4, <1>9, <1>10, <1>11, <1>12, <1>13, Zenon DEF TreeInv, PruneInv

(* The last node that the iterator leaves is the last one it had to visit. *)
LEMMA AllVisited ==
    ASSUME LinkTypes, ForestInv, PruneInv, NEW it, it = pruner.iter,
           pruner.traversingUp \/ firstChild[it] = Nil,
           nextSibling[it] = Nil, before.parent[it] = Nil
    PROVE  Todo \subseteq {it}
<1> DEFINE T == Todo \ {it}
<1>1. SUFFICES ASSUME T # {} PROVE FALSE
  OBVIOUS
<1>2. /\ T \in SUBSET before.nodes /\ T \in SUBSET slab /\ \A x \in T : x # Nil
      /\ VisitInv /\ it \in before.nodes /\ Path = Up[it]
  BY NilAssumption, Zenon DEF PruneInv, IterInv, NodesInv, Todo, Path, LinkTypes
<1>3. Path = {it}
  BY <1>2, Shape, Zenon
<1>4. PICK x0 \in T : before.parent[x0] \notin T
  <2> HIDE DEF T
  <2> QED BY <1>1, <1>2 DEF ForestInv, Acyclic
<1> DEFINE S == {y \in T : before.parent[y] = before.parent[x0]}
<1>5. PICK y \in S : previousSibling[y] \notin S
  <2>1. S \in SUBSET slab /\ S # {}
    BY <1>2, <1>4, Zenon
  <2> HIDE DEF S
  <2> QED BY <2>1, Zenon DEF LinkTypes, Acyclic
<1>6. y \in Todo /\ y \notin Path /\ y # Nil /\ before.parent[y] \notin T
  BY <1>2, <1>3, <1>4, <1>5, Zenon
<1>7. CASE previousSibling[y] = Nil
  <2>1. before.parent[y] \in Todo
    BY <1>2, <1>6, <1>7, Zenon DEF VisitInv
  <2>2. before.parent[y] # it
    BY <1>6, <1>7, NoChildLeft, Zenon
  <2> QED BY <1>6, <2>1, <2>2
<1>8. CASE previousSibling[y] # Nil
  <2>1. /\ previousSibling[y] \in Todo /\ nextSibling[previousSibling[y]] = y
        /\ before.parent[previousSibling[y]] = before.parent[y]
    BY <1>2, <1>6, <1>8, Zenon DEF VisitInv
  <2>2. previousSibling[y] # it
    BY <1>6, <2>1, Zenon
  <2> QED BY <1>5, <2>1, <2>2, Zenon
<1> QED BY <1>7, <1>8, Zenon

(* When the iterator is finished, the nodes that are left are those that    *)
(* have to stay, and their parents those of the pruned forest.              *)
LEMMA FinishNodes ==
    ASSUME LinkTypes, ForestInv, PruneInv, KeepTargetAncestor \/ RemoveNode,
           NEW it, it = pruner.iter, nextSibling[it] = Nil, before.parent[it] = Nil,
           NEW n, n = pruner.newFinal
    PROVE  /\ pruner' = NotPruning /\ slab' = Kept
           /\ \A x \in Blocks : ~isPruneTargetAncestor'[x]
           /\ parent' = [b \in Blocks |-> IF b \in Kept /\ (pruner.unclesOnly \/ before.parent[b] # n)
                                          THEN before.parent[b] ELSE Nil]
           /\ before' = [nodes |-> Kept, parent |-> parent']
<1>l. Left(it, n, Nil)
  BY LeaveFrame
<1>1. /\ it \in Todo /\ it \in slab /\ it \notin Below /\ parent[it] = Nil
      /\ pruner.traversingUp \/ firstChild[it] = Nil
      /\ slab' \subseteq slab /\ slab \ {it} \subseteq slab'
      /\ IF it \in slab' THEN pruner.unclesOnly /\ it \in Up[n] /\ parent'[it] = Nil
         ELSE it \notin Kept /\ parent'[it] = Nil
      /\ ~isPruneTargetAncestor'[it]
      /\ \A x \in Blocks \ {it} : parent'[x] = parent[x]
                                  /\ isPruneTargetAncestor'[x] = isPruneTargetAncestor[x]
      /\ pruner' = Moved(it) /\ LinkTypes'
  BY <1>l, Zenon DEF Left
<1>2. pruner' = NotPruning
  BY <1>1 DEF Moved
<1>3. /\ Todo \subseteq {it} /\ slab \subseteq Blocks /\ Kept \subseteq slab /\ it \in Blocks
      /\ NodesInv /\ TargetFacts
  BY <1>1, AllVisited, TargetShape, Zenon DEF LinkTypes, PruneInv, NodesInv
<1>4. slab' = Kept
  <2>1. \A b \in slab \ {it} : b \in Kept
    BY <1>3, Zenon DEF Todo
  <2>2. it \in slab' => it \in Kept
    BY <1>1, Zenon DEF Kept
  <2>3. Kept \subseteq slab'
    BY <1>1, <1>3, Zenon
  <2> QED BY <1>1, <2>1, <2>2, <2>3, Zenon
<1>5. \A x \in Blocks : ~isPruneTargetAncestor'[x]
  <2>1. SUFFICES ASSUME NEW x \in Blocks, isPruneTargetAncestor'[x] PROVE FALSE
    BY Zenon
  <2>2. x # it /\ isPruneTargetAncestor[x]
    BY <1>1, <2>1, Zenon
  <2>3. x \in slab /\ x \in Up[n] /\ x \notin Todo
    BY <1>3, <2>2 DEF PruneInv, MarksInv
  <2>4. ~pruner.unclesOnly /\ x \in Kept
    BY <2>2, <2>3, Zenon DEF Todo
  <2>5. x \in Below
    BY <2>4 DEF Kept
  <2> QED BY <1>3, <2>3, <2>5, Zenon DEF TargetFacts
<1>6. ASSUME NEW b \in Blocks
      PROVE  parent'[b] = IF b \in Kept /\ (pruner.unclesOnly \/ before.parent[b] # n)
                          THEN before.parent[b] ELSE Nil
  <2>1. CASE b = it
    BY <1>1, <2>1, Zenon
  <2>2. CASE b # it /\ b \notin slab
    <3>1. parent[b] = Nil /\ b \notin Kept
      BY <1>3, <2>2, Zenon DEF LinkTypes
    <3> QED BY <1>1, <2>2, <3>1, Zenon
  <2>3. CASE b # it /\ b \in slab
    <3>1. b \notin Todo /\ b \in Kept /\ parent'[b] = parent[b]
      BY <1>1, <1>3, <2>3, Zenon DEF Todo
    <3>2. ~pruner.unclesOnly => parent[b] # n
      BY <2>3, <3>1 DEF Todo
    <3>3. \/ parent[b] = before.parent[b]
          \/ ~pruner.unclesOnly /\ before.parent[b] = n /\ parent[b] = Nil
      BY <1>3, <2>3, Zenon DEF NodesInv
    <3> QED BY <3>1, <3>2, <3>3, Zenon
  <2> QED BY <2>1, <2>2, <2>3, Zenon
<1>7. parent' = [b \in Blocks |-> IF b \in Kept /\ (pruner.unclesOnly \/ before.parent[b] # n)
                                  THEN before.parent[b] ELSE Nil]
  <2>1. parent' \in [Blocks -> Blocks \cup {Nil}]
    BY <1>1, Zenon DEF LinkTypes
  <2> QED BY <1>6, <2>1
<1>8. before' = [nodes |-> Kept, parent |-> parent']
  <2>1. before' = [nodes |-> slab', parent |-> [b \in Blocks |-> IF b \in slab' THEN parent[b] ELSE Nil]]
    <3>1. FinishedWith(slab', parent)
      <4>1. CASE KeepTargetAncestor
        BY <4>1, Zenon DEF KeepTargetAncestor
      <4>2. CASE RemoveNode
        BY <4>2, Zenon DEF RemoveNode
      <4> QED BY <4>1, <4>2, Zenon
    <3> QED BY <1>2, <3>1, Zenon DEF FinishedWith
  <2>2. \A b \in Blocks : parent'[b] = IF b \in slab' THEN parent[b] ELSE Nil
    BY <1>1, <1>4, <1>6, Zenon
  <2>3. parent' = [b \in Blocks |-> IF b \in slab' THEN parent[b] ELSE Nil]
    BY <1>7, <2>2, Zenon
  <2> QED BY <1>4, <2>1, <2>3, Zenon
<1> QED BY <1>2, <1>4, <1>5, <1>7, <1>8, Zenon

(* A finished pruning is one step of the forest. *)
LEMMA FinishPrunes ==
    ASSUME LinkTypes, ForestInv, PruneInv, KeepTargetAncestor \/ RemoveNode,
           NEW it, it = pruner.iter, nextSibling[it] = Nil, before.parent[it] = Nil
    PROVE  IF pruner.unclesOnly THEN Abstract!PruneUncles(pruner.newFinal)
           ELSE Abstract!PruneAncestors(pruner.newFinal)
<1>1. PICK n, N, P : n = pruner.newFinal /\ N = before.nodes /\ P = before.parent
  OBVIOUS
<1>2. n \in N /\ N \subseteq Blocks /\ n \in Blocks
  BY <1>1 DEF PruneInv, NodesInv, ForestInv
<1>3. /\ parent' = [b \in Blocks |-> IF b \in Kept /\ (pruner.unclesOnly \/ P[b] # n)
                                     THEN P[b] ELSE Nil]
      /\ before' = [nodes |-> Kept, parent |-> parent']
  <2>1. parent' = [b \in Blocks |-> IF b \in Kept /\ (pruner.unclesOnly \/ before.parent[b] # n)
                                     THEN before.parent[b] ELSE Nil]
    BY <1>1, FinishNodes
  <2>2. before' = [nodes |-> Kept, parent |-> parent']
    BY <1>1, FinishNodes
  <2> QED BY <1>1, <2>1, <2>2
<1>4. before'.nodes = Kept /\ before'.parent = parent'
  BY <1>3
<1>5. Below = KeptByPrune(n, N, P) /\ Up[n] = AncestorsOf(n, N, P)
  BY <1>1, <1>2, Zenon DEF Below, Up
<1>6. CASE pruner.unclesOnly
  <2> DEFINE kept == {b \in N : IsAncestor(n, b, N, P) \/ IsAncestor(b, n, N, P)}
  <2>1. n \in AncestorsOf(n, N, P) /\ AncestorsOf(n, N, P) \subseteq N
    BY <1>2, AncestorSelf, Zenon DEF AncestorsOf
  <2>2. Kept = KeptByPrune(n, N, P) \cup AncestorsOf(n, N, P)
    BY <1>1, <1>5, <1>6, Zenon DEF Kept
  <2>3. Kept = kept
    <3>1. KeptByPrune(n, N, P) = {b \in N \ {n} : IsAncestor(n, b, N, P)}
      BY DEF KeptByPrune
    <3>2. \A b : b \in AncestorsOf(n, N, P) <=> b \in N /\ IsAncestor(b, n, N, P)
      BY <2>1 DEF IsAncestor
    <3>3. IsAncestor(n, n, N, P)
      BY <2>1 DEF IsAncestor
    <3> QED BY <2>2, <3>1, <3>2, <3>3, Zenon
  <2>4. parent' = [b \in Blocks |-> IF b \in kept THEN P[b] ELSE Nil]
    BY <1>3, <1>6, <2>3, Zenon
  <2> HIDE DEF kept
  <2>5. before'.nodes = kept
        /\ before'.parent = [b \in Blocks |-> IF b \in kept THEN before.parent[b] ELSE Nil]
    BY <1>1, <1>4, <2>3, <2>4, Zenon
  <2>6. kept = {b \in before.nodes : Abstract!IsAncestor(n, b, before.nodes, before.parent)
                                    \/ Abstract!IsAncestor(b, n, before.nodes, before.parent)}
    BY <1>1, Zenon DEF kept, IsAncestor, AncestorsOf, ClosedUnderParent, Abstract!IsAncestor,
                Abstract!AncestorsOf, Abstract!ClosedUnderParent
  <2>7. Abstract!PruneUncles(n)
    BY <1>1, <1>2, <2>5, <2>6, Zenon DEF Abstract!PruneUncles
  <2> QED BY <1>1, <1>6, <2>7
<1>7. CASE ~pruner.unclesOnly
  <2>1. Kept = KeptByPrune(n, N, P)
    BY <1>5, <1>7, Zenon DEF Kept
  <2>2. parent' = ParentAfterPrune(n, N, P)
    BY <1>3, <1>7, <2>1, Zenon DEF ParentAfterPrune
  <2>3. Abstract!KeptByPrune(n, N, P) = KeptByPrune(n, N, P)
    BY DEF KeptByPrune, IsAncestor, AncestorsOf, ClosedUnderParent, Abstract!KeptByPrune,
           Abstract!IsAncestor, Abstract!AncestorsOf, Abstract!ClosedUnderParent
  <2>4. Abstract!ParentAfterPrune(n, N, P) = ParentAfterPrune(n, N, P)
    BY <2>3 DEF ParentAfterPrune, Abstract!ParentAfterPrune
  <2>5. Abstract!PruneAncestors(n)
    BY <1>1, <1>2, <1>4, <2>1, <2>2, <2>3, <2>4, Zenon DEF Abstract!PruneAncestors
  <2> QED BY <1>1, <1>7, <2>5
<1> QED BY <1>6, <1>7, Zenon

(* A finished pruning leaves consistent links. *)
LEMMA FinishLinks ==
    ASSUME LinkTypes, ForestInv, PruneInv, KeepTargetAncestor \/ RemoveNode,
           NEW it, it = pruner.iter, nextSibling[it] = Nil, before.parent[it] = Nil
    PROVE  TreeInv' /\ Idle'
<1>1. PICK n, uncles, P, A, B, K :
          /\ n = pruner.newFinal /\ uncles = pruner.unclesOnly /\ P = before.parent
          /\ A = Up[n] /\ B = Below /\ K = Kept
  OBVIOUS
<1>2. /\ pruner' = NotPruning /\ slab' = K
      /\ \A x \in Blocks : ~isPruneTargetAncestor'[x]
      /\ parent' = [b \in Blocks |-> IF b \in K /\ (uncles \/ P[b] # n) THEN P[b] ELSE Nil]
      /\ before' = [nodes |-> K, parent |-> parent']
  BY <1>1, FinishNodes
<1>3. /\ LinkTypes' /\ K = (IF uncles THEN B \cup A ELSE B) /\ Idle'
      /\ K \subseteq Blocks /\ Nil \notin Blocks /\ n \in before.nodes
  <2>1. LinkTypes'
    <3>1. Left(it, n, Nil)
      BY <1>1, LeaveFrame
    <3> QED BY <3>1, Zenon DEF Left
  <2>2. K = (IF uncles THEN B \cup A ELSE B)
    BY <1>1 DEF Kept
  <2> QED BY <1>1, <1>2, <2>1, <2>2, NilAssumption, Zenon DEF LinkTypes, Idle, PruneInv, NodesInv
<1>4. /\ n \notin B /\ \A x \in B : (P[x] = n \/ P[x] \in B) /\ x \in before.nodes
      /\ \A x \in A : x \in before.nodes /\ x \notin B /\ (P[x] = Nil \/ P[x] \in A)
      /\ \A q \in A \ {n} : \E a \in A : P[a] = q
      /\ n \in A /\ \A a, b \in A : P[a] = P[b] => a = b
  <2>1. TargetFacts
    BY <1>1, <1>3, TargetShape, Zenon
  <2>2. n \in A /\ \A a, b \in A : P[a] = P[b] => a = b
    <3>1. n \in Up[n] /\ \A a, b \in Up[n] : before.parent[a] = before.parent[b] => a = b
      BY <1>3, Shape, Zenon
    <3> QED BY <1>1, <3>1
  <2>3. n \notin B /\ \A x \in B : (P[x] = n \/ P[x] \in B) /\ x \in before.nodes
    BY <1>1, <2>1, Zenon DEF TargetFacts
  <2>4. \A x \in A : x \in before.nodes /\ x \notin B /\ (P[x] = Nil \/ P[x] \in A)
    BY <1>1, <2>1, Zenon DEF TargetFacts
  <2>5. \A q \in A \ {n} : \E a \in A : P[a] = q
    BY <1>1, <2>1, Zenon DEF TargetFacts
  <2> QED BY <2>2, <2>3, <2>4, <2>5, Zenon
<1>5. /\ \A x \in B :
            /\ IF previousSibling'[x] = Nil
               THEN IF P[x] = n /\ ~uncles THEN firstRoot' = x ELSE firstChild'[P[x]] = x
               ELSE /\ previousSibling'[x] \in B
                    /\ P[previousSibling'[x]] = P[x]
                    /\ nextSibling'[previousSibling'[x]] = x
            /\ nextSibling'[x] # Nil => /\ nextSibling'[x] \in B
                                        /\ P[nextSibling'[x]] = P[x]
                                        /\ previousSibling'[nextSibling'[x]] = x
            /\ firstChild'[x] # Nil => /\ firstChild'[x] \in B
                                       /\ P[firstChild'[x]] = x
                                       /\ previousSibling'[firstChild'[x]] = Nil
      /\ LET top == IF uncles THEN firstChild'[n] ELSE firstRoot'
         IN  top # Nil => top \in B /\ P[top] = n /\ previousSibling'[top] = Nil
      /\ uncles => /\ firstRoot' \in A /\ P[firstRoot'] = Nil
                   /\ \A x \in A : /\ nextSibling'[x] = Nil /\ previousSibling'[x] = Nil
                                   /\ P[x] # Nil => firstChild'[P[x]] = x
  <2>1. /\ \A x \in B : /\ nextSibling'[x] = nextSibling[x]
                        /\ previousSibling'[x] = previousSibling[x]
                        /\ firstChild'[x] = firstChild[x]
        /\ firstRoot' = firstRoot
        /\ uncles =>
                /\ firstChild'[n] = firstChild[n]
                /\ \A x \in A : ~isPruneTargetAncestor'[x] =>
                        /\ nextSibling'[x] = Nil /\ previousSibling'[x] = Nil
                        /\ P[x] # Nil => firstChild'[P[x]] = x
    <3>1. /\ \A x \in Below : /\ nextSibling'[x] = nextSibling[x]
                              /\ previousSibling'[x] = previousSibling[x]
                              /\ firstChild'[x] = firstChild[x]
          /\ firstRoot' = firstRoot
      BY LeaveKept, Zenon
    <3>2. uncles =>
            /\ firstChild'[n] = firstChild[n]
            /\ \A x \in Up[n] : ~isPruneTargetAncestor'[x] =>
                    /\ nextSibling'[x] = Nil /\ previousSibling'[x] = Nil
                    /\ before.parent[x] # Nil => firstChild'[before.parent[x]] = x
      BY <1>1, LeaveKept, Zenon
    <3> QED BY <1>1, <3>1, <3>2, Zenon
  <2>2. uncles => \A x \in A : ~isPruneTargetAncestor'[x]
    BY <1>2, <1>3, Zenon
  <2>3. uncles => /\ firstRoot' \in A /\ P[firstRoot'] = Nil
                  /\ \A x \in A : /\ nextSibling'[x] = Nil /\ previousSibling'[x] = Nil
                                  /\ P[x] # Nil => firstChild'[P[x]] = x
    BY <1>1, <2>1, <2>2, Zenon DEF PruneInv, AboveInv
  <2>4. LET top == IF uncles THEN firstChild'[n] ELSE firstRoot'
        IN  top # Nil => top \in B /\ P[top] = n /\ previousSibling'[top] = Nil
    <3>1. Top # Nil => Top \in B /\ P[Top] = n /\ previousSibling'[Top] = Nil
      BY <1>1, <2>1, Zenon DEF PruneInv, TopInv
    <3>2. Top = IF uncles THEN firstChild'[n] ELSE firstRoot'
      BY <1>1, <2>1, Zenon DEF Top
    <3> QED BY <3>1, <3>2, Zenon
  <2>5. LinksBelow(B, P, n, uncles, firstRoot', firstChild', nextSibling', previousSibling')
    <3>1. LinksBelow(B, P, n, uncles, firstRoot', firstChild, nextSibling, previousSibling)
      BY <1>1, <2>1 DEF PruneInv, BelowInv
    <3>2. \A x \in B : /\ nextSibling'[x] = nextSibling[x]
                        /\ previousSibling'[x] = previousSibling[x]
                        /\ firstChild'[x] = firstChild[x]
      BY <2>1, Zenon
    <3>3. uncles => firstChild'[n] = firstChild[n]
      BY <2>1, Zenon
    <3>4. \A x \in B : P[x] = n \/ P[x] \in B
      BY <1>4, Zenon
    <3> QED BY <3>1, <3>2, <3>3, <3>4, SameLinksBelow
  <2> QED BY <2>3, <2>4, <2>5, Zenon DEF LinksBelow
<1>6. /\ First'[Nil] = firstRoot'
      /\ \A x \in Blocks : First'[x] = firstChild'[x]
  <2>1. First' = [p \in Blocks \cup {Nil} |-> IF p = Nil THEN firstRoot' ELSE firstChild'[p]]
    BY Zenon DEF First
  <2> QED BY <1>3, <2>1, Zenon
<1>7. \A x \in K : parent'[x] = (IF uncles \/ P[x] # n THEN P[x] ELSE Nil)
  BY <1>2, <1>3, Zenon
<1>8. before'.nodes = K /\ before'.parent = parent'
  BY <1>2, Zenon
<1>9. ASSUME NEW x \in K
      PROVE  /\ IF previousSibling'[x] = Nil THEN First'[parent'[x]] = x
                ELSE /\ previousSibling'[x] \in K
                     /\ parent'[previousSibling'[x]] = parent'[x]
                     /\ nextSibling'[previousSibling'[x]] = x
             /\ nextSibling'[x] # Nil =>
                     /\ nextSibling'[x] \in K
                     /\ parent'[nextSibling'[x]] = parent'[x]
                     /\ previousSibling'[nextSibling'[x]] = x
  <2>1. CASE x \in B
    <3>1. B \subseteq K /\ (uncles => n \in K)
      BY <1>3, <1>4, Zenon
    <3>2. previousSibling'[x] = Nil => First'[parent'[x]] = x
      <4>1. CASE P[x] = n /\ ~uncles
        BY <1>5, <1>6, <1>7, <2>1, <4>1, Zenon
      <4>2. CASE ~(P[x] = n /\ ~uncles)
        <5>1. parent'[x] = P[x] /\ P[x] \in Blocks
          <6>1. parent'[x] = P[x]
            BY <1>7, <4>2, Zenon
          <6>2. P[x] = n \/ P[x] \in B
            BY <1>4, <2>1, Zenon
          <6>3. n \in Blocks \/ ~uncles
            BY <1>3, <3>1, Zenon
          <6> QED BY <1>3, <3>1, <4>2, <6>1, <6>2, <6>3, Zenon
        <5> QED BY <1>5, <1>6, <2>1, <4>2, <5>1, Zenon
      <4> QED BY <4>1, <4>2, Zenon
    <3>3. previousSibling'[x] # Nil => /\ previousSibling'[x] \in K
                                       /\ parent'[previousSibling'[x]] = parent'[x]
                                       /\ nextSibling'[previousSibling'[x]] = x
      BY <1>5, <1>7, <2>1, <3>1
    <3>4. nextSibling'[x] # Nil =>
                     /\ nextSibling'[x] \in K
                     /\ parent'[nextSibling'[x]] = parent'[x]
                     /\ previousSibling'[nextSibling'[x]] = x
      BY <1>5, <1>7, <2>1, <3>1
    <3> QED BY <3>2, <3>3, <3>4, Zenon
  <2>2. CASE x \notin B
    <3>1. x \in A /\ uncles /\ parent'[x] = P[x]
      BY <1>3, <1>7, <2>2, Zenon
    <3>2. nextSibling'[x] = Nil /\ previousSibling'[x] = Nil
      BY <1>5, <3>1, Zenon
    <3>3. First'[parent'[x]] = x
      <4>1. CASE P[x] = Nil
        BY <1>4, <1>5, <1>6, <3>1, <4>1
      <4>2. CASE P[x] # Nil
        <5>1. P[x] \in Blocks
          BY <1>3, <1>4, <3>1, <4>2, Zenon
        <5> QED BY <1>5, <1>6, <3>1, <4>2, <5>1, Zenon
      <4> QED BY <4>1, <4>2, Zenon
    <3> QED BY <3>2, <3>3, Zenon
  <2> QED BY <2>1, <2>2, Zenon
<1>10. ASSUME NEW p \in K \cup {Nil}, First'[p] # Nil
       PROVE  First'[p] \in K /\ parent'[First'[p]] = p /\ previousSibling'[First'[p]] = Nil
  <2>1. CASE p = Nil
    BY <1>3, <1>4, <1>5, <1>6, <1>7, <1>10, <2>1, Zenon
  <2>2. CASE p \in B
    <3>1. First'[p] = firstChild'[p] /\ p # n
      BY <1>3, <1>4, <1>6, <2>2, Zenon
    <3>2. firstChild'[p] \in B /\ P[firstChild'[p]] = p /\ previousSibling'[firstChild'[p]] = Nil
      BY <1>5, <1>10, <2>2, <3>1, Zenon
    <3> QED BY <1>3, <1>7, <3>1, <3>2, Zenon
  <2>3. CASE p = n /\ uncles
    <3>1. First'[p] = firstChild'[n]
      BY <1>3, <1>4, <1>6, <2>3, Zenon
    <3>2. firstChild'[n] \in B /\ P[firstChild'[n]] = n /\ previousSibling'[firstChild'[n]] = Nil
      BY <1>5, <1>10, <2>3, <3>1, Zenon
    <3>3. firstChild'[n] \in K
      BY <1>3, <3>2, Zenon
    <3> QED BY <1>7, <2>3, <3>1, <3>2, <3>3, Zenon
  <2>4. CASE p # Nil /\ p \notin B /\ ~(p = n /\ uncles)
    <3>1. p \in A \ {n} /\ uncles /\ p \in Blocks
      BY <1>3, <2>4, Zenon
    <3>2. PICK a \in A : P[a] = p
      BY <1>4, <3>1, Zenon
    <3>3. First'[p] = a /\ previousSibling'[a] = Nil
      BY <1>5, <1>6, <2>4, <3>1, <3>2, Zenon
    <3> QED BY <1>3, <1>7, <3>1, <3>2, <3>3, Zenon
  <2> QED BY <2>1, <2>2, <2>3, <2>4, Zenon
<1>11. LinksInv'
  BY <1>2, <1>8, <1>9, <1>10, Zenon DEF LinksInv
<1>12. ForestInv'
  <2>1. ParentsPresent(K, parent')
    <3>1. ASSUME NEW x \in K, parent'[x] # Nil PROVE parent'[x] \in K
      <4>1. parent'[x] = P[x] /\ (uncles \/ P[x] # n)
        BY <1>7, <3>1, Zenon
      <4>2. CASE x \in B
        <5>1. B \subseteq K /\ (uncles => n \in K)
          BY <1>3, <1>4, Zenon
        <5>2. P[x] = n \/ P[x] \in B
          BY <1>4, <4>2, Zenon
        <5> QED BY <4>1, <5>1, <5>2, Zenon
      <4>3. CASE x \in A /\ uncles
        BY <1>3, <1>4, <3>1, <4>1, <4>3, Zenon
      <4> QED BY <1>3, <4>2, <4>3, Zenon
    <3> QED BY <3>1 DEF ParentsPresent, ClosedUnderParent
  <2>2. Acyclic(K, parent')
    <3>1. SUFFICES ASSUME NEW S \in SUBSET K, S # {} PROVE \E x \in S : parent'[x] \notin S
      BY DEF Acyclic
    <3>2. S \in SUBSET before.nodes
      BY <1>3, <1>4, <3>1, Zenon
    <3>3. PICK x \in S : P[x] \notin S
      BY <1>1, <3>1, <3>2, Zenon DEF ForestInv, Acyclic
    <3>4. parent'[x] \in {P[x], Nil} /\ Nil \notin S
      BY <1>3, <1>7, <3>1, Zenon
    <3> QED BY <3>3, <3>4, Zenon
  <2>3. parent' \in [Blocks -> Blocks \cup {Nil}]
    BY <1>3, Zenon DEF LinkTypes
  <2>4. before' = [nodes |-> before'.nodes, parent |-> before'.parent]
    BY <1>2, Zenon
  <2> QED BY <1>3, <1>8, <2>1, <2>2, <2>3, <2>4, Zenon DEF ForestInv
<1> QED BY <1>3, <1>11, <1>12, Zenon DEF TreeInv

(* Leaving a node, as one step: the pruning goes on, or it is finished.      *)
LEMMA LeaveStep ==
    ASSUME TreeInv, KeepTargetAncestor \/ RemoveNode
    PROVE  /\ TreeInv' /\ ~Idle
           /\ \/ ~Idle' /\ before' = before
              \/ /\ Idle'
                 /\ IF pruner.unclesOnly THEN Abstract!PruneUncles(pruner.newFinal)
                    ELSE Abstract!PruneAncestors(pruner.newFinal)
<1>1. ~Idle /\ LinkTypes /\ ForestInv /\ PruneInv
  BY Zenon DEF TreeInv, KeepTargetAncestor, RemoveNode, LeaveNode
<1>2. PICK it, p, s : it = pruner.iter /\ p = before.parent[it] /\ s = nextSibling[it]
  OBVIOUS
<1>3. CASE s # Nil \/ p # Nil
  <2>1. TreeInv' /\ ~Idle' /\ before' = before
    BY <1>1, <1>2, <1>3, LeaveKeeps, Zenon
  <2> QED BY <1>1, <2>1
<1>4. CASE s = Nil /\ p = Nil
  <2>0. nextSibling[it] = Nil /\ before.parent[it] = Nil
    BY <1>2, <1>4
  <2>1. TreeInv' /\ Idle'
    BY <1>1, <1>2, <2>0, FinishLinks
  <2>2. IF pruner.unclesOnly THEN Abstract!PruneUncles(pruner.newFinal)
        ELSE Abstract!PruneAncestors(pruner.newFinal)
    BY <1>1, <1>2, <2>0, FinishPrunes, Zenon
  <2> QED BY <1>1, <2>1, <2>2
<1> QED BY <1>3, <1>4

(* A step that changes nothing keeps the invariant. *)
LEMMA StutterKeeps == ASSUME TreeInv, UNCHANGED vars PROVE TreeInv'
<1>1. /\ slab' = slab /\ parent' = parent /\ firstChild' = firstChild /\ nextSibling' = nextSibling
      /\ previousSibling' = previousSibling /\ isPruneTargetAncestor' = isPruneTargetAncestor
      /\ firstRoot' = firstRoot /\ pruner' = pruner /\ before' = before
  BY DEF vars, links
<1>2. Idle' = Idle /\ First' = First /\ Up' = Up /\ Below' = Below
  BY <1>1, Zenon DEF Idle, First, Up, Below
<1>3. Kept' = Kept /\ Path' = Path /\ Top' = Top
  BY <1>1, <1>2, Zenon DEF Kept, Path, Top
<1>4. Todo' = Todo /\ Fresh' = Fresh
  BY <1>1, <1>3, Zenon DEF Todo, Fresh
<1>5. (LinkTypes' <=> LinkTypes) /\ (ForestInv' <=> ForestInv) /\ (LinksInv' <=> LinksInv)
  BY <1>1, <1>2, Zenon DEF LinkTypes, ForestInv, LinksInv
<1>6. (NodesInv' <=> NodesInv) /\ (IterInv' <=> IterInv) /\ (BelowInv' <=> BelowInv)
  BY <1>1, <1>2, <1>3, <1>4, Zenon DEF NodesInv, IterInv, BelowInv
<1>7. (TopInv' <=> TopInv) /\ (MarksInv' <=> MarksInv) /\ (AboveInv' <=> AboveInv)
  BY <1>1, <1>2, <1>3, Zenon DEF TopInv, MarksInv, AboveInv
<1>8. VisitInv => VisitInv'
  BY <1>1, <1>4, <1>3, Zenon DEF VisitInv
<1> QED BY <1>2, <1>5, <1>6, <1>7, <1>8, Zenon DEF TreeInv, PruneInv

(* Every operation of the tree, and every iteration of a pruning, keeps the  *)
(* invariant, and is a step of the forest or leaves it as it is; the last    *)
(* iteration of a pruning is the pruning of the forest.                      *)
LEMMA TreeStep ==
    ASSUME TreeInv, [Next]_vars
    PROVE  /\ TreeInv'
           /\ [Abstract!Next]_(Abstract!vars)
           /\ ~Idle /\ pruner' = NotPruning =>
                IF pruner.unclesOnly THEN Abstract!PruneUncles(pruner.newFinal)
                ELSE Abstract!PruneAncestors(pruner.newFinal)
<1>0. before' = before => UNCHANGED Abstract!vars
  BY DEF Abstract!vars
<1>1. ASSUME NEW b \in Blocks, NEW p \in Blocks \cup {Nil}, Insert(b, p)
      PROVE  TreeInv' /\ Abstract!Insert(b, p) /\ Idle
  <2>1. TreeInv' /\ Idle
    <3>1. TreeInv'
      BY <1>1, InsertKeeps
    <3> QED BY <1>1, <3>1, Zenon DEF Insert
  <2>2. before.nodes = slab /\ before.parent = parent
    BY <2>1, Zenon DEF TreeInv, LinksInv
  <2>3. b \notin slab /\ p \in slab \cup {Nil}
        /\ before'.nodes = slab \cup {b} /\ before'.parent = [parent EXCEPT ![b] = p]
    BY <1>1, Zenon DEF Insert
  <2> QED BY <2>1, <2>2, <2>3, Zenon DEF Abstract!Insert
<1>2. ASSUME NEW n \in Blocks, NEW unclesOnly \in BOOLEAN, StartPrune(n, unclesOnly)
      PROVE  TreeInv' /\ Idle /\ before' = before
  BY <1>2, StartPruneKeeps, Zenon DEF StartPrune
<1>3. ASSUME Clear PROVE TreeInv' /\ Abstract!Clear /\ Idle
  <2>1. Idle /\ Idle' /\ Abstract!Clear
    BY <1>3 DEF Clear, Idle, Abstract!Clear, NoLinks
  <2>2. isPruneTargetAncestor = [b \in Blocks |-> FALSE]
    <3>1. isPruneTargetAncestor \in [Blocks -> BOOLEAN] /\ \A b \in Blocks : ~isPruneTargetAncestor[b]
      BY <2>1, Zenon DEF TreeInv, LinkTypes, LinksInv
    <3>2. \A b \in Blocks : isPruneTargetAncestor[b] = FALSE
      BY <3>1
    <3> QED BY <3>1, <3>2
  <2>3. TreeInv'
    <3>1. NoNodes'
      BY <1>3, <2>1, <2>2, Zenon DEF Clear, NoNodes
    <3> QED BY <3>1, EmptyTree, PTL
  <2> QED BY <2>1, <2>3
<1>4. ASSUME GoDown \/ KeepChild PROVE TreeInv' /\ ~Idle' /\ before' = before
  BY <1>4, GoDownKeeps, KeepChildKeeps
<1>5. ASSUME KeepTargetAncestor \/ RemoveNode
      PROVE  /\ TreeInv' /\ ~Idle
             /\ \/ ~Idle' /\ before' = before
                \/ /\ Idle'
                   /\ IF pruner.unclesOnly THEN Abstract!PruneUncles(pruner.newFinal)
                      ELSE Abstract!PruneAncestors(pruner.newFinal)
  BY <1>5, LeaveStep
<1>6. ~Idle => pruner.newFinal \in Blocks
  BY DEF TreeInv, PruneInv, NodesInv, Pruners
<1>7. Idle' <=> pruner' = NotPruning
  BY DEF Idle
<1>8. CASE \E b \in Blocks, p \in Blocks \cup {Nil} : Insert(b, p)
  <2>1. PICK b \in Blocks, p \in Blocks \cup {Nil} : Insert(b, p)
    BY <1>8
  <2>2. TreeInv' /\ Abstract!Insert(b, p) /\ Idle
    BY <1>1, <2>1
  <2>3. Abstract!Next
    BY <2>2, Zenon DEF Abstract!Next
  <2> QED BY <2>2, <2>3
<1>9. CASE \E n \in Blocks, unclesOnly \in BOOLEAN : StartPrune(n, unclesOnly)
  BY <1>0, <1>2, <1>9
<1>10. CASE Clear
  BY <1>3, <1>10 DEF Abstract!Next
<1>11. CASE GoDown \/ KeepChild
  BY <1>0, <1>4, <1>7, <1>11
<1>12. CASE KeepTargetAncestor \/ RemoveNode
  <2>1. CASE ~Idle' /\ before' = before
    BY <1>0, <1>5, <1>7, <1>12, <2>1, Zenon
  <2>2. CASE /\ Idle'
             /\ IF pruner.unclesOnly THEN Abstract!PruneUncles(pruner.newFinal)
                ELSE Abstract!PruneAncestors(pruner.newFinal)
    <3>1. Abstract!Next
      BY <1>5, <1>6, <1>12, <2>2, Zenon DEF Abstract!Next
    <3> QED BY <1>5, <1>7, <1>12, <2>2, <3>1, Zenon
  <2> QED BY <1>5, <1>12, <2>1, <2>2, Zenon
<1>13. CASE UNCHANGED vars
  <2>1. TreeInv' /\ before' = before /\ pruner' = pruner
    BY <1>13, StutterKeeps DEF vars
  <2> QED BY <1>0, <2>1 DEF Idle
<1> QED BY <1>8, <1>9, <1>10, <1>11, <1>12, <1>13, Zenon DEF Next, PruneStep

(* The invariant holds from the creation of the tree on. *)
LEMMA InitialTree == Init => TreeInv
<1>1. Init => NoNodes
  BY Zenon DEF Init, Idle, NoNodes
<1> QED BY <1>1, EmptyTree

(* Whenever no pruning is going on, for any number of nodes: each node is    *)
(* the first child of its parent (or the first root) or has a sibling before *)
(* it that leads to it, all links lead to nodes of the slab, and those       *)
(* between siblings are inverse to each other, although the iterations of    *)
(* PruneAncestorsIter leave the links of what they have removed behind.      *)
THEOREM LinksAgreeWhenIdle == Spec => [](Idle => LinksInv)
<1>1. TreeInv /\ [Next]_vars => TreeInv'
  BY TreeStep
<1>2. TreeInv => (Idle => LinksInv)
  BY DEF TreeInv
<1> QED BY <1>1, <1>2, InitialTree, PTL DEF Spec

(* ImplementsForest, for any number of nodes: insert and clear do to the    *)
(* slab of linked nodes what they do to a forest, and the iterator returned  *)
(* by prune_ancestors or prune_uncles, run to its end, removes the nodes     *)
(* that the documentation says, all of them and no other, and leaves the     *)
(* parents of a forest.                                                      *)
THEOREM TreeImplementsForest == Spec => ImplementsForest
<1>1. Init => Abstract!Init
  BY DEF Init, NoLinks, Abstract!Init
<1>2. TreeInv /\ [Next]_vars => TreeInv'
  BY TreeStep
<1>3. TreeInv /\ [Next]_vars => [Abstract!Next]_(Abstract!vars)
  BY TreeStep
<1>4. TreeInv /\ [Next]_vars =>
        [~Idle /\ pruner' = NotPruning =>
            IF pruner.unclesOnly THEN Abstract!PruneUncles(pruner.newFinal)
            ELSE Abstract!PruneAncestors(pruner.newFinal)]_vars
  BY TreeStep
<1> QED BY InitialTree, <1>1, <1>2, <1>3, <1>4, PTL DEF Spec, ImplementsForest, Abstract!Spec
=============================================================================
