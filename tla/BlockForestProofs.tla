-------------------------- MODULE BlockForestProofs --------------------------
(***************************************************************************)
(* Facts about ancestors in a forest, for every set of blocks, proved from  *)
(* the fixed-point definition of AncestorsOf: to show that a is an ancestor *)
(* of b, show that a is in every set of nodes that contains b and is closed *)
(* under parent; to use it, exhibit one such set.                           *)
(***************************************************************************)
EXTENDS BlockForest, TLAPS

(* is_ancestor is reflexive. *)
LEMMA AncestorSelf ==
    ASSUME NEW nodes, NEW parent, NEW b \in nodes
    PROVE  b \in AncestorsOf(b, nodes, parent)
  BY DEF AncestorsOf

(* node_to_root_path continues with the parent of every node on it. *)
LEMMA AncestorParent ==
    ASSUME NEW nodes, NEW parent, ParentsPresent(nodes, parent),
           NEW b, NEW a \in AncestorsOf(b, nodes, parent), parent[a] # Nil
    PROVE  parent[a] \in AncestorsOf(b, nodes, parent)
  BY DEF AncestorsOf, ClosedUnderParent, ParentsPresent

(* is_ancestor is transitive. *)
LEMMA AncestorTransitive ==
    ASSUME NEW nodes, NEW parent, NEW c,
           NEW b \in AncestorsOf(c, nodes, parent),
           NEW a \in AncestorsOf(b, nodes, parent)
    PROVE  a \in AncestorsOf(c, nodes, parent)
  BY DEF AncestorsOf

(* The strict ancestors of a node are the ancestors of its parent. *)
LEMMA AncestorStep ==
    ASSUME NEW nodes, NEW parent, ParentsPresent(nodes, parent), Nil \notin nodes,
           NEW b \in nodes, NEW a \in AncestorsOf(b, nodes, parent), a # b
    PROVE  /\ parent[b] # Nil
           /\ a \in AncestorsOf(parent[b], nodes, parent)
<1>1. parent[b] # Nil
  <2>1. SUFFICES ASSUME parent[b] = Nil PROVE FALSE
    OBVIOUS
  <2>2. {b} \in SUBSET nodes /\ ClosedUnderParent({b}, parent)
    BY <2>1 DEF ClosedUnderParent
  <2> QED BY <2>2 DEF AncestorsOf
<1>2. ASSUME NEW S \in SUBSET nodes, parent[b] \in S, ClosedUnderParent(S, parent)
      PROVE  a \in S
  <2>1. S \cup {b} \in SUBSET nodes /\ ClosedUnderParent(S \cup {b}, parent)
    BY <1>2 DEF ClosedUnderParent
  <2>2. a \in S \cup {b}
    BY <2>1 DEF AncestorsOf
  <2> QED BY <2>2
<1> QED BY <1>1, <1>2 DEF AncestorsOf

(* Conversely, an ancestor of the parent is an ancestor of the child. *)
LEMMA AncestorOfParent ==
    ASSUME NEW nodes, NEW parent, NEW b \in nodes, parent[b] # Nil,
           NEW a \in AncestorsOf(parent[b], nodes, parent)
    PROVE  a \in AncestorsOf(b, nodes, parent)
  BY DEF AncestorsOf, ClosedUnderParent

(* In a forest, two nodes are not ancestors of each other. *)
LEMMA AncestorAntisymmetric ==
    ASSUME NEW nodes, NEW parent, ParentsPresent(nodes, parent), Nil \notin nodes,
           Acyclic(nodes, parent),
           NEW a \in nodes, NEW b \in nodes,
           a \in AncestorsOf(b, nodes, parent), b \in AncestorsOf(a, nodes, parent)
    PROVE  a = b
<1>1. SUFFICES ASSUME a # b PROVE FALSE
  OBVIOUS
<1> DEFINE up(x) == AncestorsOf(x, nodes, parent)
           S == {x \in up(a) : a \in up(x)}
<1>2. S \in SUBSET nodes /\ a \in S
  BY AncestorSelf DEF AncestorsOf
<1>3. ASSUME NEW x \in S PROVE parent[x] \in S
  <2>1. x \in nodes
    BY <1>2
  <2>2. parent[x] # Nil /\ a \in up(parent[x])
    <3>1. CASE x # a
      BY <2>1, <3>1, AncestorStep
    <3>2. CASE x = a
      <4>1. parent[a] # Nil /\ b \in up(parent[a])
        BY <1>1, AncestorStep
      <4> QED BY <3>2, <4>1, AncestorTransitive
    <3> QED BY <3>1, <3>2
  <2>3. parent[x] \in up(a)
    BY <2>2, AncestorParent
  <2> QED BY <2>2, <2>3
<1> QED BY ZenonT(30), <1>2, <1>3 DEF Acyclic

(* A new leaf under another node, or a new root, keeps the forest a forest. *)
LEMMA AcyclicInsert ==
    ASSUME NEW nodes \in SUBSET Blocks, NEW parent \in [Blocks -> Blocks \cup {Nil}],
           ParentsPresent(nodes, parent), Acyclic(nodes, parent), Nil \notin Blocks,
           NEW b \in Blocks \ nodes, NEW p \in nodes \cup {Nil}
    PROVE  Acyclic(nodes \cup {b}, [parent EXCEPT ![b] = p])
<1> DEFINE newParent == [parent EXCEPT ![b] = p]
<1>1. SUFFICES ASSUME NEW S \in SUBSET (nodes \cup {b}), S # {}
               PROVE  \E x \in S : newParent[x] \notin S
  BY DEF Acyclic
<1>2. CASE S \ {b} = {}
  <2>1. S = {b}
    BY <1>1, <1>2
  <2>2. newParent[b] = p /\ p # b
    OBVIOUS
  <2> QED BY <2>1, <2>2
<1>3. CASE S \ {b} # {}
  <2>1. PICK x \in S \ {b} : parent[x] \notin S \ {b}
    BY ZenonT(30), <1>1, <1>3 DEF Acyclic
  <2>2. newParent[x] = parent[x] /\ parent[x] # b
    BY <1>1, <2>1 DEF ParentsPresent, ClosedUnderParent
  <2> QED BY <2>1, <2>2
<1> QED BY <1>2, <1>3

(* prune_ancestors only removes links: what it keeps is still a forest. *)
LEMMA AcyclicPrune ==
    ASSUME NEW nodes \in SUBSET Blocks, NEW parent, Acyclic(nodes, parent),
           Nil \notin Blocks, NEW n \in nodes
    PROVE  Acyclic(KeptByPrune(n, nodes, parent), ParentAfterPrune(n, nodes, parent))
<1> DEFINE kept == KeptByPrune(n, nodes, parent)
           newParent == ParentAfterPrune(n, nodes, parent)
<1>1. SUFFICES ASSUME NEW S \in SUBSET kept, S # {}
               PROVE  \E x \in S : newParent[x] \notin S
  BY DEF Acyclic
<1>2. S \in SUBSET nodes
  BY <1>1 DEF KeptByPrune
<1>3. PICK x \in S : parent[x] \notin S
  BY <1>1, <1>2 DEF Acyclic
<1>4. newParent[x] \in {parent[x], Nil}
  BY <1>2 DEF ParentAfterPrune
<1> QED BY <1>2, <1>3, <1>4

(* Inserting a leaf preserves the ancestors of the other nodes. *)
LEMMA AncestorInsert ==
    ASSUME NEW nodes \in SUBSET Blocks, NEW parent \in [Blocks -> Blocks \cup {Nil}],
           ParentsPresent(nodes, parent),
           NEW b \in Blocks \ nodes, NEW p,
           NEW c \in nodes, NEW a \in AncestorsOf(c, nodes, parent)
    PROVE  a \in AncestorsOf(c, nodes \cup {b}, [parent EXCEPT ![b] = p])
<1> DEFINE newParent == [parent EXCEPT ![b] = p]
<1>1. ASSUME NEW S \in SUBSET (nodes \cup {b}), c \in S, ClosedUnderParent(S, newParent)
      PROVE  a \in S
  <2>1. S \ {b} \in SUBSET nodes /\ c \in S \ {b}
    BY <1>1
  <2>2. ClosedUnderParent(S \ {b}, parent)
    <3>1. SUFFICES ASSUME NEW x \in S \ {b}, parent[x] # Nil PROVE parent[x] \in S \ {b}
      BY DEF ClosedUnderParent
    <3>2. newParent[x] = parent[x]
      BY <3>1
    <3>3. parent[x] \in nodes
      BY <3>1, <2>1 DEF ParentsPresent, ClosedUnderParent
    <3> QED BY <1>1, <3>1, <3>2, <3>3 DEF ClosedUnderParent
  <2> QED BY <2>1, <2>2 DEF AncestorsOf
<1>2. a \in nodes
  BY DEF AncestorsOf
<1> QED BY ZenonT(30), <1>1, <1>2 DEF AncestorsOf

(* What prune_ancestors keeps is closed under the new parents: no index in  *)
(* the tree dangles after a pruning.                                        *)
LEMMA PruneParentsPresent ==
    ASSUME NEW nodes \in SUBSET Blocks, NEW parent, ParentsPresent(nodes, parent),
           Nil \notin nodes, NEW n \in nodes
    PROVE  ParentsPresent(KeptByPrune(n, nodes, parent), ParentAfterPrune(n, nodes, parent))
<1> DEFINE kept == KeptByPrune(n, nodes, parent)
           newParent == ParentAfterPrune(n, nodes, parent)
<1>1. SUFFICES ASSUME NEW x \in kept, newParent[x] # Nil
               PROVE  newParent[x] \in kept
  BY DEF ParentsPresent, ClosedUnderParent
<1>2. x \in nodes /\ x # n /\ n \in AncestorsOf(x, nodes, parent)
  BY DEF KeptByPrune, IsAncestor
<1>3. newParent[x] = parent[x] /\ parent[x] # n
  BY <1>1, <1>2 DEF ParentAfterPrune
<1>4. parent[x] \in nodes
  BY <1>1, <1>2, <1>3 DEF ParentsPresent, ClosedUnderParent
<1>5. n \in AncestorsOf(parent[x], nodes, parent)
  BY <1>2, AncestorStep
<1> QED BY <1>3, <1>4, <1>5 DEF KeptByPrune, IsAncestor

(* Pruning at a root preserves ancestry among the nodes that are kept. *)
LEMMA AncestorPrune ==
    ASSUME NEW nodes \in SUBSET Blocks, NEW parent, ParentsPresent(nodes, parent),
           Nil \notin nodes, NEW n \in nodes, parent[n] = Nil,
           NEW c \in KeptByPrune(n, nodes, parent),
           NEW a \in KeptByPrune(n, nodes, parent),
           a \in AncestorsOf(c, nodes, parent)
    PROVE  a \in AncestorsOf(c, KeptByPrune(n, nodes, parent),
                                ParentAfterPrune(n, nodes, parent))
<1> DEFINE kept == KeptByPrune(n, nodes, parent)
           newParent == ParentAfterPrune(n, nodes, parent)
<1>1. kept \subseteq nodes \ {n}
  BY DEF KeptByPrune
<1>2. ASSUME NEW S \in SUBSET kept, c \in S, ClosedUnderParent(S, newParent)
      PROVE  a \in S
  <2>1. ClosedUnderParent(S \cup {n}, parent)
    <3>1. SUFFICES ASSUME NEW x \in S, parent[x] # Nil, parent[x] # n
                   PROVE  parent[x] \in S
      BY DEF ClosedUnderParent
    <3>2. newParent[x] = parent[x]
      BY <1>1, <1>2, <3>1 DEF ParentAfterPrune
    <3> QED BY <1>2, <3>1, <3>2 DEF ClosedUnderParent
  <2>2. S \cup {n} \in SUBSET nodes
    BY <1>1, <1>2
  <2>3. a \in S \cup {n}
    BY <1>2, <2>1, <2>2 DEF AncestorsOf
  <2> QED BY <1>1, <2>3
<1> QED BY <1>2 DEF AncestorsOf
=============================================================================
