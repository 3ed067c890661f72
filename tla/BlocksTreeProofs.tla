-------------------------- MODULE BlocksTreeProofs --------------------------
(***************************************************************************)
(* Proofs about BlocksTree, for every set of blocks and of digests: the    *)
(* structure of the tree, which is the part of the headers seen so far that*)
(* descends from the finalized block, and that finality is never undone;   *)
(* and the best block, which is the heaviest leaf whatever the order in    *)
(* which the tree is scanned.                                              *)
(***************************************************************************)
EXTENDS BlocksTree, BlockForestProofs, FiniteSetTheorems

(* A set of numbers of blocks has a least member ... *)
LEMMA LeastNumber ==
    ASSUME NEW S \in SUBSET Nat, S # {}
    PROVE  \E n \in S : \A m \in S : n <= m
<1> DEFINE R == {p \in Nat \X Nat : p[1] < p[2]}
<1>1. IsWellFoundedOn(R, Nat)
  BY NatLessThanWellFounded DEF OpToRel
<1>2. PICK n \in S : \A m \in S : ~(<<m, n>> \in R)
  <2> HIDE DEF R
  <2> QED BY <1>1, WFMin
<1>3. ASSUME NEW m \in S PROVE n <= m
  <2>1. <<m, n>> \in Nat \X Nat /\ <<m, n>>[1] = m /\ <<m, n>>[2] = n
    OBVIOUS
  <2>2. ~(m < n)
    BY <1>2, <2>1
  <2> QED BY <2>2
<1> QED BY <1>3

(* ... and, when it is bounded, a greatest one. *)
LEMMA GreatestNumber ==
    ASSUME NEW S \in SUBSET Nat, S # {}, NEW N \in Nat, \A n \in S : n <= N
    PROVE  \E n \in S : \A m \in S : m <= n
<1> DEFINE T == {k \in Nat : \E n \in S : k = N - n}
<1>1. T \in SUBSET Nat /\ T # {}
  <2>1. PICK n \in S : TRUE
    OBVIOUS
  <2>2. N - n \in Nat
    OBVIOUS
  <2> QED BY <2>2
<1>2. PICK k \in T : \A m \in T : k <= m
  BY <1>1, LeastNumber
<1>3. PICK n \in S : k = N - n
  BY <1>2
<1>4. ASSUME NEW m \in S PROVE m <= n
  <2>1. N - m \in T
    OBVIOUS
  <2> QED BY <2>1, <1>2, <1>3
<1> QED BY <1>4

(* The number of a block is one more than that of its parent. *)
Numbered(nodes, parents, num) ==
    \A x \in nodes : /\ num[x] \in Nat
                     /\ parents[x] # Nil => num[x] = num[parents[x]] + 1

(* Numbers that decrease towards the root exclude cycles. *)
LEMMA NumberedAcyclic ==
    ASSUME NEW nodes, NEW parents, NEW num, Numbered(nodes, parents, num), Nil \notin nodes
    PROVE  Acyclic(nodes, parents)
<1>1. SUFFICES ASSUME NEW S \in SUBSET nodes, S # {}
               PROVE  \E x \in S : parents[x] \notin S
  BY DEF Acyclic
<1> DEFINE T == {num[x] : x \in S}
<1>2. T \in SUBSET Nat /\ T # {}
  BY <1>1 DEF Numbered
<1>3. PICK n \in T : \A m \in T : n <= m
  <2> HIDE DEF T
  <2> QED BY <1>2, LeastNumber
<1>4. PICK x \in S : num[x] = n
  BY <1>3
<1>5. ASSUME parents[x] \in S PROVE FALSE
  <2>1. num[parents[x]] \in T /\ num[parents[x]] \in Nat /\ num[x] \in Nat
    BY <1>2, <1>5
  <2>2. num[x] = num[parents[x]] + 1
    BY <1>1, <1>4, <1>5 DEF Numbered
  <2>3. n <= num[parents[x]]
    BY <1>3, <2>1
  <2> QED BY <1>4, <2>1, <2>2, <2>3
<1> QED BY <1>4, <1>5

(* Numbers do not decrease from an ancestor to a descendant ... *)
LEMMA AncestorNumber ==
    ASSUME NEW nodes, NEW parents, NEW num, Numbered(nodes, parents, num),
           ParentsPresent(nodes, parents),
           NEW b \in nodes, NEW a \in AncestorsOf(b, nodes, parents)
    PROVE  num[a] <= num[b]
<1> DEFINE S == {x \in nodes : num[x] <= num[b]}
<1>1. S \in SUBSET nodes /\ b \in S
  BY DEF Numbered
<1>2. ASSUME NEW x \in S, parents[x] # Nil PROVE parents[x] \in S
  <2>1. parents[x] \in nodes
    BY <1>2 DEF ParentsPresent, ClosedUnderParent
  <2>2. num[x] \in Nat /\ num[b] \in Nat /\ num[parents[x]] \in Nat
    BY <2>1 DEF Numbered
  <2>3. num[x] = num[parents[x]] + 1 /\ num[x] <= num[b]
    BY <1>2 DEF Numbered
  <2> QED BY <2>1, <2>2, <2>3
<1>3. ClosedUnderParent(S, parents)
  BY <1>2 DEF ClosedUnderParent
<1>4. a \in S
  <2> HIDE DEF S
  <2> QED BY <1>1, <1>3 DEF AncestorsOf
<1> QED BY <1>4

(* ... and increase when they differ. *)
LEMMA StrictAncestorNumber ==
    ASSUME NEW nodes, NEW parents, NEW num, Numbered(nodes, parents, num),
           ParentsPresent(nodes, parents), Nil \notin nodes,
           NEW b \in nodes, NEW a \in AncestorsOf(b, nodes, parents), a # b
    PROVE  num[a] < num[b]
<1>1. parents[b] # Nil /\ a \in AncestorsOf(parents[b], nodes, parents)
  BY AncestorStep
<1>2. parents[b] \in nodes /\ a \in nodes
  BY <1>1 DEF ParentsPresent, ClosedUnderParent, AncestorsOf
<1>3. num[a] <= num[parents[b]]
  BY <1>1, <1>2, AncestorNumber
<1>4. num[a] \in Nat /\ num[parents[b]] \in Nat /\ num[b] = num[parents[b]] + 1
  BY <1>1, <1>2 DEF Numbered
<1> QED BY <1>3, <1>4

(* The ancestors of a block form a chain. *)
LEMMA AncestorTotal ==
    ASSUME NEW nodes, NEW parents, ParentsPresent(nodes, parents), Nil \notin nodes,
           NEW b \in nodes,
           NEW x \in AncestorsOf(b, nodes, parents), NEW y \in AncestorsOf(b, nodes, parents)
    PROVE  x \in AncestorsOf(y, nodes, parents) \/ y \in AncestorsOf(x, nodes, parents)
<1> DEFINE up(z) == AncestorsOf(z, nodes, parents)
           S == {z \in up(b) : y \in up(z) \/ z \in up(y)}
<1>1. S \in SUBSET nodes /\ b \in S
  BY AncestorSelf DEF AncestorsOf
<1>2. ASSUME NEW z \in S, parents[z] # Nil PROVE parents[z] \in S
  <2>1. z \in nodes /\ y \in nodes
    BY <1>1 DEF AncestorsOf
  <2>2. parents[z] \in up(b)
    BY <1>2, AncestorParent
  <2>3. CASE z \in up(y)
    <3>1. parents[z] \in up(y)
      BY <1>2, <2>3, AncestorParent
    <3> QED BY <2>2, <3>1
  <2>4. CASE y \in up(z) /\ y # z
    <3>1. y \in up(parents[z])
      BY <2>1, <2>4, AncestorStep
    <3> QED BY <2>2, <3>1
  <2>5. CASE y = z
    <3>1. parents[z] \in up(y)
      BY <1>2, <2>1, <2>5, AncestorSelf, AncestorParent
    <3> QED BY <2>2, <3>1
  <2> QED BY <1>2, <2>3, <2>4, <2>5
<1>3. ClosedUnderParent(S, parents)
  BY <1>2 DEF ClosedUnderParent
<1>4. x \in S
  <2> HIDE DEF S
  <2> QED BY <1>1, <1>3 DEF AncestorsOf
<1> QED BY <1>4

(* At most one of them has a given number. *)
LEMMA AncestorUnique ==
    ASSUME NEW nodes, NEW parents, NEW num, Numbered(nodes, parents, num),
           ParentsPresent(nodes, parents), Nil \notin nodes, NEW b \in nodes,
           NEW x \in AncestorsOf(b, nodes, parents), NEW y \in AncestorsOf(b, nodes, parents),
           num[x] = num[y]
    PROVE  x = y
<1>1. x \in nodes /\ y \in nodes
  BY DEF AncestorsOf
<1>2. num[x] \in Nat /\ num[y] \in Nat
  BY <1>1 DEF Numbered
<1>3. CASE x \in AncestorsOf(y, nodes, parents) /\ x # y
  BY <1>1, <1>2, <1>3, StrictAncestorNumber
<1>4. CASE y \in AncestorsOf(x, nodes, parents) /\ x # y
  BY <1>1, <1>2, <1>4, StrictAncestorNumber
<1> QED BY <1>3, <1>4, AncestorTotal

(* One of them has any number between that of an ancestor and the block's,  *)
(* and it is below that ancestor.                                           *)
LEMMA AncestorAt ==
    ASSUME NEW nodes, NEW parents, NEW num, Numbered(nodes, parents, num),
           ParentsPresent(nodes, parents), Nil \notin nodes,
           NEW b \in nodes, NEW x \in AncestorsOf(b, nodes, parents),
           NEW n \in Nat, num[x] <= n, n <= num[b]
    PROVE  \E c \in AncestorsOf(b, nodes, parents) :
              num[c] = n /\ x \in AncestorsOf(c, nodes, parents)
<1> DEFINE up(z) == AncestorsOf(z, nodes, parents)
           S == {c \in up(b) : num[c] > n}
<1>1. SUFFICES ASSUME \A c \in up(b) : ~(num[c] = n /\ x \in up(c)) PROVE FALSE
  OBVIOUS
<1>2. \A c \in up(b) : c \in nodes /\ num[c] \in Nat
  BY DEF AncestorsOf, Numbered
<1>3. b \in up(b) /\ x \in up(b)
  BY AncestorSelf
<1>4. S \in SUBSET nodes /\ b \in S
  BY <1>1, <1>2, <1>3
<1>5. ASSUME NEW c \in S, parents[c] # Nil PROVE parents[c] \in S
  <2>1. parents[c] \in up(b)
    BY <1>5, AncestorParent
  <2>2. num[c] = num[parents[c]] + 1
    BY <1>4, <1>5 DEF Numbered
  <2>3. num[parents[c]] >= n
    BY <1>2, <1>5, <2>1, <2>2
  <2>4. ASSUME num[parents[c]] = n PROVE FALSE
    <3>1. x \notin up(parents[c])
      BY <1>1, <2>1, <2>4
    <3>2. parents[c] \in up(x) /\ parents[c] # x
      BY <1>2, <1>3, <2>1, <3>1, AncestorSelf, AncestorTotal
    <3>3. num[parents[c]] < num[x]
      BY <1>2, <1>3, <3>2, StrictAncestorNumber
    <3> QED BY <1>2, <1>3, <2>1, <2>4, <3>3
  <2> QED BY <1>2, <2>1, <2>3, <2>4
<1>6. ClosedUnderParent(S, parents)
  BY <1>5 DEF ClosedUnderParent
<1>7. x \in S
  <2> HIDE DEF S
  <2> QED BY <1>4, <1>6 DEF AncestorsOf
<1> QED BY <1>2, <1>3, <1>7

(* There are finitely many of them. *)
LEMMA AncestorsFinite ==
    ASSUME NEW nodes, NEW parents, NEW num, Numbered(nodes, parents, num),
           ParentsPresent(nodes, parents), Nil \notin nodes, NEW b \in nodes
    PROVE  IsFiniteSet(AncestorsOf(b, nodes, parents))
<1> DEFINE up == AncestorsOf(b, nodes, parents)
           f == [x \in up |-> num[x]]
<1>1. num[b] \in Nat /\ \A x \in up : num[x] \in Nat /\ num[x] <= num[b]
  BY AncestorNumber DEF AncestorsOf, Numbered
<1>2. f \in [up -> 0..num[b]]
  BY <1>1
<1>3. \A x, y \in up : f[x] = f[y] => x = y
  BY AncestorUnique
<1>4. f \in Injection(up, 0..num[b])
  BY <1>2, <1>3 DEF Injection, IsInjective
<1>5. IsFiniteSet(0..num[b])
  BY <1>1, FS_Interval
<1> QED BY <1>4, <1>5, FS_Injection

(* A set of ancestors has a deepest member. *)
LEMMA AncestorDeepest ==
    ASSUME NEW nodes, NEW parents, NEW num, Numbered(nodes, parents, num),
           ParentsPresent(nodes, parents), Nil \notin nodes, NEW b \in nodes,
           NEW S \in SUBSET AncestorsOf(b, nodes, parents), S # {}
    PROVE  \E m \in S : \A c \in S \ {m} : num[c] < num[m]
<1> DEFINE T == {num[x] : x \in S}
<1>1. num[b] \in Nat /\ \A x \in S : x \in nodes /\ num[x] \in Nat /\ num[x] <= num[b]
  BY AncestorNumber DEF AncestorsOf, Numbered
<1>2. T \in SUBSET Nat /\ T # {} /\ \A n \in T : n <= num[b]
  BY <1>1
<1>3. PICK n \in T : \A k \in T : k <= n
  <2> HIDE DEF T
  <2> QED BY <1>1, <1>2, GreatestNumber
<1>4. PICK m \in S : num[m] = n
  BY <1>3
<1>5. ASSUME NEW c \in S \ {m} PROVE num[c] < num[m]
  <2>1. num[c] <= num[m]
    BY <1>3, <1>4
  <2>2. num[c] # num[m]
    BY AncestorUnique
  <2> QED BY <1>1, <2>1, <2>2
<1> QED BY <1>5

(* Inserting a leaf changes the ancestors of no other node ... *)
LEMMA AncestorsInsert ==
    ASSUME NEW nodes, NEW parents, ParentsPresent(nodes, parents), NEW b, b \notin nodes,
           NEW newParent, \A x \in nodes : newParent[x] = parents[x], NEW c \in nodes
    PROVE  AncestorsOf(c, nodes \cup {b}, newParent) = AncestorsOf(c, nodes, parents)
<1>1. ASSUME NEW a \in AncestorsOf(c, nodes \cup {b}, newParent)
      PROVE  a \in AncestorsOf(c, nodes, parents)
  <2>1. ASSUME NEW S \in SUBSET nodes, c \in S, ClosedUnderParent(S, parents)
        PROVE  a \in S
    <3>1. S \in SUBSET (nodes \cup {b})
      BY <2>1
    <3>2. ClosedUnderParent(S, newParent)
      BY <2>1 DEF ClosedUnderParent
    <3> QED BY <1>1, <2>1, <3>1, <3>2 DEF AncestorsOf
  <2>2. a \in nodes
    <3>1. nodes \in SUBSET nodes /\ c \in nodes /\ ClosedUnderParent(nodes, parents)
      BY DEF ParentsPresent
    <3> QED BY <2>1, <3>1
  <2> QED BY <2>1, <2>2 DEF AncestorsOf
<1>2. ASSUME NEW a \in AncestorsOf(c, nodes, parents)
      PROVE  a \in AncestorsOf(c, nodes \cup {b}, newParent)
  <2>1. ASSUME NEW S \in SUBSET (nodes \cup {b}), c \in S, ClosedUnderParent(S, newParent)
        PROVE  a \in S
    <3>1. S \ {b} \in SUBSET nodes /\ c \in S \ {b}
      BY <2>1
    <3>2. ClosedUnderParent(S \ {b}, parents)
      BY <2>1, <3>1 DEF ClosedUnderParent, ParentsPresent
    <3> QED BY <1>2, <3>1, <3>2 DEF AncestorsOf
  <2>2. a \in nodes \cup {b}
    BY DEF AncestorsOf
  <2> QED BY <2>1, <2>2 DEF AncestorsOf
<1> QED BY <1>1, <1>2

(* ... and the leaf has itself and the ancestors of its parent. *)
LEMMA AncestorsOfLeaf ==
    ASSUME NEW nodes, NEW parents, ParentsPresent(nodes, parents), Nil \notin nodes,
           NEW b, b \notin nodes, b # Nil, NEW newParent,
           \A x \in nodes : newParent[x] = parents[x], newParent[b] \in nodes \cup {Nil}
    PROVE  AncestorsOf(b, nodes \cup {b}, newParent)
              = {b} \cup (IF newParent[b] = Nil THEN {}
                          ELSE AncestorsOf(newParent[b], nodes, parents))
<1> DEFINE newNodes == nodes \cup {b}
           p == newParent[b]
<1>1. b \in newNodes /\ Nil \notin newNodes
  OBVIOUS
<1>2. ParentsPresent(newNodes, newParent)
  BY DEF ParentsPresent, ClosedUnderParent
<1>3. b \in AncestorsOf(b, newNodes, newParent)
  BY AncestorSelf
<1>4. \A c \in nodes : AncestorsOf(c, newNodes, newParent) = AncestorsOf(c, nodes, parents)
  BY AncestorsInsert
<1>5. ASSUME p # Nil
      PROVE  AncestorsOf(p, nodes, parents) \subseteq AncestorsOf(b, newNodes, newParent)
  <2>1. AncestorsOf(p, newNodes, newParent) = AncestorsOf(p, nodes, parents)
    BY <1>4, <1>5
  <2> HIDE DEF newNodes
  <2> QED BY <1>1, <1>5, <2>1, AncestorOfParent
<1>6. ASSUME NEW a \in AncestorsOf(b, newNodes, newParent), a # b
      PROVE  p # Nil /\ a \in AncestorsOf(p, nodes, parents)
  <2>1. p # Nil /\ a \in AncestorsOf(p, newNodes, newParent)
    <3> HIDE DEF newNodes
    <3> QED BY <1>1, <1>2, <1>6, AncestorStep
  <2> QED BY <1>4, <2>1
<1> QED BY <1>3, <1>5, <1>6

(* Pruning removes the ancestors of the pruned node from the ancestors of   *)
(* the nodes that are kept, and nothing else.                               *)
LEMMA AncestorsPrune ==
    ASSUME NEW nodes \in SUBSET Blocks, NEW parents, ParentsPresent(nodes, parents),
           Nil \notin Blocks, Acyclic(nodes, parents), NEW n \in nodes,
           NEW c \in KeptByPrune(n, nodes, parents)
    PROVE  AncestorsOf(c, KeptByPrune(n, nodes, parents), ParentAfterPrune(n, nodes, parents))
              = AncestorsOf(c, nodes, parents) \ AncestorsOf(n, nodes, parents)
<1> DEFINE kept == KeptByPrune(n, nodes, parents)
           newParent == ParentAfterPrune(n, nodes, parents)
           up(z) == AncestorsOf(z, nodes, parents)
           new == AncestorsOf(c, kept, newParent)
<1>0. /\ Nil \notin nodes
      /\ kept \subseteq nodes \ {n}
      /\ \A x \in kept : n \in up(x) /\ x \in Blocks
      /\ \A x \in nodes : up(x) \subseteq nodes
  BY DEF KeptByPrune, IsAncestor, AncestorsOf
<1>1. ASSUME NEW x \in kept PROVE x \notin up(n)
  BY <1>0, AncestorAntisymmetric
<1>2. new \subseteq up(c)
  <2> DEFINE S == up(c) \cap kept
  <2>1. S \in SUBSET kept /\ c \in S
    BY <1>0, AncestorSelf
  <2>2. ASSUME NEW x \in S, newParent[x] # Nil PROVE newParent[x] \in S
    <3>1. newParent[x] = parents[x] /\ parents[x] # Nil
      BY <1>0, <2>2 DEF ParentAfterPrune
    <3>2. parents[x] \in up(c)
      BY <3>1, AncestorParent
    <3>3. newParent[x] \in kept
      BY <1>0, <2>2, PruneParentsPresent DEF ParentsPresent, ClosedUnderParent
    <3> QED BY <3>1, <3>2, <3>3
  <2>3. ClosedUnderParent(S, newParent)
    BY <2>2 DEF ClosedUnderParent
  <2>4. new \subseteq S
    <3> HIDE DEF S, kept, newParent
    <3> QED BY <2>1, <2>3 DEF AncestorsOf
  <2> QED BY <2>4
<1>3. new \subseteq kept
  BY DEF AncestorsOf
<1>4. ASSUME NEW a \in up(c), a \notin up(n) PROVE a \in new
  <2>1. SUFFICES ASSUME NEW S \in SUBSET kept, c \in S, ClosedUnderParent(S, newParent)
                 PROVE  a \in S
    <3>1. n \in up(c) /\ c \in nodes
      BY <1>0
    <3>2. a \in up(n) \/ n \in up(a)
      BY <1>0, <3>1, AncestorTotal
    <3>3. a # n
      BY <1>4, AncestorSelf
    <3>4. a \in kept
      BY <1>0, <1>4, <3>1, <3>2, <3>3 DEF KeptByPrune, IsAncestor
    <3> QED BY <3>4 DEF AncestorsOf
  <2> DEFINE U == S \cup up(n)
  <2>2. U \in SUBSET nodes /\ c \in U
    BY <1>0, <2>1
  <2>3. ASSUME NEW x \in U, parents[x] # Nil PROVE parents[x] \in U
    <3>1. CASE x \in up(n)
      BY <2>3, <3>1, AncestorParent
    <3>2. CASE x \in S /\ parents[x] = n
      BY <3>2, AncestorSelf
    <3>3. CASE x \in S /\ parents[x] # n
      <4>1. newParent[x] = parents[x]
        BY <1>0, <2>1, <3>3 DEF ParentAfterPrune
      <4> QED BY <2>1, <2>3, <3>3, <4>1 DEF ClosedUnderParent
    <3> QED BY <3>1, <3>2, <3>3
  <2>4. ClosedUnderParent(U, parents)
    BY <2>3 DEF ClosedUnderParent
  <2>5. a \in U
    <3> HIDE DEF U
    <3> QED BY <1>4, <2>2, <2>4 DEF AncestorsOf
  <2> QED BY <1>4, <2>5
<1> QED BY <1>1, <1>2, <1>3, <1>4

(* The numbers of the blocks, as a function. *)
Numbers == [b \in Blocks |-> header[b].number]

(* Types of the state. *)
TypeOK ==
    /\ header \in [Blocks -> Header \cup {Nil}]
    /\ tree \in SUBSET Seen /\ IsFiniteSet(tree)
    /\ parent \in [Blocks -> Blocks \cup {Nil}]
    /\ finalized \in Seen \cup {Genesis}

(* The headers seen so far form chains that start at the genesis block and  *)
(* on which no change of authorities is scheduled while another one waits.  *)
HeadersSound ==
    \A b \in Seen : \E p \in Seen \cup {Genesis} :
        /\ header[b].parent = p
        /\ header[b].number = Number(p) + 1
        /\ header[b].digest.change # NoChange =>
              \A x \in Changing(History(p)) : Trigger(x) <= Number(p)

(* The tree is the part of them that starts at the finalized block. *)
TreeSound ==
    \A b \in tree :
        /\ header[b].parent \in tree \cup {finalized}
        /\ parent[b] = IF header[b].parent \in tree THEN header[b].parent ELSE Nil
        /\ header[b].number > Number(finalized)

(* The structural part of the inductive invariant. *)
Sound == TypeOK /\ HeadersSound /\ TreeSound

(* What a header contains. *)
LEMMA SeenHeaders ==
    ASSUME TypeOK
    PROVE  /\ Nil \notin Blocks /\ Genesis \notin Blocks /\ Genesis # Nil
           /\ Seen \subseteq Blocks
           /\ \A b \in Seen : /\ header[b] \in Header
                              /\ header[b].number \in Nat
                              /\ header[b].digest \in Digests
                              /\ header[b].digest.change \in {NoChange} \cup Nat
                              /\ header[b].digest.primary \in BOOLEAN
                              /\ header[b].digest.epoch \in BOOLEAN
                              /\ header[b].parent \in Blocks \cup {Genesis}
  BY NilAssumption, GenesisAssumption, DigestsAssumption DEF TypeOK, Seen, Header

(* The headers form a forest, numbered from the genesis block. *)
HistoryForest ==
    /\ ParentsPresent(Seen, HeaderParent)
    /\ Numbered(Seen, HeaderParent, Numbers)
    /\ Nil \notin Seen

(* Sound makes the headers a forest. *)
LEMMA HistoryIsForest == Sound => HistoryForest
<1> SUFFICES ASSUME Sound PROVE HistoryForest
  OBVIOUS
<1> USE SeenHeaders DEF Sound
<1>1. ParentsPresent(Seen, HeaderParent)
  BY DEF HeadersSound, ParentsPresent, ClosedUnderParent, HeaderParent
<1>2. Numbered(Seen, HeaderParent, Numbers)
  BY DEF HeadersSound, Numbered, Numbers, HeaderParent, Number
<1> QED BY <1>1, <1>2 DEF HistoryForest

(* So do the blocks of the tree. *)
TreeForest ==
    /\ ParentsPresent(tree, parent)
    /\ Numbered(tree, parent, Numbers)
    /\ Acyclic(tree, parent)
    /\ tree \subseteq Blocks /\ Nil \notin tree

(* Sound makes the tree a forest. *)
LEMMA TreeIsForest == Sound => TreeForest
<1> SUFFICES ASSUME Sound PROVE TreeForest
  OBVIOUS
<1>0. tree \subseteq Blocks /\ tree \subseteq Seen /\ Nil \notin tree /\ Genesis \notin tree
  BY SeenHeaders DEF Sound, TypeOK
<1>1. ParentsPresent(tree, parent)
  BY <1>0 DEF Sound, TreeSound, ParentsPresent, ClosedUnderParent
<1>2. Numbered(tree, parent, Numbers)
  BY <1>0, SeenHeaders DEF Sound, TreeSound, HeadersSound, Numbered, Numbers, Number
<1>3. Acyclic(tree, parent)
  BY <1>0, <1>2, NumberedAcyclic
<1> QED BY <1>0, <1>1, <1>2, <1>3 DEF TreeForest

(* The history of a block is the block and the history of its parent. *)
HistoryStep ==
    \A b \in Seen : /\ History(b) = {b} \cup History(header[b].parent)
                    /\ b \notin History(header[b].parent)

(* Numbers grow along a history, which contains the histories of its blocks *)
(* and is finite.                                                           *)
HistoryChain ==
    \A b \in Seen \cup {Genesis} :
        /\ IsFiniteSet(History(b))
        /\ \A x \in History(b) :
              /\ x \in Seen
              /\ header[x].number <= Number(b)
              /\ History(x) \subseteq History(b)

(* Sound makes every history a chain. *)
LEMMA HistoriesChain == Sound => HistoryChain
<1> SUFFICES ASSUME Sound, NEW b \in Seen \cup {Genesis}
             PROVE  /\ IsFiniteSet(History(b))
                    /\ \A x \in History(b) : /\ x \in Seen
                                             /\ header[x].number <= Number(b)
                                             /\ History(x) \subseteq History(b)
  BY DEF HistoryChain
<1>0. HistoryForest /\ Seen \subseteq Blocks /\ Genesis \notin Blocks
  BY HistoryIsForest, SeenHeaders DEF Sound
<1>1. CASE b = Genesis
  BY <1>1, FS_EmptySet DEF History
<1>2. CASE b # Genesis
  <2>1. History(b) = AncestorsOf(b, Seen, HeaderParent) /\ b \in Seen
    BY <1>2 DEF History
  <2>2. IsFiniteSet(History(b))
    BY <1>0, <2>1, AncestorsFinite DEF HistoryForest
  <2>3. ASSUME NEW x \in History(b)
        PROVE  x \in Seen /\ header[x].number <= Number(b) /\ History(x) \subseteq History(b)
    <3>1. x \in Seen
      BY <2>1 DEF AncestorsOf
    <3>2. Numbers[x] <= Numbers[b]
      BY <1>0, <2>1, AncestorNumber DEF HistoryForest
    <3>3. History(x) = AncestorsOf(x, Seen, HeaderParent)
      BY <1>0, <3>1 DEF History
    <3>4. History(x) \subseteq History(b)
      BY <2>1, <3>3, AncestorTransitive
    <3> QED BY <1>0, <1>2, <2>1, <3>1, <3>2, <3>4 DEF Numbers, Number
  <2> QED BY <2>2, <2>3
<1> QED BY <1>1, <1>2

(* Sound makes histories grow block by block. *)
LEMMA HistoriesStep == Sound => HistoryStep
<1> SUFFICES ASSUME Sound, NEW b \in Seen
             PROVE  /\ History(b) = {b} \cup History(header[b].parent)
                    /\ b \notin History(header[b].parent)
  BY DEF HistoryStep
<1>0. /\ HistoryForest /\ Seen \subseteq Blocks /\ Genesis \notin Blocks
      /\ Nil \notin Blocks /\ HistoryChain
  BY HistoryIsForest, HistoriesChain, SeenHeaders DEF Sound
<1>1. /\ header[b].parent \in Seen \cup {Genesis}
      /\ header[b].number = Number(header[b].parent) + 1
      /\ header[b].number \in Nat /\ Number(header[b].parent) \in Nat
  BY SeenHeaders DEF Sound, HeadersSound, Number
<1>2. b \notin History(header[b].parent)
  BY <1>0, <1>1 DEF HistoryChain
<1>3. History(b) = AncestorsOf(b, Seen, HeaderParent)
  BY <1>0 DEF History
<1>4. CASE header[b].parent = Genesis
  <2>1. HeaderParent[b] = Nil
    BY <1>0, <1>4 DEF HeaderParent
  <2>2. ASSUME NEW a \in History(b), a # b PROVE FALSE
    BY <1>0, <1>3, <2>1, <2>2, AncestorStep DEF HistoryForest
  <2>3. b \in History(b)
    BY <1>3, AncestorSelf
  <2> QED BY <1>2, <1>4, <2>2, <2>3 DEF History
<1>5. CASE header[b].parent # Genesis
  <2>1. HeaderParent[b] = header[b].parent /\ HeaderParent[b] # Nil
    BY <1>0, <1>1, <1>5 DEF HeaderParent
  <2>2. History(header[b].parent) = AncestorsOf(header[b].parent, Seen, HeaderParent)
    BY <1>5 DEF History
  <2>3. ASSUME NEW a \in History(b), a # b PROVE a \in History(header[b].parent)
    BY <1>0, <1>3, <2>1, <2>2, <2>3, AncestorStep DEF HistoryForest
  <2>4. b \in History(b)
    BY <1>3, AncestorSelf
  <2>5. ASSUME NEW a \in History(header[b].parent) PROVE a \in History(b)
    BY <1>3, <2>1, <2>2, AncestorOfParent
  <2> QED BY <1>2, <2>3, <2>4, <2>5
<1> QED BY <1>4, <1>5

(* The path from the finalized block to a block of the tree is what its     *)
(* history adds to that of the finalized block.                             *)
TreeIsSuffix ==
    \A b \in tree : /\ Anc(b) = History(b) \ History(finalized)
                    /\ History(finalized) \subseteq History(b)
                    /\ finalized \in History(header[b].parent) \cup {Genesis}

(* Sound relates paths in the tree and histories. *)
LEMMA TreeHistory == Sound => TreeIsSuffix
<1> SUFFICES ASSUME Sound, NEW b \in tree
             PROVE  /\ Anc(b) = History(b) \ History(finalized)
                    /\ History(finalized) \subseteq History(b)
                    /\ finalized \in History(header[b].parent) \cup {Genesis}
  BY DEF TreeIsSuffix
<1>0. /\ HistoryForest /\ TreeForest /\ HistoryChain /\ HistoryStep
      /\ tree \subseteq Seen /\ Seen \subseteq Blocks /\ Genesis \notin Blocks
      /\ finalized \in Seen \cup {Genesis} /\ Number(finalized) \in Nat
  BY HistoryIsForest, TreeIsForest, HistoriesChain, HistoriesStep, SeenHeaders
  DEF Sound, TypeOK, Number
<1>1. \A x \in tree : /\ header[x].number \in Nat
                      /\ header[x].number > Number(finalized)
                      /\ x \notin History(finalized)
                      /\ x # finalized
  BY <1>0, SeenHeaders DEF Sound, TreeSound, HistoryChain, Number
<1>2. Anc(b) \subseteq tree
  BY DEF Anc, AncestorsOf
<1>3. Anc(b) \subseteq History(b)
  <2> DEFINE S == History(b) \cap tree
  <2>1. S \in SUBSET tree /\ b \in S
    BY <1>0 DEF HistoryStep
  <2>2. ASSUME NEW x \in S, parent[x] # Nil PROVE parent[x] \in S
    <3>1. parent[x] = header[x].parent /\ parent[x] \in tree
      BY <2>2 DEF Sound, TreeSound
    <3>2. x \in Seen /\ History(x) \subseteq History(b)
      BY <1>0, <2>2 DEF HistoryChain
    <3>3. parent[x] \in History(parent[x])
      BY <1>0, <3>1 DEF HistoryStep
    <3> QED BY <1>0, <3>1, <3>2, <3>3 DEF HistoryStep
  <2>3. ClosedUnderParent(S, parent)
    BY <2>2 DEF ClosedUnderParent
  <2>4. Anc(b) \subseteq S
    <3> HIDE DEF S
    <3> QED BY <2>1, <2>3 DEF Anc, AncestorsOf
  <2> QED BY <2>4
<1>4. PICK r \in Anc(b) : parent[r] \notin Anc(b)
  <2>1. Anc(b) \in SUBSET tree /\ Anc(b) # {}
    BY <1>2, AncestorSelf DEF Anc
  <2> QED BY <1>0, <2>1 DEF TreeForest, Acyclic
<1>5. header[r].parent = finalized
  <2>1. parent[r] = Nil
    BY <1>0, <1>4, AncestorParent DEF Anc, TreeForest
  <2> QED BY <1>0, <1>2, <2>1 DEF Sound, TreeSound, TreeForest
<1>6. History(finalized) \subseteq History(b)
  BY <1>0, <1>2, <1>3, <1>5 DEF HistoryStep, HistoryChain
<1>7. finalized \in History(header[b].parent) \cup {Genesis}
  <2>1. CASE finalized # Genesis
    <3>1. finalized \in History(finalized)
      BY <1>0, <2>1 DEF HistoryStep
    <3>2. finalized \in History(b) /\ finalized # b
      BY <1>1, <1>6, <3>1
    <3> QED BY <1>0, <3>2 DEF HistoryStep
  <2> QED BY <2>1
<1>8. History(b) \subseteq Anc(b) \cup History(finalized)
  <2> DEFINE U == Anc(b) \cup History(finalized)
  <2>1. U \in SUBSET Seen /\ b \in U
    BY <1>0, <1>2, AncestorSelf DEF Anc, HistoryChain
  <2>2. ASSUME NEW x \in U, HeaderParent[x] # Nil PROVE HeaderParent[x] \in U
    <3>0. HeaderParent[x] = header[x].parent /\ header[x].parent # Genesis /\ x \in Seen
      BY <1>0, <2>1, <2>2 DEF HeaderParent
    <3>1. CASE x \in History(finalized)
      <4>1. header[x].parent \in History(header[x].parent)
        BY <1>0, <3>0 DEF HistoryStep, Sound, HeadersSound
      <4> QED BY <1>0, <3>0, <3>1, <4>1 DEF HistoryStep, HistoryChain
    <3>2. CASE x \in Anc(b) /\ header[x].parent \in tree
      <4>1. parent[x] = header[x].parent /\ parent[x] # Nil
        BY <1>0, <1>2, <3>2 DEF Sound, TreeSound, TreeForest
      <4> QED BY <1>0, <3>0, <3>2, <4>1, AncestorParent DEF Anc, TreeForest
    <3>3. CASE x \in Anc(b) /\ header[x].parent = finalized
      BY <1>0, <3>0, <3>3 DEF HistoryStep
    <3> QED BY <1>2, <3>1, <3>2, <3>3 DEF Sound, TreeSound
  <2>3. ClosedUnderParent(U, HeaderParent)
    BY <2>2 DEF ClosedUnderParent
  <2>4. History(b) = AncestorsOf(b, Seen, HeaderParent)
    BY <1>0 DEF History
  <2> HIDE DEF U
  <2> QED BY <2>1, <2>3, <2>4 DEF AncestorsOf, U
<1> QED BY <1>1, <1>2, <1>3, <1>6, <1>7, <1>8

(* A header, once seen, does not change, and neither does its history. *)
HistoriesKept ==
    /\ \A c \in Seen : header'[c] = header[c]
    /\ \A c \in Seen \cup {Genesis} : Number(c)' = Number(c)
    /\ \A c \in Seen \cup {Genesis} : History(c)' = History(c)

(* Insert adds a header and changes none. *)
LEMMA InsertKeepsHistories ==
    ASSUME Sound, NEW b \in Blocks, NEW p \in Seen \cup {Genesis}, NEW digest \in Digests,
           p # b, Insert(b, [parent |-> p, number |-> Number(p) + 1, digest |-> digest])
    PROVE  HistoriesKept /\ Seen' = Seen \cup {b}
<1> DEFINE h == [parent |-> p, number |-> Number(p) + 1, digest |-> digest]
<1>0. /\ HistoryForest /\ Seen \subseteq Blocks /\ Nil \notin Blocks /\ Genesis \notin Blocks
      /\ header \in [Blocks -> Header \cup {Nil}]
  BY HistoryIsForest, SeenHeaders DEF Sound, TypeOK
<1>1. h \in Header /\ h # Nil
  BY <1>0, SeenHeaders, NilHeaderAssumption DEF Sound, Header, Number
<1>2. header' = [header EXCEPT ![b] = h] /\ header[b] \in {Nil, h}
  BY DEF Insert
<1>3. Seen' = Seen \cup {b}
  BY <1>0, <1>1, <1>2 DEF Seen
<1>4. ASSUME NEW c \in Seen PROVE header'[c] = header[c]
  BY <1>0, <1>2 DEF Seen
<1>5. ASSUME NEW c \in Seen \cup {Genesis} PROVE Number(c)' = Number(c)
  BY <1>4 DEF Number
<1>6. ASSUME NEW c \in Seen \cup {Genesis} PROVE History(c)' = History(c)
  <2>1. CASE c = Genesis
    BY <2>1 DEF History
  <2>2. CASE c # Genesis /\ b \in Seen
    <3>1. header' = header
      BY <1>0, <1>2, <1>4, <2>2
    <3> QED BY <3>1 DEF History, Seen, HeaderParent
  <2>3. CASE c # Genesis /\ b \notin Seen
    <3>1. \A x \in Seen : HeaderParent'[x] = HeaderParent[x]
      BY <1>0, <1>3, <1>4 DEF HeaderParent
    <3>2. AncestorsOf(c, Seen \cup {b}, HeaderParent') = AncestorsOf(c, Seen, HeaderParent)
      BY <1>0, <2>3, <3>1, AncestorsInsert DEF HistoryForest
    <3> QED BY <1>3, <2>3, <3>2 DEF History
  <2> QED BY <2>1, <2>2, <2>3
<1> QED BY <1>3, <1>4, <1>5, <1>6 DEF HistoriesKept

(* A header is inserted only when it is well-formed. *)
LEMMA InsertHeaders ==
    ASSUME Sound, NEW b \in Blocks, NEW p \in Seen \cup {Genesis}, NEW digest \in Digests,
           p # b, Insert(b, [parent |-> p, number |-> Number(p) + 1, digest |-> digest])
    PROVE  HeadersSound'
<1> DEFINE h == [parent |-> p, number |-> Number(p) + 1, digest |-> digest]
<1>0. HistoriesKept /\ Seen' = Seen \cup {b} /\ HistoryChain
  BY InsertKeepsHistories, HistoriesChain
<1>1. header'[b] = h
  BY DEF Insert, Sound, TypeOK
<1>2. ASSUME NEW q \in Seen \cup {Genesis},
             \A x \in Changing(History(q)) : Trigger(x) <= Number(q)
      PROVE  \A x \in Changing(History(q))' : Trigger(x)' <= Number(q)'
  <2>1. \A x \in History(q) : x \in Seen /\ header'[x] = header[x]
    BY <1>0 DEF HistoriesKept, HistoryChain
  <2>2. History(q)' = History(q) /\ Number(q)' = Number(q)
    BY <1>0 DEF HistoriesKept
  <2>3. Changing(History(q))' = Changing(History(q))
    BY <2>1, <2>2 DEF Changing
  <2>4. \A x \in Changing(History(q)) : Trigger(x)' = Trigger(x)
    BY <2>1 DEF Trigger, Changing
  <2> QED BY <1>2, <2>2, <2>3, <2>4
<1>3. ASSUME NEW c \in Seen'
      PROVE  \E q \in Seen' \cup {Genesis} :
                /\ header'[c].parent = q
                /\ header'[c].number = Number(q)' + 1
                /\ header'[c].digest.change # NoChange =>
                      \A x \in Changing(History(q))' : Trigger(x)' <= Number(q)'
  <2>1. CASE c = b
    <3>1. digest.change # NoChange => \A x \in Changing(History(p)) : Trigger(x) <= Number(p)
      BY DEF Insert, ValidDigest
    <3> p \in Seen' \cup {Genesis}
      BY <1>0
    <3> WITNESS p \in Seen' \cup {Genesis}
    <3> QED BY <1>0, <1>1, <1>2, <2>1, <3>1 DEF HistoriesKept
  <2>2. CASE c \in Seen
    <3>1. PICK q \in Seen \cup {Genesis} :
             /\ header[c].parent = q
             /\ header[c].number = Number(q) + 1
             /\ header[c].digest.change # NoChange =>
                   \A x \in Changing(History(q)) : Trigger(x) <= Number(q)
      BY <2>2 DEF Sound, HeadersSound
    <3>2. header'[c] = header[c] /\ Number(q)' = Number(q)
      BY <1>0, <2>2 DEF HistoriesKept
    <3> HIDE DEF h
    <3> q \in Seen' \cup {Genesis}
      BY <1>0
    <3> WITNESS q \in Seen' \cup {Genesis}
    <3> QED BY <1>0, <1>2, <3>1, <3>2
  <2> QED BY <1>0, <2>1, <2>2
<1> QED BY <1>3 DEF HeadersSound

(* A new block extends the tree below the finalized block. *)
LEMMA InsertSound ==
    ASSUME Sound, NEW b \in Blocks, NEW p \in Seen \cup {Genesis}, NEW digest \in Digests,
           p # b, Insert(b, [parent |-> p, number |-> Number(p) + 1, digest |-> digest])
    PROVE  Sound'
<1> DEFINE h == [parent |-> p, number |-> Number(p) + 1, digest |-> digest]
<1>0. /\ HistoriesKept /\ Seen' = Seen \cup {b} /\ HeadersSound'
      /\ Nil \notin Blocks /\ Genesis \notin Blocks /\ Genesis # Nil
  BY InsertKeepsHistories, InsertHeaders, SeenHeaders DEF Sound
<1>1. /\ header' = [header EXCEPT ![b] = h] /\ header[b] \in {Nil, h} /\ header'[b] = h
      /\ tree' = tree \cup {b} /\ b \notin tree /\ finalized' = finalized
      /\ parent' = [parent EXCEPT ![b] = IF p \in tree THEN p ELSE Nil]
      /\ p \in tree \cup {finalized}
  BY DEF Insert, ParentKnown, Sound, TypeOK
<1>2. /\ Number(p) \in Nat /\ Number(finalized) \in Nat /\ Number(p) >= Number(finalized)
      /\ h.number = Number(p) + 1
  BY <1>1, SeenHeaders DEF Sound, TypeOK, TreeSound, Number
<1>3. b # finalized
  <2>1. ASSUME b = finalized PROVE FALSE
    <3>1. header[b] = h
      BY <1>0, <1>1, <2>1 DEF Sound, TypeOK, Seen
    <3>2. Number(finalized) = h.number
      BY <1>0, <2>1, <3>1 DEF Number
    <3> QED BY <1>2, <3>2
  <2> QED BY <2>1
<1>4. TypeOK'
  <2>1. h \in Header
    BY <1>2, SeenHeaders DEF Sound, Header
  <2>2. IsFiniteSet(tree')
    BY <1>1, FS_AddElement DEF Sound, TypeOK
  <2>3. parent' \in [Blocks -> Blocks \cup {Nil}]
    BY <1>1, SeenHeaders DEF Sound, TypeOK
  <2>4. header' \in [Blocks -> Header \cup {Nil}]
    BY <1>1, <2>1 DEF Sound, TypeOK
  <2> HIDE DEF h
  <2> QED BY <1>0, <1>1, <2>2, <2>3, <2>4 DEF Sound, TypeOK
<1>5. ASSUME NEW c \in tree'
      PROVE  /\ header'[c].parent \in tree' \cup {finalized'}
             /\ parent'[c] = IF header'[c].parent \in tree' THEN header'[c].parent ELSE Nil
             /\ header'[c].number > Number(finalized)'
  <2>0. Number(finalized)' = Number(finalized)
    BY <1>0, <1>1 DEF Sound, TypeOK, HistoriesKept, Number
  <2>1. CASE c = b
    <3>1. header'[c].parent = p /\ header'[c].number = Number(p) + 1
      BY <1>1, <2>1
    <3>2. p \in tree' <=> p \in tree
      BY <1>1
    <3>3. parent'[c] = IF p \in tree THEN p ELSE Nil
      BY <1>1, <2>1 DEF Sound, TypeOK
    <3> HIDE DEF h
    <3> QED BY <1>1, <1>2, <2>0, <3>1, <3>2, <3>3
  <2>2. CASE c \in tree
    <3>1. header'[c] = header[c] /\ parent'[c] = parent[c]
      BY <1>0, <1>1, <2>2 DEF Sound, TypeOK, HistoriesKept
    <3>2. /\ header[c].parent \in tree \cup {finalized}
          /\ parent[c] = IF header[c].parent \in tree THEN header[c].parent ELSE Nil
          /\ header[c].number > Number(finalized)
      BY <2>2 DEF Sound, TreeSound
    <3> HIDE DEF h
    <3>3. header[c].parent # b
      BY <1>1, <1>3, <3>2
    <3> QED BY <1>1, <2>0, <3>1, <3>2, <3>3
  <2> QED BY <1>1, <2>1, <2>2
<1> QED BY <1>0, <1>4, <1>5 DEF Sound, TreeSound

(* Finalizing a block leaves the tree of its strict descendants. *)
LEMMA FinalizeSound ==
    ASSUME Sound, NEW b \in tree, FinalizeBlock(b)
    PROVE  Sound'
<1> DEFINE kept == KeptByPrune(b, tree, parent)
<1>0. /\ TreeForest /\ Nil \notin Blocks /\ Genesis \notin Blocks /\ Seen \subseteq Blocks
      /\ \A c \in Seen : header[c].number \in Nat
      /\ tree \subseteq Seen /\ \A c \in tree : c # Nil /\ c # Genesis
  BY TreeIsForest, SeenHeaders DEF Sound, TypeOK
<1>1. /\ header' = header /\ tree' = kept /\ finalized' = b
      /\ parent' = ParentAfterPrune(b, tree, parent)
  BY DEF FinalizeBlock
<1>2. Seen' = Seen /\ HeadersSound'
  BY Zenon, <1>1 DEF Sound, HeadersSound, Seen, Number, Changing, Trigger, History, HeaderParent
<1>3. kept \subseteq tree \ {b} /\ \A c \in kept : b \in AncestorsOf(c, tree, parent)
  BY DEF KeptByPrune, IsAncestor
<1>4. TypeOK'
  <2>1. IsFiniteSet(kept)
    BY <1>3, FS_Subset DEF Sound, TypeOK
  <2>2. parent' \in [Blocks -> Blocks \cup {Nil}]
    BY <1>0, <1>1 DEF Sound, TypeOK, ParentAfterPrune
  <2> HIDE DEF kept
  <2> QED BY <1>0, <1>1, <1>2, <1>3, <2>1, <2>2 DEF Sound, TypeOK
<1>5. ASSUME NEW c \in kept
      PROVE  /\ header[c].parent \in kept \cup {b}
             /\ parent'[c] = IF header[c].parent \in kept THEN header[c].parent ELSE Nil
             /\ header[c].number > header[b].number
  <2>0. c \in tree /\ c # b /\ b \in AncestorsOf(c, tree, parent) /\ c \in Blocks
    BY <1>0, <1>3
  <2>1. Numbers[b] < Numbers[c]
    BY <1>0, <2>0, StrictAncestorNumber DEF TreeForest
  <2>2. parent[c] # Nil /\ b \in AncestorsOf(parent[c], tree, parent)
    BY <1>0, <2>0, AncestorStep DEF TreeForest
  <2>3. parent[c] = header[c].parent /\ parent[c] \in tree
    BY <1>0, <2>0, <2>2 DEF Sound, TreeSound
  <2>4. parent[c] \in kept \cup {b}
    BY <2>2, <2>3 DEF KeptByPrune, IsAncestor
  <2>5. parent'[c] = IF parent[c] # b THEN parent[c] ELSE Nil
    BY <1>1, <2>0 DEF ParentAfterPrune
  <2>6. header[c].number > header[b].number
    BY <1>0, <2>0, <2>1 DEF Numbers
  <2> QED BY <1>3, <2>3, <2>4, <2>5, <2>6
<1>6. TreeSound'
  <2>1. Number(finalized)' = header[b].number
    BY <1>0, <1>1 DEF Number
  <2> HIDE DEF kept
  <2> QED BY <1>1, <1>5, <2>1 DEF TreeSound
<1> QED BY <1>2, <1>4, <1>6 DEF Sound

(* Sound is an invariant. *)
LEMMA SoundInit == Init => Sound
<1> SUFFICES ASSUME Init PROVE Sound
  OBVIOUS
<1>1. Seen = {} /\ tree = {}
  BY DEF Init, Seen
<1> QED BY <1>1, FS_EmptySet DEF Init, Sound, TypeOK, HeadersSound, TreeSound

(* Steps that leave the tree and the headers alone preserve Sound. *)
LEMMA SoundUnchanged ==
    ASSUME Sound, UNCHANGED <<header, tree, parent, finalized>>
    PROVE  Sound'
  BY Zenon DEF Sound, TypeOK, HeadersSound, TreeSound, Seen, Number, Changing, Trigger,
         History, HeaderParent

(* So does clear. *)
LEMMA ClearSound ==
    ASSUME Sound, Clear
    PROVE  Sound'
<1>1. header' = header /\ tree' = {} /\ finalized' = finalized
      /\ parent' = [b \in Blocks |-> Nil]
  BY DEF Clear
<1>2. Seen' = Seen /\ HeadersSound'
  BY Zenon, <1>1 DEF Sound, HeadersSound, Seen, Number, Changing, Trigger, History, HeaderParent
<1> QED BY <1>1, <1>2, FS_EmptySet DEF Sound, TypeOK, TreeSound

(* Every block of the tree descends from the finalized one. *)
LEMMA SoundIrrevocable == Sound => FinalityIrrevocable
  BY TreeHistory DEF TreeIsSuffix, FinalityIrrevocable

(* Sound is preserved by every operation. *)
LEMMA NextSound == Sound /\ [Next]_vars => Sound'
<1> SUFFICES ASSUME Sound, [Next]_vars PROVE Sound'
  OBVIOUS
<1>1. ASSUME NEW b \in Blocks, NEW p \in Blocks \cup {Genesis}, NEW digest \in Digests,
             p # b, p = Genesis \/ p \in Seen,
             Insert(b, [parent |-> p, number |-> Number(p) + 1, digest |-> digest])
      PROVE  Sound'
  BY <1>1, InsertSound
<1>2. CASE Clear
  BY <1>2, ClearSound
<1>3. ASSUME NEW b \in Blocks, SetFinalizedBlock(b) \/ VerifyJustification(b)
      PROVE  Sound'
  <2>1. b \in tree /\ FinalizeBlock(b)
    BY <1>3 DEF SetFinalizedBlock, VerifyJustification
  <2> QED BY <2>1, FinalizeSound
<1>4. CASE UNCHANGED vars
  BY <1>4, SoundUnchanged DEF vars
<1>5. ASSUME NEW b \in Blocks, VerifyJustificationPanics(b) PROVE Sound'
  BY <1>5, SoundUnchanged DEF VerifyJustificationPanics
<1> QED BY Zenon, <1>1, <1>2, <1>3, <1>4, <1>5 DEF Next

(* Sound is an invariant. *)
LEMMA SoundInvariance == Spec => []Sound
  BY SoundInit, NextSound, PTL DEF Spec

(* Whatever blocks are inserted, finalized and cleared, every block of the  *)
(* tree descends from the finalized block.                                  *)
THEOREM Irrevocable == Spec => []FinalityIrrevocable
<1>1. Sound => FinalityIrrevocable
  BY SoundIrrevocable
<1> QED BY <1>1, SoundInvariance, PTL

(* set_finalized_block and the justifications only ever replace the         *)
(* finalized block by one of its descendants.                               *)
FinalityAdvances == finalized \in History(finalized') \cup {Genesis, finalized'}

(* Finality is never undone. *)
THEOREM FinalityNeverUndone == Spec => [][FinalityAdvances]_vars
<1>1. ASSUME Sound, [Next]_vars PROVE [FinalityAdvances]_vars
  <2>1. CASE finalized' = finalized
    BY <2>1 DEF FinalityAdvances
  <2>2. ASSUME NEW b \in tree, FinalizeBlock(b) PROVE FinalityAdvances
    <3>1. TreeIsSuffix /\ HistoryStep /\ tree \subseteq Seen
      BY <1>1, TreeHistory, HistoriesStep DEF Sound, TypeOK
    <3>2. finalized \in History(b) \cup {Genesis}
      BY <3>1 DEF TreeIsSuffix, HistoryStep
    <3>3. finalized' = b
      BY <2>2 DEF FinalizeBlock
    <3> QED BY <3>2, <3>3 DEF FinalityAdvances
  <2>3. ASSUME NEW b \in Blocks, SetFinalizedBlock(b) \/ VerifyJustification(b)
        PROVE  FinalityAdvances
    BY <2>2, <2>3 DEF SetFinalizedBlock, VerifyJustification
  <2> QED BY <1>1, <2>1, <2>3 DEF Next, Insert, Clear, VerifyJustificationPanics, vars
<1> QED BY <1>1, SoundInvariance, PTL DEF Spec

-----------------------------------------------------------------------------
(* The best block: the heaviest leaf, for every tree and whatever the order *)
(* in which it is scanned.                                                  *)

(* The scan of the tree computes what its recursive definition says. *)
LEMMA ScanDefined ==
    ASSUME NEW n \in Nat, NEW order \in [1..n -> Blocks]
    PROVE  \E f : f = [k \in 0..n |-> IF k = 0 THEN Nil ELSE BetterOf(f[k - 1], order[k])]
<1> DEFINE Scan(f, j) ==
              f = [k \in 0..j |-> IF k = 0 THEN Nil ELSE BetterOf(f[k - 1], order[k])]
           T == {j \in 0..n : ~\E f : Scan(f, j)}
<1>1. SUFFICES ASSUME T # {} PROVE FALSE
  OBVIOUS
<1>2. PICK j \in T : \A k \in T : j <= k
  <2>1. T \in SUBSET Nat
    OBVIOUS
  <2> HIDE DEF T
  <2> QED BY <1>1, <2>1, LeastNumber
<1>3. j \in 0..n
  OBVIOUS
<1>4. CASE j = 0
  <2>1. Scan([k \in 0..0 |-> Nil], 0)
    OBVIOUS
  <2> HIDE DEF Scan
  <2> QED BY <1>4, <2>1
<1>5. CASE j # 0
  <2>1. j - 1 \in 0..n /\ j - 1 \notin T
    <3> HIDE DEF T
    <3> QED BY <1>2, <1>3, <1>5
  <2>2. PICK g : Scan(g, j - 1)
    <3> HIDE DEF Scan
    <3> QED BY <2>1
  <2> DEFINE h == [k \in 0..j |-> IF k = j THEN BetterOf(g[j - 1], order[j]) ELSE g[k]]
             r == [k \in 0..j |-> IF k = 0 THEN Nil ELSE BetterOf(h[k - 1], order[k])]
  <2>3. ASSUME NEW k \in 0..j PROVE h[k] = r[k]
    <3>1. CASE k = j
      <4>1. h[k - 1] = g[j - 1]
        BY <1>3, <1>5, <3>1
      <4> QED BY <1>5, <3>1, <4>1
    <3>2. CASE k # j /\ k = 0
      <4>1. g[0] = Nil
        BY <1>3, <2>2, <3>2
      <4> QED BY <3>2, <4>1
    <3>3. CASE k # j /\ k # 0
      <4>1. h[k - 1] = g[k - 1] /\ k \in 0..(j - 1)
        BY <1>3, <3>3
      <4>2. g[k] = BetterOf(g[k - 1], order[k])
        BY <2>2, <3>3, <4>1
      <4> QED BY <3>3, <4>1, <4>2
    <3> QED BY <3>1, <3>2, <3>3
  <2>4. h = r
    BY <2>3
  <2>5. Scan(h, j)
    BY <2>4
  <2> HIDE DEF Scan
  <2> QED BY <2>5
<1> QED BY <1>4, <1>5

(* So it goes through the blocks one by one. *)
LEMMA ScanSteps ==
    ASSUME NEW n \in Nat, NEW order \in [1..n -> Blocks]
    PROVE  \E f : /\ Scanned(order) = f[n]
                  /\ f[0] = Nil
                  /\ \A k \in 1..n : f[k] = BetterOf(f[k - 1], order[k])
<1>1. Len(order) = n
  OBVIOUS
<1> DEFINE F(f) == f = [k \in 0..n |-> IF k = 0 THEN Nil ELSE BetterOf(f[k - 1], order[k])]
           best == CHOOSE f : F(f)
<1>2. F(best)
  <2>1. \E f : F(f)
    BY ScanDefined
  <2> HIDE DEF F
  <2> QED BY <2>1
<1>3. Scanned(order) = best[n]
  BY <1>1 DEF Scanned
<1>4. best[0] = Nil /\ \A k \in 1..n : best[k] = BetterOf(best[k - 1], order[k])
  <2> HIDE DEF best
  <2> QED BY <1>2
<1> QED BY Zenon, <1>3, <1>4

(* Primary slot claims are counted without overlap. *)
LEMMA ScoreUnion ==
    ASSUME NEW S, NEW T, IsFiniteSet(S), IsFiniteSet(T), S \cap T = {}
    PROVE  Score(S \cup T) = Score(S) + Score(T) /\ Score(S) \in Nat /\ Score(T) \in Nat
<1> DEFINE P(U) == {b \in U : header[b].digest.primary}
<1>0. /\ Score(S) = Cardinality(P(S)) /\ Score(T) = Cardinality(P(T))
      /\ Score(S \cup T) = Cardinality(P(S \cup T))
  BY DEF Score
<1>1. IsFiniteSet(P(S)) /\ IsFiniteSet(P(T))
  BY FS_Subset
<1>2. P(S \cup T) = P(S) \cup P(T) /\ P(S) \cap P(T) = {}
  OBVIOUS
<1> HIDE DEF P
<1>3. Cardinality(P(S) \cup P(T)) = Cardinality(P(S)) + Cardinality(P(T)) - Cardinality({})
  BY <1>1, <1>2, FS_Union
<1>4. Cardinality(P(S)) \in Nat /\ Cardinality(P(T)) \in Nat /\ Cardinality({}) = 0
  BY <1>1, FS_CardinalityType, FS_EmptySet
<1>5. Score(S \cup T) = Cardinality(P(S) \cup P(T))
  BY Zenon, <1>0, <1>2
<1>6. Score(S \cup T) = Score(S) + Score(T)
  BY <1>0, <1>3, <1>4, <1>5
<1> QED BY <1>0, <1>4, <1>6

(* What is above the common ancestor counts on both sides or on neither. *)
LEMMA ScoreDifferences ==
    ASSUME NEW S, NEW T, IsFiniteSet(S), IsFiniteSet(T)
    PROVE  /\ Score(S) \in Nat /\ Score(T) \in Nat
           /\ Score(S \ T) \in Nat /\ Score(T \ S) \in Nat
           /\ Score(S) - Score(T) = Score(S \ T) - Score(T \ S)
<1>1. IsFiniteSet(S \ T) /\ IsFiniteSet(T \ S) /\ IsFiniteSet(S \cap T)
  BY FS_Subset
<1>2. /\ S = (S \ T) \cup (S \cap T) /\ (S \ T) \cap (S \cap T) = {}
      /\ T = (T \ S) \cup (S \cap T) /\ (T \ S) \cap (S \cap T) = {}
  OBVIOUS
<1>3. /\ Score((S \ T) \cup (S \cap T)) = Score(S \ T) + Score(S \cap T)
      /\ Score(S \ T) \in Nat /\ Score(S \cap T) \in Nat
  BY <1>1, <1>2, ScoreUnion
<1>4. /\ Score((T \ S) \cup (S \cap T)) = Score(T \ S) + Score(S \cap T)
      /\ Score(T \ S) \in Nat
  BY Zenon, <1>1, <1>2, ScoreUnion
<1>5. /\ Score(S) = Score(S \ T) + Score(S \cap T)
      /\ Score(T) = Score(T \ S) + Score(S \cap T)
  BY <1>2, <1>3, <1>4
<1> QED BY <1>3, <1>4, <1>5

(* The blocks above a new child of p. *)
Above(p) == IF p = Nil THEN {} ELSE Anc(p)
(* What a new block adds to the claims of its chain. *)
Claim(digest) == IF digest.primary THEN 1 ELSE 0

(* is_better_block compares whole chains. *)
LEMMA BetterMeans ==
    ASSUME Sound, NEW old \in tree, NEW p \in tree \cup {Nil}, NEW digest
    PROVE  /\ IsBetterBlock(old, p, digest) <=>
                 old \in Above(p) \/ Score(Above(p)) + Claim(digest) > Score(Anc(old))
           /\ Score(Anc(old)) \in Nat /\ Score(Above(p)) \in Nat
           /\ IsFiniteSet(Above(p)) /\ IsFiniteSet(Anc(old))
<1>1. IsFiniteSet(Anc(old)) /\ IsFiniteSet(Above(p))
  <2>1. \A c \in tree : Anc(c) \in SUBSET tree /\ IsFiniteSet(tree)
    BY DEF Anc, AncestorsOf, Sound, TypeOK
  <2> QED BY <2>1, FS_Subset, FS_EmptySet DEF Above
<1>2. /\ Score(Anc(old)) \in Nat /\ Score(Above(p)) \in Nat
      /\ Score(Above(p) \ Anc(old)) \in Nat /\ Score(Anc(old) \ Above(p)) \in Nat
      /\ Score(Above(p)) - Score(Anc(old))
            = Score(Above(p) \ Anc(old)) - Score(Anc(old) \ Above(p))
  BY <1>1, ScoreDifferences
<1>3. Claim(digest) \in Nat
  BY DEF Claim
<1>4. IsBetterBlock(old, p, digest) <=>
         \/ old \in Above(p)
         \/ Score(Above(p) \ Anc(old)) + Claim(digest) > Score(Anc(old) \ Above(p))
  BY DEF IsBetterBlock, Above, Claim
<1>5. (Score(Above(p) \ Anc(old)) + Claim(digest) > Score(Anc(old) \ Above(p)))
         <=> (Score(Above(p)) + Claim(digest) > Score(Anc(old)))
  BY <1>2, <1>3
<1> QED BY <1>1, <1>2, <1>4, <1>5

(* A block's chain is the block and what is above it. *)
LEMMA AncScore ==
    ASSUME Sound, NEW b \in tree
    PROVE  /\ parent[b] \in tree \cup {Nil}
           /\ Anc(b) = {b} \cup Above(parent[b]) /\ b \notin Above(parent[b])
           /\ Score(Anc(b)) = Score(Above(parent[b])) + Claim(header[b].digest)
           /\ Score(Anc(b)) \in Nat
<1>0. TreeForest /\ parent[b] \in tree \cup {Nil} /\ tree \subseteq Seen
  BY TreeIsForest DEF TreeForest, ParentsPresent, ClosedUnderParent, Sound, TypeOK
<1>1. Anc(b) = {b} \cup Above(parent[b])
  <2>1. b \in Anc(b)
    BY AncestorSelf DEF Anc
  <2>2. ASSUME NEW a \in Anc(b), a # b PROVE a \in Above(parent[b])
    BY <1>0, <2>2, AncestorStep DEF Anc, Above, TreeForest
  <2>3. ASSUME NEW a \in Above(parent[b]) PROVE a \in Anc(b)
    BY <1>0, <2>3, AncestorOfParent DEF Anc, Above
  <2> QED BY <2>1, <2>2, <2>3
<1>2. b \notin Above(parent[b])
  <2>1. ASSUME parent[b] # Nil, b \in Anc(parent[b]) PROVE FALSE
    <3>1. parent[b] \in tree /\ parent[b] \in Anc(b)
      BY <1>0, <2>1, AncestorSelf, AncestorParent DEF Anc, TreeForest
    <3>2. parent[b] = b
      BY <1>0, <2>1, <3>1, AncestorAntisymmetric DEF Anc, TreeForest
    <3>3. Numbers[b] \in Nat /\ Numbers[b] = Numbers[parent[b]] + 1
      BY <1>0, <2>1 DEF TreeForest, Numbered
    <3> QED BY <3>2, <3>3
  <2> QED BY <2>1 DEF Above
<1>3. IsFiniteSet(Above(parent[b])) /\ IsFiniteSet({b}) /\ Score(Above(parent[b])) \in Nat
  BY Zenon, <1>0, BetterMeans, FS_Singleton
<1>4. Score({b} \cup Above(parent[b])) = Score({b}) + Score(Above(parent[b]))
  BY <1>2, <1>3, ScoreUnion
<1>5. Score({b}) = Claim(header[b].digest)
  <2>1. CASE header[b].digest.primary
    <3>1. {c \in {b} : header[c].digest.primary} = {b}
      BY <2>1
    <3> QED BY Zenon, <2>1, <3>1, FS_Singleton DEF Score, Claim
  <2>2. CASE ~header[b].digest.primary
    <3>1. {c \in {b} : header[c].digest.primary} = {}
      BY <2>2
    <3> QED BY <2>2, <3>1, FS_EmptySet DEF Score, Claim
  <2>3. header[b].digest.primary \in BOOLEAN
    BY <1>0, SeenHeaders DEF Sound
  <2> QED BY <2>1, <2>2, <2>3
<1>6. Claim(header[b].digest) \in Nat
  BY DEF Claim
<1> QED BY <1>0, <1>1, <1>2, <1>3, <1>4, <1>5, <1>6

(* A longer chain does not have fewer claims. *)
LEMMA ScoreAbove ==
    ASSUME Sound, NEW p \in tree \cup {Nil}, NEW a \in Above(p)
    PROVE  /\ a \in tree /\ Anc(a) \subseteq Above(p)
           /\ Score(Anc(a)) <= Score(Above(p))
<1>1. a \in tree /\ Anc(a) \subseteq Above(p) /\ p \in tree
  BY AncestorTransitive DEF Above, Anc, AncestorsOf
<1>2. /\ Score(Anc(a)) \in Nat /\ Score(Above(p)) \in Nat
      /\ IsFiniteSet(Above(p)) /\ IsFiniteSet(Anc(a))
  BY <1>1, BetterMeans
<1>3. /\ Score(Above(p) \ Anc(a)) \in Nat
      /\ Score(Above(p)) - Score(Anc(a)) = Score(Above(p) \ Anc(a)) - Score(Anc(a) \ Above(p))
  BY <1>2, ScoreDifferences
<1>4. Score(Anc(a) \ Above(p)) = 0
  <2>1. Anc(a) \ Above(p) = {}
    BY <1>1
  <2>2. {b \in {} : header[b].digest.primary} = {}
    OBVIOUS
  <2> QED BY <2>1, <2>2, FS_EmptySet DEF Score
<1> QED BY <1>1, <1>2, <1>3, <1>4

(* m is the heaviest of the blocks of S, and none of them descends from it. *)
Heaviest(m, S) ==
    m \in S /\ \A c \in S : Score(Anc(c)) <= Score(Anc(m)) /\ (m \in Anc(c) => m = c)

(* The better of a new block and of the heaviest of the others. *)
LEMMA BetterIsHeaviest ==
    ASSUME Sound, NEW S \in SUBSET tree, NEW m, Heaviest(m, S), NEW b \in tree
    PROVE  Heaviest(BetterOf(m, b), S \cup {b})
<1>0. m \in tree /\ m # Nil
  BY SeenHeaders DEF Heaviest, Sound, TypeOK
<1>1. \A c \in tree : /\ parent[c] \in tree \cup {Nil}
                      /\ Anc(c) = {c} \cup Above(parent[c])
                      /\ c \notin Above(parent[c])
                      /\ Score(Anc(c)) \in Nat
                      /\ Score(Anc(c)) = Score(Above(parent[c])) + Claim(header[c].digest)
  BY AncScore
<1>2. \A c \in S : m \notin Above(parent[c])
  BY <1>1 DEF Heaviest
<1>3. IsBetterBlock(m, parent[b], header[b].digest)
         <=> m \in Above(parent[b]) \/ Score(Anc(b)) > Score(Anc(m))
  BY <1>0, <1>1, BetterMeans
<1>4. CASE IsBetterBlock(m, parent[b], header[b].digest)
  <2>1. BetterOf(m, b) = b
    BY <1>4 DEF BetterOf
  <2>2. Score(Anc(b)) >= Score(Anc(m))
    <3>1. CASE m \in Above(parent[b])
      <4>1. Score(Anc(m)) <= Score(Above(parent[b]))
        BY <1>1, <3>1, ScoreAbove
      <4>2. Score(Above(parent[b])) \in Nat /\ Claim(header[b].digest) \in Nat
        BY <1>0, <1>1, BetterMeans DEF Claim
      <4> QED BY <1>0, <1>1, <4>1, <4>2
    <3>2. CASE Score(Anc(b)) > Score(Anc(m))
      BY <1>0, <1>1, <3>2
    <3> QED BY <1>3, <1>4, <3>1, <3>2
  <2>3. ASSUME NEW c \in S \cup {b} PROVE Score(Anc(c)) <= Score(Anc(b))
    <3>1. CASE c \in S
      BY <1>0, <1>1, <2>2, <3>1 DEF Heaviest
    <3> QED BY <1>1, <3>1
  <2>4. ASSUME NEW c \in S \cup {b}, b \in Above(parent[c]) PROVE FALSE
    <3>1. c \in S /\ c \in tree
      BY <1>1, <2>4
    <3>2. Anc(b) \subseteq Above(parent[c]) /\ Score(Anc(b)) <= Score(Above(parent[c]))
      BY <1>1, <2>4, <3>1, ScoreAbove
    <3>3. CASE m \in Above(parent[b])
      BY <1>1, <1>2, <3>1, <3>2, <3>3
    <3>4. CASE Score(Anc(b)) > Score(Anc(m))
      <4>1. Score(Above(parent[c])) \in Nat /\ Claim(header[c].digest) \in Nat
        BY <1>0, <1>1, <3>1, BetterMeans DEF Claim
      <4>2. Score(Anc(b)) <= Score(Anc(c)) /\ Score(Anc(c)) <= Score(Anc(m))
        BY <1>1, <3>1, <3>2, <4>1 DEF Heaviest
      <4> QED BY <1>0, <1>1, <3>1, <3>4, <4>2
    <3> QED BY <1>3, <1>4, <3>3, <3>4
  <2> QED BY <1>1, <2>1, <2>3, <2>4 DEF Heaviest
<1>5. CASE ~IsBetterBlock(m, parent[b], header[b].digest)
  <2>1. BetterOf(m, b) = m
    BY <1>0, <1>5 DEF BetterOf
  <2>2. m \notin Above(parent[b]) /\ Score(Anc(b)) <= Score(Anc(m))
    BY <1>0, <1>1, <1>3, <1>5
  <2> QED BY <1>1, <2>1, <2>2 DEF Heaviest
<1> QED BY <1>4, <1>5

(* Whatever the order of the scan, its result is the heaviest block. *)
LEMMA ScanIsHeaviest ==
    ASSUME Sound, NEW kept \in SUBSET tree, NEW order \in Orders(kept)
    PROVE  IF kept = {} THEN Scanned(order) = Nil ELSE Heaviest(Scanned(order), kept)
<1> DEFINE n == Cardinality(kept)
           Upto(k) == {order[j] : j \in 1..k}
<1>0. IsFiniteSet(kept) /\ n \in Nat /\ tree \subseteq Blocks
  BY FS_Subset, FS_CardinalityType, SeenHeaders DEF Sound, TypeOK
<1>1. order \in [1..n -> kept] /\ \A j, k \in 1..n : order[j] = order[k] => j = k
  BY DEF Orders
<1>2. Upto(n) = kept
  <2>1. order \in Injection(1..n, kept)
    BY <1>1 DEF Injection, IsInjective
  <2>2. Cardinality(1..n) = n
    <3> HIDE DEF n
    <3>1. Cardinality(1..n) = IF 1 > n THEN 0 ELSE n - 1 + 1
      BY <1>0, 1 \in Int, n \in Int, FS_Interval
    <3> QED BY <1>0, <3>1
  <2>3. order \in Surjection(1..n, kept)
    BY <1>0, <2>1, <2>2, FS_Injection
  <2> QED BY <2>3 DEF Surjection
<1> HIDE DEF n
<1>3. PICK f : /\ Scanned(order) = f[n]
               /\ f[0] = Nil
               /\ \A k \in 1..n : f[k] = BetterOf(f[k - 1], order[k])
  BY <1>0, <1>1, ScanSteps
<1> DEFINE T == {k \in 1..n : ~Heaviest(f[k], Upto(k))}
<1>4. ASSUME NEW k \in T, \A j \in T : k <= j PROVE FALSE
  <2>0. /\ k \in 1..n /\ ~Heaviest(f[k], Upto(k))
        /\ order[k] \in tree /\ f[k] = BetterOf(f[k - 1], order[k])
    BY <1>0, <1>1, <1>3
  <2>1. CASE k = 1
    <3>1. f[k] = order[k]
      BY <1>3, <2>0, <2>1 DEF BetterOf
    <3>2. Upto(k) = {order[k]}
      BY <2>1
    <3>3. Heaviest(order[k], {order[k]})
      BY <2>0, AncScore DEF Heaviest
    <3> QED BY <2>0, <3>1, <3>2, <3>3
  <2>2. CASE k # 1
    <3>1. k - 1 \in 1..n /\ k - 1 \notin T
      <4> HIDE DEF T
      <4> QED BY <1>0, <1>4, <2>0, <2>2
    <3>2. Heaviest(f[k - 1], Upto(k - 1))
      BY <3>1
    <3>3. Upto(k - 1) \in SUBSET tree
      BY <1>0, <1>1, <3>1
    <3>4. Upto(k) = Upto(k - 1) \cup {order[k]}
      <4>1. 1..k = 1..(k - 1) \cup {k}
        BY <1>0, <2>0
      <4> QED BY <4>1
    <3> HIDE DEF Upto
    <3> QED BY <2>0, <3>2, <3>3, <3>4, BetterIsHeaviest
  <2> QED BY <2>1, <2>2
<1>5. T = {}
  <2>1. T \in SUBSET Nat
    BY <1>0
  <2> HIDE DEF T
  <2> QED BY <1>4, <2>1, LeastNumber
<1>6. CASE kept = {}
  <2>1. n = 0
    BY <1>6, FS_EmptySet DEF n
  <2> QED BY <1>3, <1>6, <2>1
<1>7. CASE kept # {}
  <2>1. n \in 1..n
    <3>1. n # 0
      BY <1>0, <1>7, FS_EmptySet DEF n
    <3> QED BY <1>0, <3>1
  <2>2. Heaviest(f[n], Upto(n))
    BY Zenon, <1>5, <2>1
  <2> QED BY <1>2, <1>3, <1>7, <2>2
<1> QED BY <1>6, <1>7

(* The best block is the heaviest of the tree. *)
BestInv ==
    \E m \in Blocks \cup {Nil} :
        /\ m = currentBest
        /\ IF tree = {} THEN m = Nil ELSE Heaviest(m, tree)

(* That is what the property says. *)
LEMMA BestInvExact == Sound /\ BestInv => BestIsHeaviestLeaf
<1> SUFFICES ASSUME Sound, BestInv, tree # {}
             PROVE  /\ currentBest # Nil
                    /\ \A b \in tree : /\ parent[b] # currentBest
                                       /\ Score(Anc(b)) <= Score(Anc(currentBest))
  BY DEF BestInv, BestIsHeaviestLeaf
<1>1. PICK m \in tree : m = currentBest /\ Heaviest(m, tree)
  BY DEF BestInv, Heaviest
<1>2. m # Nil
  BY SeenHeaders DEF Sound, TypeOK
<1>3. ASSUME NEW b \in tree, parent[b] = m PROVE FALSE
  BY <1>1, <1>2, <1>3, AncScore, AncestorSelf DEF Heaviest, Above, Anc
<1> QED BY <1>1, <1>2, <1>3 DEF Heaviest

(* A new block becomes the best one exactly when it is the heaviest. *)
LEMMA InsertBest ==
    ASSUME Sound, BestInv, NEW b \in Blocks, NEW p \in Seen \cup {Genesis},
           NEW digest \in Digests, p # b,
           Insert(b, [parent |-> p, number |-> Number(p) + 1, digest |-> digest])
    PROVE  BestInv'
<1> DEFINE h == [parent |-> p, number |-> Number(p) + 1, digest |-> digest]
<1>0. PICK q : q = IF p \in tree THEN p ELSE Nil
  OBVIOUS
<1>1. /\ HistoriesKept /\ Sound' /\ TreeForest /\ TreeForest' /\ tree \subseteq Seen
      /\ Nil \notin tree /\ Nil \notin Blocks /\ q \in tree \cup {Nil}
  <2>1. Sound'
    BY InsertSound
  <2>2. TreeForest'
    BY <2>1, TreeIsForest, PTL
  <2> QED BY <1>0, <2>1, <2>2, InsertKeepsHistories, TreeIsForest, SeenHeaders DEF Sound, TypeOK
<1>2. /\ header'[b] = h /\ tree' = tree \cup {b} /\ b \notin tree
      /\ parent' = [parent EXCEPT ![b] = q] /\ parent'[b] = q
      /\ currentBest' = IF currentBest = Nil \/ IsBetterBlock(currentBest, q, digest)
                        THEN b ELSE currentBest
  BY <1>0 DEF Insert, Sound, TypeOK
<1>3. /\ header'[b].digest = digest
      /\ \A c \in tree : header'[c] = header[c] /\ parent'[c] = parent[c] /\ c # b
  BY <1>1, <1>2 DEF HistoriesKept, Sound, TypeOK
<1> HIDE DEF h
<1>4. ASSUME NEW c \in tree
      PROVE  Anc(c)' = Anc(c) /\ Score(Anc(c))' = Score(Anc(c))
  <2>0. /\ ParentsPresent(tree, parent) /\ b \notin tree
        /\ \A x \in tree : parent'[x] = parent[x]
    BY Zenon, <1>1, <1>2, <1>3 DEF TreeForest
  <2>1. AncestorsOf(c, tree \cup {b}, parent') = AncestorsOf(c, tree, parent)
    BY <2>0, <1>4, AncestorsInsert
  <2>2. Anc(c)' = Anc(c) /\ Anc(c) \subseteq tree
    BY Zenon, <1>2, <2>1 DEF Anc, AncestorsOf
  <2> QED BY Zenon, <1>3, <2>2 DEF Score
<1>5. Anc(b)' = {b} \cup Above(q) /\ Above(q) \subseteq tree
  <2>1. AncestorsOf(b, tree \cup {b}, parent')
           = {b} \cup (IF parent'[b] = Nil THEN {} ELSE AncestorsOf(parent'[b], tree, parent))
    <3>1. b # Nil /\ parent'[b] \in tree \cup {Nil}
      BY <1>1, <1>2
    <3>2. /\ ParentsPresent(tree, parent) /\ Nil \notin tree /\ b \notin tree
          /\ \A x \in tree : parent'[x] = parent[x]
      BY Zenon, <1>1, <1>2, <1>3 DEF TreeForest
    <3> QED BY <3>1, <3>2, AncestorsOfLeaf
  <2>2. Anc(b)' = {b} \cup Above(q)
    BY Zenon, <1>2, <2>1 DEF Anc, Above
  <2>3. Above(q) \subseteq tree
    BY DEF Above, Anc, AncestorsOf
  <2> QED BY <2>2, <2>3
<1>6. /\ Score(Anc(b))' = Score(Above(q)) + Claim(digest)
      /\ Score(Above(q)) \in Nat
  <2>1. PICK A : A = Above(q)
    OBVIOUS
  <2>2. IsFiniteSet(A)
    BY <1>5, <2>1, FS_Subset DEF Sound, TypeOK
  <2>3. Score(A) \in Nat
    BY Zenon, <2>1, <2>2, FS_EmptySet, ScoreUnion
  <2>4. {x \in A \cup {b} : header'[x].digest.primary}
           = {x \in A : header[x].digest.primary} \cup (IF digest.primary THEN {b} ELSE {})
    BY <1>3, <1>5, <2>1
  <2>5. Score(Anc(b))' = Cardinality({x \in A \cup {b} : header'[x].digest.primary})
    BY Zenon, <1>5, <2>1 DEF Score
  <2>6. PICK P : P = {x \in A : header[x].digest.primary}
    BY Zenon
  <2>7. IsFiniteSet(P) /\ b \notin P /\ Score(A) = Cardinality(P)
    BY <1>2, <1>5, <2>1, <2>2, <2>6, FS_Subset DEF Score
  <2>8. Cardinality(P \cup {b}) = Cardinality(P) + 1
    BY Zenon, <2>7, FS_AddElement
  <2>9. CASE digest.primary
    <3>1. Score(Anc(b))' = Cardinality(P \cup {b})
      BY Zenon, <2>4, <2>5, <2>6, <2>9
    <3> QED BY <2>1, <2>3, <2>7, <2>8, <2>9, <3>1 DEF Claim
  <2>10. CASE ~digest.primary
    <3>1. Score(Anc(b))' = Cardinality(P)
      BY Zenon, <2>4, <2>5, <2>6, <2>10
    <3> QED BY <2>1, <2>3, <2>7, <2>10, <3>1 DEF Claim
  <2> QED BY <2>9, <2>10
<1>7. Claim(digest) \in Nat
  BY DEF Claim
<1>8. CASE tree = {}
  <2>1. currentBest' = b
    BY <1>2, <1>8 DEF BestInv
  <2>2. tree' = {b} /\ tree' # {}
    BY <1>2, <1>8
  <2>3. Heaviest(b, tree)'
    BY <1>6, <1>7, <2>2 DEF Heaviest
  <2> QED BY <2>1, <2>2, <2>3 DEF BestInv
<1>9. CASE tree # {}
  <2>0. PICK m \in tree : m = currentBest /\ Heaviest(m, tree)
    BY <1>9 DEF BestInv, Heaviest
  <2>1. /\ IsBetterBlock(m, q, digest) <=>
               m \in Above(q) \/ Score(Above(q)) + Claim(digest) > Score(Anc(m))
        /\ Score(Anc(m)) \in Nat
    BY <1>1, BetterMeans
  <2>2. \A c \in tree : Score(Anc(c)) \in Nat /\ c \in Anc(c)
    BY AncScore
  <2>3. CASE IsBetterBlock(m, q, digest)
    <3>1. currentBest' = b
      BY <1>2, <2>0, <2>3
    <3>2. Score(Anc(m)) <= Score(Anc(b))'
      <4>1. CASE m \in Above(q)
        <5>1. Score(Anc(m)) <= Score(Above(q))
          BY <1>1, <4>1, ScoreAbove
        <5> QED BY <1>6, <1>7, <2>1, <5>1
      <4> QED BY <1>6, <1>7, <2>1, <2>3, <4>1
    <3>3. ASSUME NEW c \in tree'
          PROVE  Score(Anc(c))' <= Score(Anc(b))' /\ (b \in Anc(c)' => b = c)
      <4>1. CASE c = b
        BY <1>6, <1>7, <4>1
      <4>2. CASE c \in tree
        <5>1. Score(Anc(c)) <= Score(Anc(m))
          BY <2>0, <4>2 DEF Heaviest
        <5>2. Anc(c) \subseteq tree
          BY DEF Anc, AncestorsOf
        <5>3. b \notin Anc(c)' /\ Score(Anc(c))' = Score(Anc(c))
          BY Zenon, <1>2, <1>4, <4>2, <5>2
        <5>4. Score(Anc(c)) \in Nat /\ Score(Anc(m)) \in Nat /\ Score(Anc(b))' \in Nat
          BY <1>6, <1>7, <2>1, <2>2, <4>2
        <5> QED BY <3>2, <5>1, <5>3, <5>4
      <4> QED BY <1>2, <4>1, <4>2
    <3>4. Heaviest(b, tree)' /\ tree' # {}
      BY <1>2, <3>3 DEF Heaviest
    <3> QED BY <3>1, <3>4 DEF BestInv
  <2>4. CASE ~IsBetterBlock(m, q, digest)
    <3>1. currentBest' = m
      BY <1>1, <1>2, <2>0, <2>4
    <3>2. m \notin Above(q) /\ Score(Anc(b))' <= Score(Anc(m))
      BY <1>6, <1>7, <2>1, <2>4
    <3>3. ASSUME NEW c \in tree'
          PROVE  Score(Anc(c))' <= Score(Anc(m))' /\ (m \in Anc(c)' => m = c)
      <4>1. CASE c = b
        BY <1>2, <1>4, <1>5, <3>2, <4>1
      <4>2. CASE c \in tree
        BY <1>4, <2>0, <4>2 DEF Heaviest
      <4> QED BY <1>2, <4>1, <4>2
    <3>4. Heaviest(m, tree)' /\ tree' # {} /\ m \in Blocks
      BY Zenon, <1>1, <1>2, <3>3, SeenHeaders DEF Heaviest, Sound
    <3> QED BY <3>1, <3>4 DEF BestInv
  <2> QED BY <2>3, <2>4
<1> QED BY <1>8, <1>9

(* Finalizing a block removes the same claims from every chain that stays. *)
LEMMA FinalizeScores ==
    ASSUME Sound, NEW b \in tree, FinalizeBlock(b), NEW c \in KeptByPrune(b, tree, parent)
    PROVE  /\ Anc(c)' = Anc(c) \ Anc(b)
           /\ Score(Anc(b)) \in Nat /\ Score(Anc(c))' \in Nat
           /\ Score(Anc(c)) = Score(Anc(c))' + Score(Anc(b))
<1>0. /\ TreeForest /\ Nil \notin Blocks /\ tree \subseteq Blocks
      /\ header' = header /\ tree' = KeptByPrune(b, tree, parent)
      /\ parent' = ParentAfterPrune(b, tree, parent)
  BY Zenon, TreeIsForest, SeenHeaders DEF TreeForest, FinalizeBlock, Sound
<1>1. c \in tree /\ b \in Anc(c) /\ Anc(b) \subseteq Anc(c)
  BY AncestorTransitive DEF KeptByPrune, IsAncestor, Anc
<1>2. Anc(c)' = Anc(c) \ Anc(b)
  BY <1>0, AncestorsPrune DEF Anc, TreeForest
<1>3. IsFiniteSet(Anc(b)) /\ IsFiniteSet(Anc(c) \ Anc(b))
  <2>1. IsFiniteSet(tree) /\ Anc(b) \in SUBSET tree /\ Anc(c) \ Anc(b) \in SUBSET tree
    BY DEF Sound, TypeOK, Anc, AncestorsOf
  <2> QED BY <2>1, FS_Subset
<1>4. Anc(c) = (Anc(c) \ Anc(b)) \cup Anc(b) /\ (Anc(c) \ Anc(b)) \cap Anc(b) = {}
  BY <1>1
<1>5. /\ Score((Anc(c) \ Anc(b)) \cup Anc(b)) = Score(Anc(c) \ Anc(b)) + Score(Anc(b))
      /\ Score(Anc(c) \ Anc(b)) \in Nat /\ Score(Anc(b)) \in Nat
  BY Zenon, <1>3, <1>4, ScoreUnion
<1>6. Score(Anc(c)) = Score(Anc(c) \ Anc(b)) + Score(Anc(b))
  BY Zenon, <1>4, <1>5
<1>7. Score(Anc(c))' = Score(Anc(c) \ Anc(b))
  BY <1>0, <1>2 DEF Score
<1> QED BY <1>2, <1>5, <1>6, <1>7

(* The heaviest block of the tree that stays is still the heaviest. *)
LEMMA FinalizeBest ==
    ASSUME Sound, BestInv, NEW b \in tree, FinalizeBlock(b)
    PROVE  BestInv'
<1> DEFINE kept == KeptByPrune(b, tree, parent)
<1>0. /\ tree' = kept /\ kept \subseteq tree /\ tree \subseteq Blocks /\ Nil \notin Blocks
      /\ IF KeepsBest(b) THEN UNCHANGED currentBest
         ELSE \E order \in Orders(kept) : currentBest' = Scanned(order)
  BY Zenon, SeenHeaders DEF FinalizeBlock, KeptByPrune, Sound, TypeOK
<1>1. ASSUME NEW m, Heaviest(m, kept) PROVE Heaviest(m, tree)'
  <2>1. m \in kept /\ \A c \in kept : /\ Score(Anc(c)) <= Score(Anc(m))
                                      /\ m \in Anc(c) => m = c
    BY <1>1 DEF Heaviest
  <2>2. ASSUME NEW c \in kept
        PROVE  Score(Anc(c))' <= Score(Anc(m))' /\ (m \in Anc(c)' => m = c)
    <3>1. /\ Anc(c)' = Anc(c) \ Anc(b)
          /\ Score(Anc(b)) \in Nat /\ Score(Anc(c))' \in Nat
          /\ Score(Anc(c)) = Score(Anc(c))' + Score(Anc(b))
      BY FinalizeScores
    <3>2. /\ Score(Anc(m))' \in Nat /\ Score(Anc(m)) = Score(Anc(m))' + Score(Anc(b))
      BY <2>1, FinalizeScores
    <3>3. Score(Anc(c)) <= Score(Anc(m)) /\ (m \in Anc(c) => m = c)
      BY <2>1
    <3> QED BY <3>1, <3>2, <3>3
  <2> HIDE DEF kept
  <2> QED BY <1>0, <2>1, <2>2 DEF Heaviest
<1>2. PICK m \in tree : m = currentBest /\ Heaviest(m, tree)
  BY DEF BestInv, Heaviest
<1>3. CASE KeepsBest(b)
  <2>1. m \in kept
    BY <1>2, <1>3 DEF KeepsBest, KeptByPrune, IsAncestor, Anc
  <2>2. Heaviest(m, kept)
    BY <1>0, <1>2, <2>1 DEF Heaviest
  <2>3. Heaviest(m, tree)' /\ m = currentBest' /\ m \in Blocks /\ tree' # {}
    <3> HIDE DEF kept
    <3> QED BY <1>0, <1>1, <1>2, <1>3, <2>1, <2>2
  <2> QED BY <2>3 DEF BestInv
<1>4. CASE ~KeepsBest(b)
  <2>1. PICK order \in Orders(kept) : currentBest' = Scanned(order)
    BY <1>0, <1>4
  <2>2. IF kept = {} THEN Scanned(order) = Nil ELSE Heaviest(Scanned(order), kept)
    <3> HIDE DEF kept
    <3> QED BY <1>0, ScanIsHeaviest
  <2>3. PICK s : s = Scanned(order)
    OBVIOUS
  <2> HIDE DEF kept
  <2>4. CASE kept = {}
    BY <1>0, <2>1, <2>2, <2>3, <2>4 DEF BestInv
  <2>5. CASE kept # {}
    <3>1. Heaviest(s, kept) /\ s \in Blocks /\ s = currentBest'
      BY <1>0, <2>1, <2>2, <2>3, <2>5 DEF Heaviest
    <3>2. Heaviest(s, tree)'
      BY <1>1, <3>1
    <3> QED BY <1>0, <2>5, <3>1, <3>2 DEF BestInv
  <2> QED BY <2>4, <2>5
<1> QED BY <1>3, <1>4

(* It is preserved by every operation. *)
LEMMA NextBestInv == Sound /\ BestInv /\ [Next]_vars => BestInv'
<1> SUFFICES ASSUME Sound, BestInv, [Next]_vars PROVE BestInv'
  OBVIOUS
<1>1. ASSUME NEW b \in Blocks, NEW p \in Blocks \cup {Genesis}, NEW digest \in Digests,
             p # b, p = Genesis \/ p \in Seen,
             Insert(b, [parent |-> p, number |-> Number(p) + 1, digest |-> digest])
      PROVE  BestInv'
  BY <1>1, InsertBest
<1>2. ASSUME NEW b \in Blocks, SetFinalizedBlock(b) \/ VerifyJustification(b)
      PROVE  BestInv'
  <2>1. b \in tree /\ FinalizeBlock(b)
    BY <1>2 DEF SetFinalizedBlock, VerifyJustification
  <2> QED BY <2>1, FinalizeBest
<1>3. CASE Clear
  BY <1>3 DEF Clear, BestInv
<1>4. ASSUME UNCHANGED <<header, tree, parent, consensus, currentBest, finalized,
                         finalizedConsensus>>
      PROVE  BestInv'
  BY <1>4 DEF BestInv, Heaviest, Score, Anc
<1>5. CASE UNCHANGED vars
  BY <1>4, <1>5 DEF vars
<1>6. ASSUME NEW b \in Blocks, VerifyJustificationPanics(b) PROVE BestInv'
  BY <1>4, <1>6 DEF VerifyJustificationPanics
<1> QED BY Zenon, <1>1, <1>2, <1>3, <1>5, <1>6 DEF Next

(* The best block is a leaf with at least as many primary slot claims as any *)
(* other block, whatever the order of the scan that replaces it.            *)
THEOREM BestBlock == Spec => []BestIsHeaviestLeaf
<1>1. Sound /\ BestInv => BestIsHeaviestLeaf
  BY BestInvExact
<1>2. Init => BestInv
  BY DEF Init, BestInv
<1> QED BY <1>1, <1>2, NextBestInv, SoundInvariance, PTL DEF Spec

=============================================================================
