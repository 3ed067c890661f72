--------------------------- MODULE ConsensusProofs --------------------------
(***************************************************************************)
(* Proofs about BlocksTree, continued: the Babe epochs and, when no block  *)
(* is finalized while a change of authorities waits, the GrandPa           *)
(* authorities are those that the chain announces.                         *)
(***************************************************************************)
EXTENDS BlocksTreeProofs

(* Deepest is the block with the greatest number, when there is only one. *)
LEMMA DeepestUnique ==
    ASSUME NEW S, NEW m \in S, \A c \in S : header[c].number \in Nat,
           \A c \in S \ {m} : header[c].number < header[m].number
    PROVE  Deepest(S) = m
<1> DEFINE P(b) == \A c \in S : header[c].number <= header[b].number
<1>1. P(m)
  OBVIOUS
<1>2. \A b \in S : P(b) => b = m
  OBVIOUS
<1>3. Deepest(S) \in S /\ P(Deepest(S))
  <2> HIDE DEF P
  <2>1. (CHOOSE b \in S : P(b)) \in S /\ P(CHOOSE b \in S : P(b))
    BY <1>1
  <2> QED BY <2>1 DEF P, Deepest
<1> QED BY <1>2, <1>3

(* The same in the state after a step. *)
LEMMA DeepestUniqueNext ==
    ASSUME NEW S, NEW m \in S, \A c \in S : header'[c].number \in Nat,
           \A c \in S \ {m} : header'[c].number < header'[m].number
    PROVE  Deepest(S)' = m
<1> DEFINE P(b) == \A c \in S : header'[c].number <= header'[b].number
<1>1. P(m)
  OBVIOUS
<1>2. \A b \in S : P(b) => b = m
  OBVIOUS
<1>3. Deepest(S)' \in S /\ P(Deepest(S)')
  <2> HIDE DEF P
  <2>1. (CHOOSE b \in S : P(b)) \in S /\ P(CHOOSE b \in S : P(b))
    BY <1>1
  <2> QED BY <2>1 DEF P, Deepest
<1> QED BY <1>2, <1>3

(* A set of blocks of one chain has a deepest one. *)
LEMMA DeepestExists ==
    ASSUME Sound, NEW b \in Seen \cup {Genesis}, NEW S \in SUBSET History(b), S # {}
    PROVE  \E m \in S : /\ Deepest(S) = m
                        /\ \A c \in S : header[c].number \in Nat
                        /\ \A c \in S \ {m} : header[c].number < header[m].number
<1>1. /\ HistoryForest /\ HistoryChain /\ Seen \subseteq Blocks
      /\ \A c \in Seen : header[c].number \in Nat
  BY HistoryIsForest, HistoriesChain, SeenHeaders DEF Sound
<1>2. b \in Seen /\ History(b) = AncestorsOf(b, Seen, HeaderParent)
  BY DEF History
<1>3. PICK m \in S : \A c \in S \ {m} : Numbers[c] < Numbers[m]
  BY <1>1, <1>2, AncestorDeepest DEF HistoryForest
<1>4. \A c \in S : c \in Seen /\ header[c].number \in Nat /\ Numbers[c] = header[c].number
  BY <1>1 DEF HistoryChain, Numbers
<1>5. \A c \in S \ {m} : header[c].number < header[m].number
  BY <1>3, <1>4
<1>6. Deepest(S) = m
  BY <1>4, <1>5, DeepestUnique
<1> QED BY <1>4, <1>5, <1>6

(* It stays the deepest one when blocks are added elsewhere. *)
LEMMA DeepestKept ==
    ASSUME Sound, HistoriesKept, NEW b \in Seen \cup {Genesis},
           NEW S \in SUBSET History(b), S # {}
    PROVE  Deepest(S)' = Deepest(S)
<1>1. PICK m \in S : /\ Deepest(S) = m
                     /\ \A c \in S : header[c].number \in Nat
                     /\ \A c \in S \ {m} : header[c].number < header[m].number
  BY DeepestExists
<1>2. \A c \in S : header'[c] = header[c]
  BY HistoriesChain DEF HistoriesKept, HistoryChain
<1>3. Deepest(S)' = m
  BY <1>1, <1>2, DeepestUniqueNext
<1> QED BY <1>1, <1>3

(* The epochs that the chain of a block announces. *)
Announced(b) == {x \in History(b) : header[x].digest.epoch}

(* They change with the block only when it announces one. *)
EpochsStep ==
    \A b \in Seen : \A p \in Seen \cup {Genesis} : \A digest \in Digests :
        header[b].parent = p /\ header[b].digest = digest =>
            EpochsOf(b) = NextConsensus(b, digest, EpochsOf(p))

(* Sound makes them change that way. *)
LEMMA EpochsByStep == Sound => EpochsStep
<1> SUFFICES ASSUME Sound, NEW b \in Seen, NEW p \in Seen \cup {Genesis}, header[b].parent = p,
                    NEW digest \in Digests, header[b].digest = digest
             PROVE  EpochsOf(b) = NextConsensus(b, digest, EpochsOf(p))
  BY DEF EpochsStep
<1>0. /\ HistoryStep /\ HistoryChain /\ digest.epoch \in BOOLEAN
      /\ \A c \in Seen : header[c].number \in Nat
  BY HistoriesStep, HistoriesChain, SeenHeaders DEF Sound
<1>1. History(b) = {b} \cup History(p) /\ b \notin History(p)
  BY <1>0 DEF HistoryStep
<1>2. \A c \in History(p) : c \in Seen /\ header[c].number < header[b].number
  <2>1. header[b].number = Number(p) + 1 /\ Number(p) \in Nat
    BY SeenHeaders DEF Sound, HeadersSound, Number
  <2> QED BY <1>0, <2>1 DEF HistoryChain
<1>3. CASE ~digest.epoch
  <2>1. Announced(b) = Announced(p)
    BY <1>1, <1>3 DEF Announced
  <2> QED BY Zenon, <1>3, <2>1 DEF EpochsOf, NextConsensus, Announced
<1>4. CASE digest.epoch
  <2>1. Announced(b) = {b} \cup Announced(p) /\ b \notin Announced(p)
    BY <1>1, <1>4 DEF Announced
  <2>2. Deepest(Announced(b)) = b
    <3>1. /\ \A c \in Announced(b) : header[c].number \in Nat
          /\ \A c \in Announced(b) \ {b} : header[c].number < header[b].number
      BY <1>0, <1>2, <2>1 DEF Announced
    <3> QED BY Zenon, <2>1, <3>1, DeepestUnique
  <2>3. EpochsOf(b) = [current |-> Latest(Announced(p)), next |-> b]
    <3>1. Announced(b) \ {Deepest(Announced(b))} = Announced(p)
      BY <2>1, <2>2
    <3> QED BY Zenon, <2>1, <2>2, <3>1 DEF EpochsOf, Announced
  <2>4. EpochsOf(p).next = Latest(Announced(p))
    BY DEF EpochsOf, Announced, Latest
  <2> QED BY <1>4, <2>3, <2>4 DEF NextConsensus
<1> QED BY <1>0, <1>3, <1>4

(* The epochs of a block do not change when other blocks are added. *)
LEMMA EpochsKept ==
    ASSUME Sound, HistoriesKept, NEW b \in Seen \cup {Genesis}
    PROVE  EpochsOf(b)' = EpochsOf(b)
<1>0. PICK A, E : A = Announced(b) /\ E = A \ {Deepest(A)}
  BY Zenon
<1>1. History(b)' = History(b) /\ \A x \in History(b) : header'[x] = header[x]
  BY HistoriesChain DEF HistoriesKept, HistoryChain
<1>2. Announced(b)' = A
  BY <1>0, <1>1 DEF Announced
<1>3. A \in SUBSET History(b) /\ E \in SUBSET History(b)
  BY <1>0 DEF Announced
<1>4. CASE A = {}
  BY <1>0, <1>2, <1>4 DEF EpochsOf, Announced
<1>5. CASE A # {}
  <2>1. Deepest(A)' = Deepest(A)
    BY <1>3, <1>5, DeepestKept
  <2>2. Latest(E)' = Latest(E)
    <3>1. CASE E = {}
      BY <3>1 DEF Latest
    <3>2. CASE E # {}
      <4>1. Deepest(E)' = Deepest(E)
        BY <1>3, <3>2, DeepestKept
      <4> QED BY <3>2, <4>1 DEF Latest
    <3> QED BY <3>1, <3>2
  <2>3. EpochsOf(b) = [current |-> Latest(E), next |-> Deepest(A)]
    BY <1>0, <1>5 DEF EpochsOf, Announced
  <2>4. EpochsOf(b)' = [current |-> Latest(E)', next |-> Deepest(A)']
    BY Zenon, <1>0, <1>2, <1>5, <2>1 DEF EpochsOf, Announced
  <2> QED BY <2>1, <2>2, <2>3, <2>4
<1> QED BY <1>4, <1>5

(* Only the verification of a new block touches the headers. *)
LEMMA SameHistories ==
    ASSUME header' = header
    PROVE  HistoriesKept /\ Seen' = Seen
  BY DEF HistoriesKept, Seen, Number, History, HeaderParent

(* Babe information is stored for every block, of the tree or not. *)
EpochsInv == EpochsExact /\ consensus = [b \in Blocks |-> consensus[b]]

(* Insert stores the epochs of the new block. *)
LEMMA InsertEpochs ==
    ASSUME Sound, EpochsInv, NEW b \in Blocks, NEW p \in Seen \cup {Genesis},
           NEW digest \in Digests, p # b,
           Insert(b, [parent |-> p, number |-> Number(p) + 1, digest |-> digest])
    PROVE  EpochsInv'
<1> DEFINE h == [parent |-> p, number |-> Number(p) + 1, digest |-> digest]
           q == IF p \in tree THEN p ELSE Nil
<1>0. /\ HistoriesKept /\ Sound' /\ Seen' = Seen \cup {b}
      /\ tree \subseteq Seen /\ finalized \in Seen \cup {Genesis} /\ Nil \notin tree
  BY InsertKeepsHistories, InsertSound, SeenHeaders DEF Sound, TypeOK
<1>1. EpochsStep'
  BY <1>0, EpochsByStep, PTL
<1>2. \A c \in Seen \cup {Genesis} : EpochsOf(c)' = EpochsOf(c)
  BY <1>0, EpochsKept
<1>3. /\ header'[b] = h /\ tree' = tree \cup {b} /\ p \in tree \cup {finalized}
      /\ finalized' = finalized /\ finalizedConsensus' = finalizedConsensus
      /\ consensus' = [consensus EXCEPT ![b] = NextConsensus(b, digest, ParentConsensus(q))]
      /\ b \notin tree
  BY DEF Insert, ParentKnown, Sound, TypeOK
<1>4. ParentConsensus(q) = EpochsOf(p)
  BY <1>0, <1>3 DEF ParentConsensus, EpochsInv, EpochsExact
<1>5. EpochsOf(b)' = NextConsensus(b, digest, EpochsOf(p))
  <2>1. header'[b].parent = p /\ header'[b].digest = digest
    BY <1>3
  <2>2. EpochsOf(b)' = NextConsensus(b, digest, EpochsOf(p)')
    BY <1>0, <1>1, <2>1 DEF EpochsStep
  <2> QED BY <1>2, <2>2
<1>6. /\ consensus'[b] = EpochsOf(b)'
      /\ \A c \in tree : consensus'[c] = consensus[c]
      /\ consensus' = [c \in Blocks |-> consensus'[c]]
  <2>1. consensus'[b] = NextConsensus(b, digest, EpochsOf(p))
    BY <1>3, <1>4 DEF EpochsInv
  <2>2. consensus' = [c \in Blocks |-> consensus'[c]]
    BY <1>3 DEF EpochsInv
  <2> QED BY <1>3, <1>5, <2>1, <2>2 DEF EpochsInv
<1>7. \A c \in tree' : consensus'[c] = EpochsOf(c)'
  BY <1>0, <1>2, <1>3, <1>6 DEF EpochsInv, EpochsExact
<1>8. finalizedConsensus' = EpochsOf(finalized)'
  <2>1. PICK f : f = finalized
    OBVIOUS
  <2>2. EpochsOf(f)' = EpochsOf(f) /\ finalized' = f /\ finalizedConsensus' = EpochsOf(f)
    BY <1>0, <1>2, <1>3, <2>1 DEF EpochsInv, EpochsExact
  <2> QED BY Zenon, <2>2 DEF EpochsOf, History
<1> QED BY <1>6, <1>7, <1>8 DEF EpochsInv, EpochsExact

(* Finalizing a block makes its epochs those of the finalized block. *)
LEMMA FinalizeEpochs ==
    ASSUME Sound, EpochsInv, NEW b \in tree, FinalizeBlock(b)
    PROVE  EpochsInv'
<1>0. /\ header' = header /\ finalized' = b /\ finalizedConsensus' = consensus[b]
      /\ tree' = KeptByPrune(b, tree, parent)
      /\ consensus' = [c \in Blocks |-> IF c \in tree' THEN consensus[c] ELSE Nil]
  BY DEF FinalizeBlock
<1>1. tree' \subseteq tree /\ tree \subseteq Seen /\ tree \subseteq Blocks
  BY <1>0, SeenHeaders DEF KeptByPrune, Sound, TypeOK
<1>2. \A c \in Seen \cup {Genesis} : EpochsOf(c)' = EpochsOf(c)
  BY <1>0, SameHistories, EpochsKept
<1>3. \A c \in tree' : consensus'[c] = EpochsOf(c)'
  BY <1>0, <1>1, <1>2 DEF EpochsInv, EpochsExact
<1>4. finalizedConsensus' = EpochsOf(finalized)'
  <2>1. finalizedConsensus' = EpochsOf(b)'
    BY <1>0, <1>1, <1>2 DEF EpochsInv, EpochsExact
  <2> QED BY <1>0, <2>1 DEF EpochsOf, History
<1> QED BY <1>0, <1>3, <1>4 DEF EpochsInv, EpochsExact

(* The other steps leave the epochs alone. *)
LEMMA OtherEpochs ==
    ASSUME Sound, EpochsInv, header' = header, finalized' = finalized,
           finalizedConsensus' = finalizedConsensus,
           \/ UNCHANGED <<tree, consensus>>
           \/ tree' = {} /\ consensus' = [c \in Blocks |-> Nil]
    PROVE  EpochsInv'
<1>1. \A c \in Seen \cup {Genesis} : EpochsOf(c)' = EpochsOf(c)
  BY SameHistories, EpochsKept
<1>2. finalizedConsensus' = EpochsOf(finalized)'
  <2>1. PICK f : f = finalized
    OBVIOUS
  <2>2. EpochsOf(f)' = EpochsOf(f) /\ finalized' = f /\ finalizedConsensus' = EpochsOf(f)
    BY <1>1, <2>1 DEF EpochsInv, EpochsExact, Sound, TypeOK
  <2> QED BY Zenon, <2>2 DEF EpochsOf, History
<1>3. \A c \in tree' : consensus'[c] = EpochsOf(c)'
  BY <1>1 DEF EpochsInv, EpochsExact, Sound, TypeOK
<1> QED BY <1>2, <1>3 DEF EpochsInv, EpochsExact

(* What the tree knows of the authorities after the finalized block f, when *)
(* no block is finalized while a change waits: every change that was        *)
(* scheduled on its chain has been triggered.                               *)
AuthoritiesAt(f) ==
    /\ scheduled = Nil
    /\ \A x \in Changing(History(f)) : Trigger(x) <= Number(f)
    /\ setId = Cardinality(Changing(History(f)))
    /\ triggered = Latest(Changing(History(f)))

(* The invariant, with the finalized block as a bound variable. *)
AuthorityInv == \A f \in Seen \cup {Genesis} : f = finalized => AuthoritiesAt(f)

(* A step that finalizes nothing preserves it. *)
LEMMA AuthoritiesKept ==
    ASSUME Sound, AuthorityInv, HistoriesKept, Seen \subseteq Seen',
           UNCHANGED <<finalized, finality>>
    PROVE  AuthorityInv'
<1> SUFFICES ASSUME NEW f \in Seen' \cup {Genesis}, f = finalized'
             PROVE  AuthoritiesAt(f)'
  BY DEF AuthorityInv
<1>0. f \in Seen \cup {Genesis} /\ f = finalized /\ AuthoritiesAt(f)
  BY DEF Sound, TypeOK, AuthorityInv
<1>1. /\ History(f)' = History(f) /\ Number(f)' = Number(f)
      /\ \A x \in History(f) : header'[x] = header[x]
  BY <1>0, HistoriesChain DEF HistoriesKept, HistoryChain
<1>2. PICK C : C = Changing(History(f))
  OBVIOUS
<1>3. Changing(History(f))' = C /\ C \in SUBSET History(f)
  BY <1>1, <1>2 DEF Changing
<1>4. \A x \in C : Trigger(x)' = Trigger(x)
  BY <1>1, <1>3 DEF Trigger
<1>5. Latest(C)' = Latest(C)
  <2>1. CASE C = {}
    BY <2>1 DEF Latest
  <2>2. CASE C # {}
    <3>1. Deepest(C)' = Deepest(C)
      BY <1>0, <1>3, <2>2, DeepestKept
    <3> QED BY <2>2, <3>1 DEF Latest
  <2> QED BY <2>1, <2>2
<1>6. Latest(Changing(History(f)))' = Latest(C)'
  BY <1>3 DEF Latest, Deepest
<1>7. UNCHANGED <<setId, triggered, scheduled>>
  BY DEF finality
<1> QED BY <1>0, <1>1, <1>2, <1>3, <1>4, <1>5, <1>6, <1>7 DEF AuthoritiesAt

(* Finalizing a block after which no change waits triggers the changes that *)
(* were scheduled on the way to it.                                         *)
LEMMA FinalizeAuthorities ==
    ASSUME Sound, AuthorityInv, NEW b \in tree, FinalizeBlock(b),
           \A x \in Changing(History(b)) : Trigger(x) <= header[b].number
    PROVE  AuthorityInv'
<1>0. /\ header' = header /\ finalized' = b /\ UpdatedFinality(b)
  BY DEF FinalizeBlock
<1>1. /\ HistoriesKept /\ Seen' = Seen /\ TreeIsSuffix /\ HistoryChain /\ tree \subseteq Seen
      /\ AuthoritiesAt(finalized) /\ finalized \in Seen \cup {Genesis} /\ b # Genesis
      /\ \A c \in Seen : header[c].number \in Nat
      /\ Number(finalized) \in Nat
  BY <1>0, SameHistories, TreeHistory, HistoriesChain, SeenHeaders
  DEF Sound, TypeOK, AuthorityInv, Number
<1> DEFINE new == Changing(Anc(b))
           old == Changing(History(finalized))
           all == Changing(History(b))
<1>2. all = old \cup new /\ old \cap new = {} /\ new \subseteq History(b) /\ all \subseteq History(b)
  BY <1>1 DEF TreeIsSuffix, Changing
<1>3. {x \in new : Trigger(x) > header[b].number} = {}
  <2>1. \A x \in new : x \in all
    BY <1>2
  <2>2. \A x \in all : /\ Trigger(x) \in Nat /\ Trigger(x) <= header[b].number
                       /\ header[b].number \in Nat
    BY <1>1, SeenHeaders DEF Changing, HistoryChain, Trigger, Sound
  <2> HIDE DEF new, all
  <2> QED BY <2>1, <2>2
<1>4. /\ scheduled' = Nil
      /\ triggered' = IF new = {} THEN triggered ELSE Deepest(new)
      /\ setId' = setId + Cardinality(new)
  <2>1. new \ {x \in new : Trigger(x) > header[b].number} = new
    BY <1>3
  <2> QED BY <1>0, <1>3, <2>1 DEF UpdatedFinality
<1>5. setId' = Cardinality(all)
  <2>1. IsFiniteSet(old) /\ IsFiniteSet(new)
    <3>1. IsFiniteSet(History(b)) /\ old \subseteq History(b)
      BY <1>1, <1>2 DEF HistoryChain
    <3> QED BY <1>2, <3>1, FS_Subset
  <2>2. Cardinality(all) = Cardinality(old) + Cardinality(new) - Cardinality({})
    BY <1>2, <2>1, FS_Union
  <2>3. Cardinality(old) \in Nat /\ Cardinality(new) \in Nat /\ Cardinality({}) = 0
    BY <2>1, FS_CardinalityType, FS_EmptySet
  <2> QED BY <1>1, <1>4, <2>2, <2>3 DEF AuthoritiesAt
<1>6. triggered' = Latest(all)
  <2>1. CASE new = {}
    BY <1>1, <1>2, <1>4, <2>1 DEF AuthoritiesAt
  <2>2. CASE new # {}
    <3>1. PICK m \in new : /\ Deepest(new) = m
                           /\ \A c \in new \ {m} : header[c].number < header[m].number
      BY <1>1, <1>2, <2>2, DeepestExists
    <3>2. ASSUME NEW c \in all PROVE header[c].number \in Nat
      BY <1>1, <1>2 DEF HistoryChain
    <3>3. ASSUME NEW c \in all \ {m} PROVE header[c].number < header[m].number
      <4>1. CASE c \in new
        BY <3>1, <3>3, <4>1
      <4>2. CASE c \in old
        <5>1. header[c].number <= Number(finalized)
          BY <1>1, <4>2 DEF HistoryChain, Changing
        <5>2. m \in tree
          BY <3>1 DEF Anc, AncestorsOf, Changing
        <5>3. header[m].number > Number(finalized)
          BY <5>2 DEF Sound, TreeSound
        <5> QED BY <1>1, <3>2, <5>1, <5>2, <5>3
      <4> QED BY <1>2, <3>3, <4>1, <4>2
    <3>4. Deepest(all) = m
      BY Zenon, <1>2, <3>1, <3>2, <3>3, DeepestUnique
    <3> QED BY <1>2, <1>4, <2>2, <3>1, <3>4 DEF Latest
  <2> QED BY <2>1, <2>2
<1>7. \A x \in all : Trigger(x) <= Number(b)
  BY <1>1 DEF Number
<1>8. AuthoritiesAt(b)'
  <2>1. PICK C : C = all
    OBVIOUS
  <2>2. /\ Changing(History(b))' = C /\ Number(b)' = Number(b)
        /\ \A x \in C : Trigger(x)' = Trigger(x)
    <3>1. History(b)' = History(b) /\ Number(b)' = Number(b)
      BY <1>1 DEF HistoriesKept
    <3> QED BY <1>0, <2>1, <3>1 DEF Changing, Trigger
  <2>3. Latest(C)' = Latest(C)
    <3>1. CASE C = {}
      BY <3>1 DEF Latest
    <3>2. CASE C # {}
      <4>1. Deepest(C)' = Deepest(C)
        BY <1>1, <1>2, <2>1, <3>2, DeepestKept
      <4> QED BY <3>2, <4>1 DEF Latest
    <3> QED BY <3>1, <3>2
  <2>4. Latest(Changing(History(b)))' = Latest(C)'
    BY <2>2 DEF Latest, Deepest
  <2> HIDE DEF all, new, old
  <2> QED BY <1>4, <1>5, <1>6, <1>7, <2>1, <2>2, <2>3, <2>4 DEF AuthoritiesAt
<1> QED BY <1>0, <1>8 DEF AuthorityInv

(* AuthorityInv says more than the property. *)
LEMMA AuthoritiesExact ==
    ASSUME Sound, AuthorityInv
    PROVE  AuthoritySetExact
<1> DEFINE C == Changing(History(finalized))
<1>0. finalized \in Seen \cup {Genesis} /\ AuthoritiesAt(finalized) /\ HistoryChain
  BY HistoriesChain DEF Sound, TypeOK, AuthorityInv
<1>1. ASSUME NEW x \in C PROVE Trigger(x) < Number(finalized) + 1
  <2>1. Trigger(x) <= Number(finalized)
    BY <1>0 DEF AuthoritiesAt
  <2>2. Trigger(x) \in Nat /\ Number(finalized) \in Nat
    BY <1>0, SeenHeaders DEF Changing, HistoryChain, Trigger, Sound, Number
  <2> QED BY <2>1, <2>2
<1>2. ChangesBefore(finalized, Number(finalized) + 1) = C
  BY <1>1 DEF ChangesBefore
<1> QED BY <1>0, <1>2 DEF AuthoritySetExact, AuthoritiesAt

(* A block that no checkpoint precedes can be finalized: the changes on the *)
(* way to it are triggered no sooner than by the block itself, so that there *)
(* is at most one and the authorities of the finalized block still sign.    *)
LEMMA CheckpointsAreSound ==
    ASSUME Sound, AuthorityInv
    PROVE  CheckpointsSound
<1> SUFFICES ASSUME NEW b \in tree, Anc(b) \cap FinalityCheckpoints \subseteq {b}
             PROVE  CanFinalize(b)
  BY DEF CheckpointsSound
<1>0. /\ TreeForest /\ TreeIsSuffix /\ HistoryStep /\ HistoryChain
      /\ tree \subseteq Seen /\ finalized \in Seen \cup {Genesis} /\ AuthoritiesAt(finalized)
      /\ Anc(b) \subseteq tree /\ b \in Anc(b)
      /\ Number(finalized) \in Nat /\ header[b].number > Number(finalized)
  BY Zenon, TreeIsForest, TreeHistory, HistoriesStep, HistoriesChain, SeenHeaders, AncestorSelf
  DEF Sound, TypeOK, AuthorityInv, Anc, AncestorsOf, Number, TreeSound
<1>1. \A x \in tree : header[x].number \in Nat /\ Numbers[x] = header[x].number
  BY <1>0, SeenHeaders DEF Sound, Numbers
<1>2. \A x \in Changing(Seen) : /\ x \in Seen /\ Trigger(x) \in Nat
                                /\ header[x].number <= Trigger(x)
  BY SeenHeaders DEF Sound, Trigger, Changing
<1>3. ASSUME NEW x \in Changing(Anc(b)) PROVE header[b].number <= Trigger(x)
  <2>1. x \in Anc(b) /\ x \in Changing(Seen) /\ x \in tree
    BY <1>0 DEF Changing
  <2>2. SUFFICES ASSUME Trigger(x) < header[b].number PROVE FALSE
    BY <1>1, <1>2, <2>1
  <2>3. PICK c \in Anc(b) : Numbers[c] = Trigger(x) /\ x \in Anc(c)
    <3>1. Numbers[x] <= Trigger(x) /\ Trigger(x) <= Numbers[b] /\ Trigger(x) \in Nat
      BY <1>1, <1>2, <2>1, <2>2
    <3> QED BY <1>0, <2>1, <3>1, AncestorAt DEF Anc, TreeForest
  <2>4. c \in FinalityCheckpoints
    <3>1. c \in tree /\ header[c].number = Trigger(x)
      BY <1>0, <1>1, <2>3
    <3>2. x \in Changing(Anc(c))
      BY <1>3, <2>3 DEF Changing
    <3> QED BY <3>1, <3>2 DEF FinalityCheckpoints
  <2> QED BY <1>0, <1>1, <1>2, <2>1, <2>2, <2>3, <2>4
<1>4. NotTooFarAhead(b)
  BY <1>0, <1>3 DEF NotTooFarAhead, Triggers, AuthoritiesAt
<1>5. ASSUME NEW x \in Changing(Anc(b)), NEW y \in Changing(Anc(b)), x \in Anc(y), x # y
      PROVE  FALSE
  <2>1. x \in tree /\ y \in tree /\ x \in Changing(Seen) /\ y \in Anc(b)
    BY <1>0 DEF Changing
  <2>2. x \in History(header[y].parent)
    BY <1>0, <1>5, <2>1 DEF TreeIsSuffix, HistoryStep
  <2>3. PICK p \in Seen \cup {Genesis} :
             /\ header[y].parent = p /\ header[y].number = Number(p) + 1
             /\ \A z \in Changing(History(p)) : Trigger(z) <= Number(p)
    BY <1>0, <2>1 DEF Sound, HeadersSound, Changing
  <2>4. Trigger(x) <= Number(p) /\ Number(p) \in Nat
    BY <2>1, <2>2, <2>3, SeenHeaders DEF Changing, Sound, Number
  <2>5. Numbers[y] <= Numbers[b]
    BY <1>0, <2>1, AncestorNumber DEF Anc, TreeForest
  <2>6. header[y].number <= header[b].number /\ header[b].number <= Trigger(x)
    BY <1>1, <1>3, <2>1, <2>5
  <2> QED BY <1>1, <1>2, <2>1, <2>3, <2>4, <2>6
<1>6. ~PathInvalid(b)
  <2>1. \A x, y \in Changing(Anc(b)) : x = y
    <3> SUFFICES ASSUME NEW x \in Changing(Anc(b)), NEW y \in Changing(Anc(b)) PROVE x = y
      OBVIOUS
    <3>1. x \in Anc(y) \/ y \in Anc(x)
      BY <1>0, AncestorTotal DEF Anc, TreeForest, Changing
    <3> QED BY <1>5, <3>1
  <2>2. Changing(Anc(b)) = {} \/ \E x : Changing(Anc(b)) = {x}
    BY <2>1
  <2>3. Cardinality(Changing(Anc(b))) \in {0, 1}
    BY <2>2, FS_EmptySet, FS_Singleton
  <2> QED BY <2>3 DEF PathInvalid
<1>7. ChangesBefore(b, header[b].number) = Changing(History(finalized))
  <2>1. ASSUME NEW x \in ChangesBefore(b, header[b].number)
        PROVE  x \in Changing(History(finalized))
    <3>1. x \in Changing(History(b)) /\ Trigger(x) < header[b].number /\ x \in Changing(Seen)
      BY <1>0 DEF ChangesBefore, Changing, HistoryChain
    <3>2. x \notin Changing(Anc(b))
      BY <1>1, <1>2, <1>3, <3>1
    <3> QED BY <1>0, <3>1, <3>2 DEF TreeIsSuffix, Changing
  <2>2. ASSUME NEW x \in Changing(History(finalized))
        PROVE  x \in ChangesBefore(b, header[b].number)
    <3>1. x \in Changing(Seen) /\ Trigger(x) <= Number(finalized)
      BY <1>0 DEF AuthoritiesAt, Changing, HistoryChain
    <3>2. Trigger(x) < header[b].number
      BY <1>0, <1>1, <1>2, <3>1
    <3>3. x \in Changing(History(b))
      BY <1>0 DEF TreeIsSuffix, Changing
    <3> QED BY <3>2, <3>3 DEF ChangesBefore
  <2> QED BY Zenon, <2>1, <2>2
<1>8. SignedByExpected(b)
  BY <1>0, <1>7 DEF SignedByExpected, ExpectedAuthorities, AuthoritiesAt
<1> QED BY <1>4, <1>6, <1>8 DEF CanFinalize

(* A new tree has the epochs of the genesis block. *)
LEMMA InitEpochsInv == Init => EpochsInv
<1> SUFFICES ASSUME Init PROVE EpochsInv
  OBVIOUS
<1>1. History(Genesis) = {}
  BY DEF History
<1>2. EpochsOf(Genesis) = [current |-> Nil, next |-> Genesis]
  BY <1>1 DEF EpochsOf
<1> QED BY <1>2 DEF Init, EpochsInv, EpochsExact

(* It is preserved by every operation. *)
LEMMA NextEpochsInv == Sound /\ EpochsInv /\ [Next]_vars => EpochsInv'
<1> SUFFICES ASSUME Sound, EpochsInv, [Next]_vars PROVE EpochsInv'
  OBVIOUS
<1>1. ASSUME NEW b \in Blocks, NEW p \in Blocks \cup {Genesis}, NEW digest \in Digests,
             p # b, p = Genesis \/ p \in Seen,
             Insert(b, [parent |-> p, number |-> Number(p) + 1, digest |-> digest])
      PROVE  EpochsInv'
  BY <1>1, InsertEpochs
<1>2. ASSUME NEW b \in Blocks, SetFinalizedBlock(b) \/ VerifyJustification(b)
      PROVE  EpochsInv'
  <2>1. b \in tree /\ FinalizeBlock(b)
    BY <1>2 DEF SetFinalizedBlock, VerifyJustification
  <2> QED BY <2>1, FinalizeEpochs
<1>3. CASE Clear
  BY <1>3, OtherEpochs DEF Clear
<1>4. ASSUME UNCHANGED <<header, tree, parent, consensus, currentBest, finalized,
                         finalizedConsensus>>
      PROVE  EpochsInv'
  BY <1>4, OtherEpochs
<1>5. CASE UNCHANGED vars
  BY <1>4, <1>5 DEF vars
<1>6. ASSUME NEW b \in Blocks, VerifyJustificationPanics(b) PROVE EpochsInv'
  BY <1>4, <1>6 DEF VerifyJustificationPanics
<1> QED BY Zenon, <1>1, <1>2, <1>3, <1>5, <1>6 DEF Next

(* The Babe epochs stored for each block are those its chain announces. *)
THEOREM Epochs == Spec => []EpochsExact
<1>1. EpochsInv => EpochsExact
  BY DEF EpochsInv
<1> QED BY <1>1, InitEpochsInv, NextEpochsInv, SoundInvariance, PTL DEF Spec

(* As long as no block is finalized while a change of authorities waits,    *)
(* the invariant of the GrandPa state holds.                                *)
LEMMA AuthorityInvariance ==
    ASSUME AvoidPendingChanges
    PROVE  Spec => [](Sound /\ AuthorityInv)
<1>1. Init => AuthorityInv
  <2> SUFFICES ASSUME Init PROVE AuthoritiesAt(Genesis)
    BY Zenon DEF AuthorityInv, Init
  <2>1. Changing(History(Genesis)) = {}
    BY DEF History, Changing
  <2> QED BY <2>1, FS_EmptySet DEF Init, AuthoritiesAt, Latest
<1>2. ASSUME Sound, AuthorityInv, [Next]_vars PROVE AuthorityInv'
  <2>0. Sound
    BY <1>2
  <2>1. ASSUME NEW b \in Blocks, NEW p \in Blocks \cup {Genesis}, NEW digest \in Digests,
               p # b, p = Genesis \/ p \in Seen,
               Insert(b, [parent |-> p, number |-> Number(p) + 1, digest |-> digest])
        PROVE  AuthorityInv'
    <3>1. HistoriesKept /\ Seen \subseteq Seen'
      BY <2>0, <2>1, InsertKeepsHistories
    <3>2. UNCHANGED <<finalized, finality>>
      BY <2>1 DEF Insert
    <3> QED BY <1>2, <2>0, <3>1, <3>2, AuthoritiesKept
  <2>2. ASSUME UNCHANGED <<header, finalized, finality>> PROVE AuthorityInv'
    BY <1>2, <2>0, <2>2, SameHistories, AuthoritiesKept
  <2>3. ASSUME NEW b \in Blocks, SetFinalizedBlock(b) \/ VerifyJustification(b)
        PROVE  AuthorityInv'
    <3>1. b \in tree /\ FinalizeBlock(b) /\ LeavesNoPendingChange(b)
      BY <2>3 DEF SetFinalizedBlock, VerifyJustification
    <3>2. \A x \in Changing(History(b)) : Trigger(x) <= header[b].number
      BY <3>1 DEF LeavesNoPendingChange
    <3> QED BY <1>2, <2>0, <3>1, <3>2, FinalizeAuthorities
  <2>4. CASE Clear
    BY <2>2, <2>4 DEF Clear
  <2>5. ASSUME NEW b \in Blocks, VerifyJustificationPanics(b) PROVE AuthorityInv'
    BY <2>2, <2>5 DEF VerifyJustificationPanics
  <2>6. CASE UNCHANGED vars
    BY <2>2, <2>6 DEF vars
  <2> QED BY Zenon, <1>2, <2>1, <2>3, <2>4, <2>5, <2>6 DEF Next
<1> QED BY <1>1, <1>2, SoundInvariance, PTL DEF Spec

(* Then the identifier of the authorities, their list and the change that   *)
(* waits are those that the finalized chain announces.                      *)
THEOREM Authorities ==
    ASSUME AvoidPendingChanges
    PROVE  Spec => []AuthoritySetExact
<1>1. Sound /\ AuthorityInv => AuthoritySetExact
  BY AuthoritiesExact
<1> QED BY <1>1, AuthorityInvariance, PTL

(* And a block that descends from no checkpoint can be finalized. *)
THEOREM Checkpoints ==
    ASSUME AvoidPendingChanges
    PROVE  Spec => []CheckpointsSound
<1>1. Sound /\ AuthorityInv => CheckpointsSound
  BY CheckpointsAreSound
<1> QED BY <1>1, AuthorityInvariance, PTL
=============================================================================
