---------------------------- MODULE VerifyProofs ----------------------------
(***************************************************************************)
(* The verification of what a chain is made of: GrandPa commits and         *)
(* justifications, for every finite list of authorities, and Babe headers,  *)
(* for every number of slots per epoch.                                     *)
(***************************************************************************)
EXTENDS GrandpaVerify, Babe, FiniteSetTheorems, TLAPS

(***************************************************************************)
(* GrandpaVerify                                                           *)
(***************************************************************************)

(* Two sets of at least Threshold(n) of n authorities, the number that both *)
(* verify functions require, share more than a third of the authorities.    *)
LEMMA QuorumIntersection ==
    ASSUME NEW P \in SUBSET Authorities, NEW Q \in SUBSET Authorities,
           Cardinality(P) >= Threshold(Cardinality(Authorities)),
           Cardinality(Q) >= Threshold(Cardinality(Authorities))
    PROVE  3 * Cardinality(Q \cap P) > Cardinality(Authorities)
<1>1. /\ IsFiniteSet(P) /\ IsFiniteSet(Q) /\ IsFiniteSet(Q \cup P)
      /\ Cardinality(Q \cup P) <= Cardinality(Authorities)
  BY AuthoritiesAssumption, FS_Subset, Q \cup P \in SUBSET Authorities
<1>2. Cardinality(Q \cup P) = Cardinality(Q) + Cardinality(P) - Cardinality(Q \cap P)
  BY <1>1, FS_Union
<1>3. IsFiniteSet(Q \cap P)
  BY <1>1, FS_Intersection
<1>4. /\ Cardinality(P) \in Nat /\ Cardinality(Q) \in Nat
      /\ Cardinality(Q \cup P) \in Nat /\ Cardinality(Q \cap P) \in Nat
      /\ Cardinality(Authorities) \in Nat
  BY <1>1, <1>3, AuthoritiesAssumption, FS_CardinalityType
<1> QED
  BY <1>1, <1>2, <1>4 DEF Threshold

(* The precommits of a message form a sequence. *)
LEMMA PrecommitsSeq ==
    ASSUME message \in Message
    PROVE  /\ Precommits \in Seq(Precommit)
           /\ Len(Precommits) \in Nat
           /\ DOMAIN Precommits = 1..Len(Precommits)
<1>1. PICK n \in 0..MaxPrecommits : message.precommits \in [1..n -> Precommit]
  BY DEF Message
<1> n \in Nat  BY MaxAssumption
<1> QED
  BY <1>1 DEF Precommits

(* Without duplicate, there are as many signers as precommits. *)
LEMMA SignersCounted ==
    ASSUME message \in Message, ~HasDuplicate, Keys \subseteq Authorities
    PROVE  Cardinality(Keys) >= Len(Precommits)
<1> DEFINE n == Len(Precommits)
           f == [i \in 1..n |-> Precommits[i].key]
<1>1. n \in Nat /\ DOMAIN Precommits = 1..n
  BY PrecommitsSeq
<1>2. f \in Injection(1..n, Keys)
  BY <1>1 DEF Injection, IsInjective, Keys, HasDuplicate
<1>3. IsFiniteSet(Keys)
  BY AuthoritiesAssumption, FS_Subset
<1>4. Cardinality(1..n) <= Cardinality(Keys)
  BY <1>2, <1>3, FS_Injection
<1>5. Cardinality(1..n) = n
  <2> HIDE DEF n
  <2>1. Cardinality(1..n) = IF 1 > n THEN 0 ELSE n - 1 + 1
    BY <1>1, 1 \in Int, n \in Int, FS_Interval
  <2> QED
    BY <1>1, <2>1
<1>6. Cardinality(Keys) \in Nat
  BY <1>3, FS_CardinalityType
<1> QED
  BY <1>1, <1>4, <1>5, <1>6

(* What the exchange has established when it asks about precommit index. *)
CheckedSoFar ==
    /\ ~HasDuplicate
    /\ index \in 1..Len(Precommits)
    /\ \A i \in 1..(index - 1) :
          Precommits[i].key \in Authorities /\ Precommits[i].vote # "aside"
    /\ asking = "parent" => Precommits[index].key \in Authorities

Established ==
    /\ EnoughSignatures /\ ~HasDuplicate /\ Keys \subseteq Authorities
    /\ message.kind = "commit" => \A i \in DOMAIN Precommits : Precommits[i].vote # "aside"

(* The inductive invariant. *)
IInv ==
    /\ message \in Message
    /\ asking \in {"start", "authority", "parent", "done"}
    /\ asking \in {"authority", "parent"} => CheckedSoFar /\ message.kind = "commit"
    /\ asking # "done" => result = "none"
    /\ result = "ok" => Established

(* The step common to every answer that lets the exchange go on: all        *)
(* precommits before i are in order.                                        *)
LEMMA AskPreserves ==
    ASSUME IInv, NEW i \in Nat, Ask(i), UNCHANGED message,
           message.kind = "commit", result = "none", ~HasDuplicate,
           i \in 1..(Len(Precommits) + 1),
           \A j \in 1..(i - 1) :
              Precommits[j].key \in Authorities /\ Precommits[j].vote # "aside"
    PROVE  IInv'
<1>1. message \in Message /\ DOMAIN Precommits = 1..Len(Precommits) /\ Len(Precommits) \in Nat
  BY PrecommitsSeq DEF IInv
<1>2. CASE i > Len(Precommits)
  <2>1. Keys \subseteq Authorities /\ \A j \in DOMAIN Precommits : Precommits[j].vote # "aside"
    BY <1>1, <1>2 DEF Keys
  <2>2. asking' = "done" /\ result' = Conclusion
    BY <1>2 DEF Ask, Finish
  <2>3. result' = "ok" => EnoughSignatures
    BY <2>2 DEF Conclusion
  <2> QED
    BY <1>1, <2>1, <2>2, <2>3
    DEF IInv, Established, CheckedSoFar, EnoughSignatures, HasDuplicate, Keys, Precommits
<1>3. CASE ~(i > Len(Precommits))
  <2>1. asking' = "authority" /\ result' = "none" /\ index' = i /\ i \in 1..Len(Precommits)
    BY <1>1, <1>3 DEF Ask
  <2> QED
    BY <1>1, <2>1 DEF IInv, CheckedSoFar, HasDuplicate, Precommits
<1> QED
  BY <1>2, <1>3

(* IInv is an invariant of both verifications. *)
LEMMA Invariance == GrandpaSpec => []IInv
<1>1. GrandpaInit => IInv
  BY DEF GrandpaInit, IInv
<1>2. ASSUME IInv, [GrandpaNext]_grandpaVars PROVE IInv'
  <2> DEFINE P == Precommits
  <2>0. message \in Message /\ DOMAIN Precommits = 1..Len(Precommits) /\ Len(Precommits) \in Nat
    BY <1>2, PrecommitsSeq DEF IInv
  <2>1. CASE UNCHANGED grandpaVars
    BY <1>2, <2>1 DEF grandpaVars, IInv, CheckedSoFar, Established, EnoughSignatures,
                      HasDuplicate, Keys, Precommits
  <2>2. CASE VerifyCommit
    <3>1. CASE ~message.setIdOk \/ HasDuplicate
      BY <1>2, <2>2, <3>1 DEF VerifyCommit, Finish, IInv
    <3>2. CASE ~(~message.setIdOk \/ HasDuplicate)
      <4>1. Ask(1) /\ UNCHANGED message /\ message.kind = "commit" /\ result = "none"
        BY <1>2, <2>2, <3>2 DEF VerifyCommit, IInv
      <4> QED
        BY <1>2, <2>0, <3>2, <4>1, AskPreserves
    <3> QED
      BY <3>1, <3>2
  <2>3. CASE ResumeIsAuthority
    <3>0. CheckedSoFar /\ message.kind = "commit" /\ result = "none" /\ UNCHANGED message
      BY ZenonT(30), <1>2, <2>3 DEF ResumeIsAuthority, IInv
    <3>1. CASE Precommits[index].key \notin Authorities
      BY ZenonT(30), <1>2, <2>3, <3>0, <3>1 DEF ResumeIsAuthority, Finish, IInv
    <3>2. CASE Precommits[index].key \in Authorities /\ Precommits[index].vote = "target"
      <4>1. Ask(index + 1)
        BY ZenonT(30), <2>3, <3>2 DEF ResumeIsAuthority
      <4>2. index + 1 \in 1..(Len(Precommits) + 1) /\ index \in Nat
        BY <2>0, <3>0 DEF CheckedSoFar
      <4>3. \A j \in 1..(index + 1 - 1) :
               Precommits[j].key \in Authorities /\ Precommits[j].vote # "aside"
        BY <2>0, <3>0, <3>2, <4>2 DEF CheckedSoFar
      <4> QED
        BY <1>2, <3>0, <4>1, <4>2, <4>3, AskPreserves DEF CheckedSoFar
    <3>3. CASE Precommits[index].key \in Authorities /\ Precommits[index].vote # "target"
      <4>1. asking' = "parent" /\ UNCHANGED <<index, result, message>>
        BY ZenonT(30), <2>3, <3>3 DEF ResumeIsAuthority
      <4> QED
        BY <1>2, <3>0, <3>3, <4>1 DEF IInv, CheckedSoFar, HasDuplicate, Precommits
    <3> QED
      BY <3>1, <3>2, <3>3
  <2>4. CASE ResumeIsParent
    <3>0. /\ CheckedSoFar /\ message.kind = "commit" /\ result = "none" /\ UNCHANGED message
          /\ Precommits[index].key \in Authorities
      BY ZenonT(30), <1>2, <2>4 DEF ResumeIsParent, IInv, CheckedSoFar
    <3>1. CASE Precommits[index].vote = "aside"
      BY ZenonT(30), <1>2, <2>4, <3>0, <3>1 DEF ResumeIsParent, BadAncestry, Finish, IInv
    <3>2. CASE Precommits[index].vote # "aside"
      <4>1. Ask(index + 1)
        BY <2>4, <3>2 DEF ResumeIsParent, BadAncestry
      <4>2. index + 1 \in 1..(Len(Precommits) + 1) /\ index \in Nat
        BY <2>0, <3>0 DEF CheckedSoFar
      <4>3. \A j \in 1..(index + 1 - 1) :
               Precommits[j].key \in Authorities /\ Precommits[j].vote # "aside"
        BY <2>0, <3>0, <3>2, <4>2 DEF CheckedSoFar
      <4> QED
        BY <1>2, <3>0, <4>1, <4>2, <4>3, AskPreserves DEF CheckedSoFar
    <3> QED
      BY <3>1, <3>2
  <2>5. CASE VerifyJustification
    <3>1. asking' = "done" /\ UNCHANGED message /\ message.kind = "justification"
      BY ZenonT(30), <2>5 DEF VerifyJustification, Finish
    <3>2. result' = "ok" => EnoughSignatures /\ ~HasDuplicate /\ Keys \subseteq Authorities
      BY <2>5 DEF VerifyJustification, Finish
    <3> QED
      BY <1>2, <3>1, <3>2 DEF IInv, Established, EnoughSignatures, HasDuplicate, Keys, Precommits
  <2> QED
    BY <1>2, <2>1, <2>2, <2>3, <2>4, <2>5 DEF GrandpaNext
<1> QED
  BY <1>1, <1>2, PTL DEF GrandpaSpec

(* Whatever the list of authorities, two accepted messages, commits or      *)
(* justifications, always have more than a third of it in common.           *)
THEOREM QuorumSafety == GrandpaSpec => []AcceptedByQuorum
<1>1. IInv => AcceptedByQuorum
  <2> SUFFICES ASSUME IInv, result = "ok", NEW Q \in SUBSET Authorities,
                      Cardinality(Q) >= Threshold(Cardinality(Authorities))
               PROVE  3 * Cardinality(Q \cap Keys) > Cardinality(Authorities)
    BY DEF AcceptedByQuorum
  <2>1. message \in Message /\ ~HasDuplicate /\ Keys \in SUBSET Authorities
        /\ Len(Precommits) >= Threshold(Cardinality(Authorities))
    BY DEF IInv, Established, EnoughSignatures
  <2>2. Cardinality(Keys) >= Len(Precommits)
    BY <2>1, SignersCounted
  <2>3. Cardinality(Keys) \in Nat /\ Len(Precommits) \in Nat /\ Cardinality(Authorities) \in Nat
    BY <2>1, PrecommitsSeq, FS_Subset, FS_CardinalityType, AuthoritiesAssumption
  <2>4. Cardinality(Keys) >= Threshold(Cardinality(Authorities))
    BY <2>1, <2>2, <2>3 DEF Threshold
  <2> QED
    BY <2>1, <2>4, QuorumIntersection
<1> QED
  BY <1>1, Invariance, PTL

(* No accepted commit has a vote for a block that its user knows not to     *)
(* descend from the target.                                                 *)
THEOREM VotesDescend == GrandpaSpec => []AcceptedVotesDescend
<1>1. IInv => AcceptedVotesDescend
  BY DEF IInv, Established, AcceptedVotesDescend
<1> QED
  BY <1>1, Invariance, PTL

(***************************************************************************)
(* Babe                                                                    *)
(***************************************************************************)

(* The slots of i + 1 epochs of n slots are those of i epochs and n more. *)
LEMMA MulSucc ==
    ASSUME NEW i \in Nat, NEW n \in Nat
    PROVE  i * n \in Nat /\ (i + 1) * n = i * n + n
  OBVIOUS

(* More epochs have more slots. *)
LEMMA MulMonotone ==
    ASSUME NEW i \in Nat, NEW j \in Nat, NEW n \in Nat, i <= j
    PROVE  i * n <= j * n
<1>1. PICK k \in Nat : j = i + k
  <2>1. j - i \in Nat /\ j = i + (j - i)
    OBVIOUS
  <2> QED BY <2>1
<1>2. j * n = i * n + k * n /\ k * n \in Nat /\ i * n \in Nat
  BY <1>1
<1> QED BY <1>2

(* The epoch of a slot is the only one whose slots surround it. *)
LEMMA DivUnique ==
    ASSUME NEW a \in Nat, NEW n \in Nat \ {0}, NEW q \in Nat, q * n <= a, a < q * n + n
    PROVE  a \div n = q
<1>1. PICK d \in Nat : d = a \div n
  OBVIOUS
<1>2. d * n <= a /\ a < d * n + n
  BY <1>1
<1>3. ASSUME d < q PROVE FALSE
  <2>1. (d + 1) * n <= q * n
    BY <1>3, MulMonotone
  <2>2. (d + 1) * n = d * n + n /\ d * n \in Nat /\ q * n \in Nat
    BY MulSucc
  <2> QED BY <1>2, <2>1, <2>2
<1>4. ASSUME q < d PROVE FALSE
  <2>1. (q + 1) * n <= d * n
    BY <1>4, MulMonotone
  <2>2. (q + 1) * n = q * n + n /\ d * n \in Nat /\ q * n \in Nat
    BY MulSucc
  <2> QED BY <1>2, <2>1, <2>2
<1> QED BY <1>1, <1>3, <1>4

(* The assertions, and that only the genesis block belongs to no epoch. *)
BabeInv == EpochsTyped /\ AssertionsHold /\ (current = None <=> slot = None)

(* When the chain visits every epoch and announces it, verify_header        *)
(* preserves them.                                                          *)
LEMMA BabeInvariance ==
    ASSUME EpochsAreVisited, AnnouncedOnTime
    PROVE  BabeSpec => []BabeInv
<1>1. BabeInit => BabeInv
  BY NoneAssumption DEF BabeInit, BabeInv, EpochsTyped, AssertionsHold, Epoch
<1>2. ASSUME BabeInv, [BabeNext]_babeVars PROVE BabeInv'
  <2>1. CASE UNCHANGED babeVars
    BY <1>2, <2>1 DEF babeVars, BabeInv, EpochsTyped, AssertionsHold
  <2>2. ASSUME NEW s \in 0..MaxSlot, NEW log \in BOOLEAN, VerifyHeader(log, s)
        PROVE  BabeInv'
    <3> s \in Nat  BY SlotsAssumption
    <3>1. CASE log
      <4>1. next.start # None => next.start \in Nat /\ next.start <= s /\ s < next.start + SlotsPerEpoch
        BY ZenonT(30), <1>2, <2>2, <3>1 DEF VerifyHeader, ChainRules, NextBegun, BabeInv, EpochsTyped, Epoch
      <4>2. current' \in Epoch /\ current'.start \in Nat /\ current'.start <= s
            /\ current'.index = next.index
        BY <1>2, <2>2, <3>1, <4>1 DEF VerifyHeader, Begun, BabeInv, EpochsTyped, Epoch
      <4>3. next' \in Epoch /\ next'.start \in Nat /\ next'.start > s
            /\ next'.index = next.index + 1
        BY <1>2, <2>2, <3>1, <4>1, SlotsAssumption DEF VerifyHeader, EpochAfter, BabeInv, EpochsTyped, Epoch
      <4>4. slot' = s /\ firstSlot' \in Nat \cup {None}
        BY <1>2, <2>2 DEF VerifyHeader, BabeInv, EpochsTyped
      <4>5. next.index \in Nat
        BY <1>2 DEF BabeInv, EpochsTyped, Epoch
      <4> QED
        BY <4>2, <4>3, <4>4, <4>5, NoneAssumption DEF BabeInv, EpochsTyped, AssertionsHold, Epoch
    <3>2. CASE ~log
      <4>0. ChainRules(log, s) /\ LogAccepted(log, s) /\ ~NextBegun(s)
        BY <2>2, <3>2, Zenon DEF VerifyHeader, ChainRules
      <4>1. current # None /\ next.start # None /\ s < next.start
        BY <1>2, <3>2, <4>0 DEF LogAccepted, NextBegun, BabeInv, EpochsTyped, Epoch
      <4>2. slot # None /\ slot \in Nat /\ s > slot
        BY <1>2, <2>2, <4>1 DEF BabeInv, EpochsTyped, VerifyHeader, SlotIncreases
      <4>3. UNCHANGED <<current, next>> /\ slot' = s /\ firstSlot' \in Nat \cup {None}
        BY <1>2, <2>2, <3>2 DEF VerifyHeader, BabeInv, EpochsTyped
      <4> QED
        BY <1>2, <4>1, <4>2, <4>3, NoneAssumption DEF BabeInv, EpochsTyped, AssertionsHold, Epoch
    <3> QED
      BY <3>1, <3>2
  <2> QED
    BY <1>2, <2>1, <2>2 DEF BabeNext
<1> QED
  BY <1>1, <1>2, PTL DEF BabeSpec

(* The chain visits every epoch and announces it: then what verify_header   *)
(* stores about a block never fails the assert!s met by its child.          *)
THEOREM EpochsConsistent ==
    ASSUME EpochsAreVisited, AnnouncedOnTime
    PROVE  BabeSpec => []AssertionsHold
<1>1. BabeInv => AssertionsHold
  BY DEF BabeInv
<1> QED
  BY <1>1, BabeInvariance, PTL

(* Every epoch follows the one before it, from the slot of block 1 on, and  *)
(* the latest block is in the current one.                                  *)
EpochsInPlace ==
    /\ firstSlot = None <=> slot = None
    /\ current # None =>
          /\ current.start = firstSlot + current.index * SlotsPerEpoch
          /\ next.start = current.start + SlotsPerEpoch
          /\ slot < next.start

(* Under the same conditions a block is checked against the epoch that its  *)
(* slot belongs to.                                                         *)
THEOREM EpochsCounted ==
    ASSUME EpochsAreVisited, AnnouncedOnTime
    PROVE  BabeSpec => []EpochOfSlot
<1>1. BabeInit => EpochsInPlace
  BY DEF BabeInit, EpochsInPlace
<1>2. ASSUME BabeInv, EpochsInPlace, BabeInv', [BabeNext]_babeVars PROVE EpochsInPlace'
  <2>1. CASE UNCHANGED babeVars
    BY <1>2, <2>1 DEF babeVars, EpochsInPlace
  <2>2. ASSUME NEW s \in 0..MaxSlot, NEW log \in BOOLEAN, VerifyHeader(log, s)
        PROVE  EpochsInPlace'
    <3>0. s \in Nat /\ s # None /\ SlotsPerEpoch \in Nat
      BY SlotsAssumption, NoneAssumption
    <3>1. slot' = s /\ firstSlot' # None /\ (firstSlot # None => firstSlot' = firstSlot)
          /\ (firstSlot = None => firstSlot' = s)
      BY <2>2, <3>0 DEF VerifyHeader
    <3>2. CASE ~log
      <4>1. UNCHANGED <<current, next>> /\ ~NextBegun(s) /\ current # None
        BY Zenon, <2>2, <3>2 DEF VerifyHeader, ChainRules, LogAccepted
      <4>2. firstSlot' = firstSlot
        BY <1>2, <3>1, <4>1 DEF BabeInv, EpochsInPlace
      <4>3. s < next.start
        BY <1>2, <3>0, <4>1 DEF NextBegun, BabeInv, EpochsTyped, Epoch
      <4> QED BY <1>2, <3>0, <3>1, <4>1, <4>2, <4>3 DEF EpochsInPlace
    <3>3. CASE log /\ next.start = None
      <4>1. firstSlot = None /\ next.index = 0 /\ next \in Epoch
        BY <1>2, <3>3, SlotsAssumption, NoneAssumption
        DEF BabeInv, EpochsInPlace, AssertionsHold, EpochsTyped, Epoch
      <4>2. current' = [next EXCEPT !.start = s]
            /\ next' = [index |-> next.index + 1, start |-> s + SlotsPerEpoch]
        BY <2>2, <3>3 DEF VerifyHeader, Begun, EpochAfter
      <4>3. current'.start = s /\ current'.index = 0 /\ next'.start = s + SlotsPerEpoch
        BY <4>1, <4>2 DEF Epoch
      <4>4. s < s + SlotsPerEpoch /\ s = s + 0 * SlotsPerEpoch
        BY <3>0, SlotsAssumption
      <4> QED BY <3>0, <3>1, <4>1, <4>3, <4>4 DEF EpochsInPlace
    <3>4. CASE log /\ next.start # None
      <4>1. next.start \in Nat /\ next.start <= s /\ s < next.start + SlotsPerEpoch
        BY ZenonT(30), <1>2, <2>2, <3>4
        DEF VerifyHeader, ChainRules, NextBegun, BabeInv, EpochsTyped, Epoch
      <4>2. current' = next /\ next'.start = next.start + SlotsPerEpoch
        BY <2>2, <3>4 DEF VerifyHeader, Begun, EpochAfter
      <4>3. current # None /\ next.index = current.index + 1 /\ current.index \in Nat
        BY <1>2, <3>4 DEF BabeInv, AssertionsHold, EpochsTyped, Epoch
      <4>4. /\ firstSlot # None /\ firstSlot \in Nat
            /\ next.start = firstSlot + current.index * SlotsPerEpoch + SlotsPerEpoch
        BY <1>2, <4>3 DEF BabeInv, EpochsInPlace, EpochsTyped
      <4>5. next.start = firstSlot + next.index * SlotsPerEpoch
        BY <3>0, <4>3, <4>4, MulSucc
      <4> QED BY <3>0, <3>1, <4>1, <4>2, <4>4, <4>5 DEF EpochsInPlace
    <3> QED
      BY <3>2, <3>3, <3>4
  <2> QED
    BY <1>2, <2>1, <2>2 DEF BabeNext
<1>3. BabeInv /\ EpochsInPlace => EpochOfSlot
  <2> SUFFICES ASSUME BabeInv, EpochsInPlace, current # None
               PROVE  /\ current.index = (slot - firstSlot) \div SlotsPerEpoch
                      /\ current.start = firstSlot + current.index * SlotsPerEpoch
    BY DEF EpochOfSlot
  <2>1. /\ slot \in Nat /\ firstSlot \in Nat /\ current.index \in Nat
        /\ current.start <= slot /\ slot < next.start
        /\ current.start = firstSlot + current.index * SlotsPerEpoch
        /\ next.start = current.start + SlotsPerEpoch
    BY DEF BabeInv, EpochsInPlace, EpochsTyped, AssertionsHold, Epoch
  <2>2. PICK m \in Nat : m = current.index * SlotsPerEpoch
    BY <2>1, SlotsAssumption
  <2>3. slot - firstSlot \in Nat /\ m <= slot - firstSlot
        /\ slot - firstSlot < m + SlotsPerEpoch
    BY <2>1, <2>2, SlotsAssumption
  <2> QED
    BY <2>1, <2>2, <2>3, SlotsAssumption, DivUnique
<1> QED
  BY <1>1, <1>2, <1>3, BabeInvariance, PTL DEF BabeSpec
=============================================================================
