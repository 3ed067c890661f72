---------------------------- MODULE AllSyncProofs ---------------------------
(***************************************************************************)
(* Proofs about AllSync and the WarpSync it contains: the identifiers of   *)
(* the sources and of the requests, the source the warp sync waits for and *)
(* the authorities it has reached, for every chain and every peer.         *)
(***************************************************************************)
EXTENDS AllSync, WellFoundedInduction, TLAPS

(* A header the warp sync has reached, with the authorities in force there. *)
Position == [header : BlockNumbers, set : Nat]
PositionOk(p) == p # None => p \in Position /\ p.set = SetAfter(p.header)

(* A proof that is being verified. *)
Verifiers == [set : Nat, fragments : Seq(Fragments), final : BOOLEAN]

(* Whoever answers, what the warp sync has reached is in order, and it waits *)
(* for one of its sources, if it has any.                                    *)
WarpInv ==
    /\ PositionOk(previous) /\ PositionOk(target)
    /\ phase = "Verifier" => verifier \in Verifiers
    /\ sources = [s \in DOMAIN sources |-> sources[s]]
    /\ DOMAIN sources \subseteq SourceIds
    /\ phase # "Finished" =>
          IF phase = "WaitingForSources" THEN DOMAIN sources = {}
          ELSE source \in DOMAIN sources

(* Its sources are those of the whole state machine. *)
SourcesInv == mode = "GrandpaWarpSync" => phase # "Finished" /\ DOMAIN sources = DOMAIN owner

(* The requests are those of the warp sync or of the strategy in use. *)
RequestsInv ==
    \A r \in DOMAIN requests :
        /\ requests[r].mode \in {"Inline", "AllForks", "Optimistic"}
        /\ requests[r].mode = "Inline" /\ requests[r].detail.type = "GrandpaWarpSync"
              => requests[r].detail.block \in BlockNumbers

(* The sources of the state machine are those of the strategy in use ... *)
SourcesConsistent ==
    /\ \A o \in DOMAIN mapping : /\ mapping[o].mode = mode
                                 /\ mapping[o].id \in DOMAIN owner
                                 /\ owner[mapping[o].id].outer = o
    /\ \A i \in DOMAIN owner : /\ owner[i].outer \in DOMAIN mapping
                               /\ mapping[owner[i].outer].id = i

(* ... and so are the requests, apart from those of the warp sync.  Beyond   *)
(* IdentifiersConsistent: two of them never have the same outer identifier.  *)
RequestsConsistent ==
    /\ \A r \in DOMAIN requests \ Inline : /\ requests[r].mode = mode
                                           /\ requests[r].id \in DOMAIN innerRequests
                                           /\ innerRequests[requests[r].id].outer = r
    /\ \A i \in DOMAIN innerRequests : /\ innerRequests[i].source \in DOMAIN owner
                                       /\ innerRequests[i].outer \in DOMAIN requests \ Inline
                                       /\ requests[innerRequests[i].outer].id = i

(* Nothing is claimed after a panic. *)
IdentifiersInv == mode # "Panicked" => SourcesConsistent /\ RequestsConsistent

(* The inductive invariant. *)
IInv == WarpInv /\ SourcesInv /\ RequestsInv /\ IdentifiersInv

(* A map without a key is the empty one. *)
LEMMA EmptyFunction ==
    ASSUME NEW f, f = [x \in DOMAIN f |-> f[x]], DOMAIN f = {}
    PROVE  f = << >>
  OBVIOUS

(* The blocks of i + 1 eras of n blocks are those of i eras and n more. *)
LEMMA MulSucc ==
    ASSUME NEW i \in Nat, NEW n \in Nat
    PROVE  i * n \in Nat /\ (i + 1) * n = i * n + n
  OBVIOUS

(* More eras have more blocks. *)
LEMMA MulMonotone ==
    ASSUME NEW i \in Nat, NEW j \in Nat, NEW n \in Nat, i <= j
    PROVE  i * n <= j * n
<1>1. PICK k \in Nat : j = i + k
  <2>1. j - i \in Nat /\ j = i + (j - i)
    OBVIOUS
  <2> QED BY <2>1
<1>2. j * n = i * n + k * n /\ k * n \in Nat /\ i * n \in Nat
  BY <1>1
<1> QED BY <1>2

(* The era of a block is the only one whose blocks surround it. *)
LEMMA DivUnique ==
    ASSUME NEW a \in Nat, NEW n \in Nat \ {0}, NEW q \in Nat, q * n <= a, a < q * n + n
    PROVE  a \div n = q
<1>1. PICK d \in Nat : d = a \div n
  OBVIOUS
<1>2. d * n <= a /\ a < d * n + n
  BY <1>1
<1>3. ASSUME d < q PROVE FALSE
  <2>1. (d + 1) * n <= q * n
    BY <1>3, MulMonotone
  <2>2. (d + 1) * n = d * n + n /\ d * n \in Nat /\ q * n \in Nat
    BY MulSucc
  <2> QED BY <1>2, <2>1, <2>2
<1>4. ASSUME q < d PROVE FALSE
  <2>1. (q + 1) * n <= d * n
    BY <1>4, MulMonotone
  <2>2. (q + 1) * n = q * n + n /\ d * n \in Nat /\ q * n \in Nat
    BY MulSucc
  <2> QED BY <1>2, <2>1, <2>2
<1> QED BY <1>1, <1>3, <1>4

(* The set in force after a block is the one that signs it, or the next one *)
(* when the block changes the authorities.                                  *)
LEMMA NextEra ==
    ASSUME NEW b \in Nat \ {0}, NEW n \in Nat \ {0}
    PROVE  (b - 1) \div n + (IF b % n = 0 THEN 1 ELSE 0) = b \div n
<1>1. PICK q \in Nat, r \in Nat : q = b \div n /\ r = b % n /\ b = n * q + r /\ r < n
  OBVIOUS
<1>2. CASE r # 0
  <2>1. PICK m \in Nat : m = n * q
    BY <1>1
  <2>2. b - 1 \in Nat /\ q * n <= b - 1 /\ b - 1 < q * n + n
    BY <1>1, <1>2, <2>1
  <2>3. (b - 1) \div n = q
    BY <1>1, <2>2, DivUnique
  <2> QED BY <1>1, <1>2, <2>3
<1>3. CASE r = 0
  <2>1. q # 0
    BY <1>1, <1>3
  <2>2. PICK k \in Nat : q = k + 1
    BY <1>1, <2>1, q - 1 \in Nat
  <2>3. n * q = k * n + n /\ k * n \in Nat
    BY <2>2
  <2>4. b - 1 \in Nat /\ k * n <= b - 1 /\ b - 1 < k * n + n
    BY <1>1, <1>3, <2>3
  <2>5. (b - 1) \div n = k
    BY <2>4, DivUnique
  <2> QED BY <1>1, <1>3, <2>2, <2>5
<1> QED BY <1>2, <1>3

(* Answers to a request for a warp sync proof. *)
Proofs == [fragments : Seq(Fragments), final : BOOLEAN]

(* Whatever a peer answers is made of fragments. *)
LEMMA ProofsTyped ==
    ASSUME WarpAssumption, AllSyncAssumption, NEW start \in BlockNumbers, NEW peer
    PROVE  ProofsBy(peer, start) \subseteq Proofs
<1>1. AnyProof \subseteq Proofs
  <2>1. ASSUME NEW n \in 0..MaxFragments, NEW f \in [1..n -> Fragments]
        PROVE  f \in Seq(Fragments)
    BY DEF AllSyncAssumption
  <2> QED BY <2>1 DEF AnyProof, Proofs
<1>2. ProofFrom(start) \in Proofs
  <2> DEFINE changes == [i \in 1 .. (Eras - start \div EraLength) |->
                            (start \div EraLength + i) * EraLength]
             full == IF start = Tip THEN << >> ELSE Append(changes, Tip)
  <2>1. PICK n \in Nat, e \in Nat \ {0}, s \in Nat : n = Eras /\ e = EraLength /\ s = start
    BY DEF WarpAssumption, BlockNumbers, Tip
  <2>2. PICK era \in Nat : era = s \div e
    BY <2>1
  <2>3. Tip \in Fragments /\ Tip = e * n + 1 /\ Tip \in Nat
    BY <2>1 DEF Fragments, BlockNumbers, Tip
  <2>4. ASSUME NEW i \in 1..(n - era) PROVE (era + i) * e \in Fragments
    <3>1. era + i \in Nat /\ era + i <= n /\ era + i >= 1
      OBVIOUS
    <3>2. (era + i) * e <= n * e /\ 1 * e <= (era + i) * e
      BY <3>1, MulMonotone
    <3>3. (era + i) * e \in Nat
      BY <3>1, MulSucc
    <3> QED BY <2>3, <3>2, <3>3 DEF Fragments, BlockNumbers
  <2>5. changes \in Seq(Fragments)
    <3>1. changes = [i \in 1..(n - era) |-> (era + i) * e]
      BY <2>1, <2>2
    <3>2. PICK k \in Nat : 1..(n - era) = 1..k
      <4>1. CASE n - era \in Nat
        BY <4>1
      <4>2. CASE n - era \notin Nat
        <5>1. 1..(n - era) = 1..0
          BY <4>2
        <5> QED BY <5>1
      <4> QED BY <4>1, <4>2
    <3> HIDE DEF changes
    <3>3. changes \in [1..k -> Fragments]
      BY <2>4, <3>1, <3>2
    <3> QED BY <3>3
  <2>6. full \in Seq(Fragments)
    BY <2>3, <2>5
  <2>7. ProofFrom(start) = IF Len(full) <= MaxFragments
                           THEN [fragments |-> full, final |-> TRUE]
                           ELSE [fragments |-> SubSeq(full, 1, MaxFragments), final |-> FALSE]
    BY DEF ProofFrom
  <2> HIDE DEF full
  <2>8. MaxFragments \in Nat /\ Len(full) \in Nat
    BY <2>6 DEF AllSyncAssumption
  <2>9. ~(Len(full) <= MaxFragments) => SubSeq(full, 1, MaxFragments) \in Seq(Fragments)
    BY <2>6, <2>8
  <2> QED BY <2>6, <2>7, <2>9 DEF Proofs
<1> QED BY <1>1, <1>2 DEF ProofsBy

(* A set of identifiers has a least member. *)
LEMMA LeastNumber ==
    ASSUME NEW S \in SUBSET Nat, S # {}
    PROVE  Min(S) \in S
<1> DEFINE R == {p \in Nat \X Nat : p[1] < p[2]}
<1>1. IsWellFoundedOn(R, Nat)
  BY NatLessThanWellFounded DEF OpToRel
<1>2. PICK n \in S : \A m \in S : ~(<<m, n>> \in R)
  <2> HIDE DEF R
  <2> QED BY <1>1, WFMin
<1>3. ASSUME NEW m \in S PROVE n <= m
  <2>1. <<m, n>> \in Nat \X Nat /\ <<m, n>>[1] = m /\ <<m, n>>[2] = n
    OBVIOUS
  <2>2. ~(m < n)
    BY <1>2, <2>1
  <2> QED BY <2>2
<1> QED BY <1>3 DEF Min

(* When the sources have all been tried they are tried again, hence the     *)
(* next one exists as long as there are sources.                            *)
LEMMA NextSource ==
    ASSUME WarpAssumption, NEW srcs, DOMAIN srcs \subseteq SourceIds,
           srcs = [s \in DOMAIN srcs |-> srcs[s]],
           NEW prev, PositionOk(prev), WarpSyncRequestFromNextSource(srcs, prev)
    PROVE  WarpInv' /\ DOMAIN sources' = DOMAIN srcs /\ phase' # "Finished"
<1>1. PICK updated : updated = Unbanned(srcs)
  OBVIOUS
<1>2. /\ updated = [s \in DOMAIN srcs |-> updated[s]] /\ DOMAIN updated = DOMAIN srcs
      /\ (\A s \in DOMAIN srcs : updated[s]) => DOMAIN srcs = {}
  BY <1>1 DEF Unbanned
<1>3. PICK untried : untried = UntriedSources(updated)
  OBVIOUS
<1>4. untried \subseteq DOMAIN srcs /\ (untried = {} => DOMAIN srcs = {})
  BY <1>2, <1>3 DEF UntriedSources
<1>5. /\ sources' = updated /\ previous' = prev /\ target' = None
      /\ IF untried = {} THEN phase' = "WaitingForSources" /\ source' = NoSource
         ELSE phase' = "WarpSyncRequest" /\ source' = Min(untried)
  BY <1>1, <1>3 DEF WarpSyncRequestFromNextSource
<1>6. untried # {} => Min(untried) \in untried
  BY <1>4, LeastNumber DEF WarpAssumption
<1>7. PositionOk(None)
  BY DEF PositionOk
<1> QED BY <1>2, <1>4, <1>5, <1>6, <1>7 DEF WarpInv, PositionOk

(* add_source keeps the warp sync in order and adds the source to those it has. *)
LEMMA AddSourceWarp ==
    ASSUME WarpAssumption, WarpInv, NEW s, WarpAddSource(s)
    PROVE  WarpInv' /\ DOMAIN sources' = DOMAIN sources \cup {s} /\ phase' # "Finished"
  BY DEF WarpAddSource, WarpInv, PositionOk

(* remove_source drops one source, and goes on with another one if need be. *)
LEMMA RemoveSourceWarp ==
    ASSUME WarpAssumption, WarpInv, NEW s, WarpRemoveSource(s)
    PROVE  WarpInv' /\ DOMAIN sources' = DOMAIN sources \ {s} /\ phase' # "Finished"
<1>1. PICK rest : rest = Restrict(sources, DOMAIN sources \ {s})
  OBVIOUS
<1>2. /\ DOMAIN rest = DOMAIN sources \ {s} /\ DOMAIN rest \subseteq SourceIds
      /\ rest = [t \in DOMAIN rest |-> rest[t]]
  BY <1>1 DEF Restrict, WarpInv
<1>3. PositionOk(KeptOnRemoval)
  BY DEF KeptOnRemoval, WarpInv, PositionOk
<1>4. CASE s = source
  <2>1. WarpSyncRequestFromNextSource(rest, KeptOnRemoval)
    BY <1>1, <1>4 DEF WarpRemoveSource
  <2> QED BY <1>2, <1>3, <2>1, NextSource
<1>5. CASE s # source
  <2>1. sources' = rest /\ UNCHANGED <<phase, source, previous, verifier, target, query>>
        /\ phase # "Finished" /\ s \in DOMAIN sources
    BY <1>1, <1>5 DEF WarpRemoveSource
  <2> QED BY <1>2, <1>5, <2>1 DEF WarpInv, PositionOk
<1> QED BY <1>4, <1>5

(* grandpa_warp_sync_response_ok, which keeps the proof for its verification. *)
LEMMA ResponseOkWarp ==
    ASSUME WarpAssumption, WarpInv, NEW proof \in Proofs,
           HandleResponseOk(proof.fragments, proof.final)
    PROVE  WarpInv' /\ DOMAIN sources' = DOMAIN sources /\ phase' # "Finished"
<1>1. PICK position : position = IF previous = None THEN StartPosition ELSE previous
  OBVIOUS
<1>2. position.set \in Nat
  BY <1>1 DEF WarpInv, PositionOk, Position, StartPosition, WarpAssumption, BlockNumbers,
              Tip, SetAfter
<1>3. verifier' = [set |-> position.set, fragments |-> proof.fragments, final |-> proof.final]
  BY <1>1 DEF HandleResponseOk
<1>4. verifier' \in Verifiers
  BY <1>2, <1>3 DEF Verifiers, Proofs
<1>5. /\ phase = "WarpSyncRequest" /\ phase' = "Verifier"
      /\ sources' = [sources EXCEPT ![source] = TRUE]
      /\ UNCHANGED <<source, previous, target>>
  BY DEF HandleResponseOk, Tried
<1> QED BY <1>4, <1>5 DEF WarpInv, PositionOk

(* grandpa_warp_sync_response_err goes on with another source. *)
LEMMA ResponseErrWarp ==
    ASSUME WarpAssumption, WarpInv, HandleResponseErr
    PROVE  WarpInv' /\ DOMAIN sources' = DOMAIN sources /\ phase' # "Finished"
<1>1. PICK srcs : srcs = Tried(source)
  OBVIOUS
<1>2. DOMAIN srcs = DOMAIN sources /\ srcs = [s \in DOMAIN srcs |-> srcs[s]]
  BY <1>1 DEF Tried, WarpInv
<1>3. WarpSyncRequestFromNextSource(srcs, previous)
  BY <1>1 DEF HandleResponseErr
<1> QED BY <1>2, <1>3, NextSource DEF WarpInv

(* Verifier::next: the block that is reached is signed by the set in force,  *)
(* and the set is the next one when the block changes it.                   *)
LEMMA ReachedPosition ==
    ASSUME WarpAssumption, verifier \in Verifiers, Len(verifier.fragments) > 0,
           NEW b, b = Head(verifier.fragments), FragmentValid(b)
    PROVE  /\ b \in BlockNumbers /\ b \in Nat \ {0}
           /\ SetAfterFragment(b) \in Nat /\ SetAfterFragment(b) = SetAfter(b)
<1>1. b \in Fragments /\ b # 0 /\ verifier.set \in Nat
  BY DEF Verifiers, FragmentValid, NoBlock
<1>2. b \in BlockNumbers /\ b \in Nat \ {0} /\ EraLength \in Nat \ {0}
  BY <1>1 DEF Fragments, BlockNumbers, NoBlock, WarpAssumption, Tip
<1>3. verifier.set = (b - 1) \div EraLength
  BY DEF FragmentValid, SigningSet
<1>4. CASE b % EraLength = 0
  <2>1. SetAfterFragment(b) = verifier.set + 1 /\ SetAfter(b) = verifier.set + 1
    BY <1>2, <1>3, <1>4, NextEra DEF SetAfterFragment, SetAfter, IsChange
  <2> QED BY <1>1, <1>2, <2>1
<1>5. CASE b % EraLength # 0
  <2>1. SetAfterFragment(b) = verifier.set + 0 /\ SetAfterFragment(b) = verifier.set
    BY <1>1, <1>5 DEF SetAfterFragment, IsChange
  <2>2. verifier.set + 0 = SetAfter(b)
    BY <1>2, <1>3, <1>5, NextEra DEF SetAfter
  <2> QED BY <1>1, <1>2, <2>1, <2>2
<1> QED BY <1>4, <1>5

(* process_one: verifying a fragment leaves the warp sync in order. *)
LEMMA VerifyWarp ==
    ASSUME WarpAssumption, WarpInv, VerifierNext
    PROVE  WarpInv' /\ DOMAIN sources' = DOMAIN sources /\ phase' # "Finished"
<1>0. phase = "Verifier" /\ verifier \in Verifiers /\ PositionOk(None)
  BY DEF VerifierNext, WarpInv, PositionOk
<1>1. CASE VerifyEmptyProof
  <2>1. PositionOk(StartPosition)
    BY DEF PositionOk, StartPosition, Position, SetAfter, WarpAssumption, BlockNumbers, Tip
  <2> QED BY <1>0, <1>1, <2>1 DEF VerifyEmptyProof, WarpInv, PositionOk
<1>2. CASE VerifyNotFinished
  <2>1. PICK b : b = Head(verifier.fragments)
    OBVIOUS
  <2>2. /\ FragmentValid(b) /\ Len(verifier.fragments) > 1
        /\ verifier' = [verifier EXCEPT !.set = SetAfterFragment(b), !.fragments = Tail(@)]
        /\ UNCHANGED <<phase, sources, source, previous, target, query>>
    BY <1>2, <2>1 DEF VerifyNotFinished
  <2>3. SetAfterFragment(b) \in Nat
    BY <1>0, <2>1, <2>2, ReachedPosition DEF Verifiers
  <2>4. verifier' \in Verifiers
    <3>1. PICK next, left : /\ next = SetAfterFragment(b) /\ left = Tail(verifier.fragments)
                            /\ verifier' = [verifier EXCEPT !.set = next, !.fragments = left]
      BY <2>2
    <3>2. left \in Seq(Fragments)
      <4>1. verifier.fragments \in Seq(Fragments) /\ Len(verifier.fragments) > 1
        BY <1>0, <2>2 DEF Verifiers
      <4> QED BY <3>1, <4>1
    <3> QED BY <1>0, <2>3, <3>1, <3>2 DEF Verifiers
  <2> QED BY <1>0, <2>2, <2>4 DEF WarpInv, PositionOk
<1>3. CASE VerifySuccess
  <2>1. PICK b : b = Head(verifier.fragments)
    OBVIOUS
  <2>2. FragmentValid(b) /\ Len(verifier.fragments) > 0
    BY <1>3, <2>1 DEF VerifySuccess
  <2>3. PICK reached : reached = [header |-> b, set |-> SetAfterFragment(b)]
    OBVIOUS
  <2>4. PositionOk(reached)
    BY <1>0, <2>1, <2>2, <2>3, ReachedPosition DEF PositionOk, Position
  <2>5. /\ IF verifier.final
           THEN phase' = "VirtualMachineParamsGet" /\ target' = reached /\ previous' = None
           ELSE phase' = "WarpSyncRequest" /\ previous' = reached /\ target' = None
        /\ UNCHANGED <<sources, source>>
    BY <1>3, <2>1, <2>3 DEF VerifySuccess
  <2> QED BY <1>0, <2>4, <2>5 DEF WarpInv, PositionOk
<1>4. CASE VerifyError
  BY <1>4, NextSource DEF VerifyError, WarpInv
<1> QED BY <1>1, <1>2, <1>3, <1>4 DEF VerifierNext

(* Every failure starts again from the first block ... *)
LEMMA StartOverWarp ==
    ASSUME WarpAssumption, WarpInv, StartOver
    PROVE  WarpInv' /\ DOMAIN sources' = DOMAIN sources /\ phase' # "Finished"
<1>1. PositionOk(None)
  BY DEF PositionOk
<1> QED BY <1>1, NextSource DEF StartOver, WarpInv

(* ... and the runtime calls either go on with the same sources or end.      *)
LEMMA FetchWarp ==
    ASSUME WarpAssumption, WarpInv, phase \in {"VirtualMachineParamsGet", "StorageGet"},
           NEW epoch, NEW left, NEW ok, FromBabeFetchEpochQuery(epoch, left, ok)
    PROVE  /\ WarpInv'
           /\ phase' # "Finished" => DOMAIN sources' = DOMAIN sources
<1>1. ASSUME NEW e, NEW l, FetchAsks(e, l)
      PROVE  WarpInv' /\ DOMAIN sources' = DOMAIN sources
  BY <1>1 DEF FetchAsks, WarpInv, PositionOk
<1>2. CASE FetchSucceeds
  BY <1>2 DEF FetchSucceeds, WarpInv, PositionOk
<1>3. CASE StartOver
  BY <1>3, StartOverWarp
<1> QED BY <1>1, <1>2, <1>3 DEF FromBabeFetchEpochQuery

(* storage_get_response: the values that are injected keep the warp sync in order. *)
LEMMA InjectWarp ==
    ASSUME WarpAssumption, WarpInv, NEW ok, SetVirtualMachineParams(ok) \/ InjectValue(ok)
    PROVE  /\ WarpInv'
           /\ phase' # "Finished" => DOMAIN sources' = DOMAIN sources
  BY FetchWarp, StartOverWarp DEF SetVirtualMachineParams, InjectValue

(* Some entries are removed from a map. *)
LEMMA WithoutIs ==
    ASSUME NEW f, NEW ks
    PROVE  /\ DOMAIN Without(f, ks) = DOMAIN f \ ks
           /\ \A x \in DOMAIN f \ ks : Without(f, ks)[x] = f[x]
  BY DEF Without, Restrict

(* A source is added to the state machine and to the strategy in use. *)
LEMMA AddSourceKeeps ==
    ASSUME WarpAssumption, IInv, NEW p, NEW outer, NEW inner, AddSource(p, outer, inner)
    PROVE  IInv'
<1>0. /\ mode # "Panicked" /\ outer \notin DOMAIN mapping /\ inner \notin DOMAIN owner
      /\ mapping' = Extended(mapping, outer, [mode |-> mode, id |-> inner])
      /\ owner' = Extended(owner, inner, [outer |-> outer, peer |-> p])
      /\ mode' = mode /\ requests' = requests /\ innerRequests' = innerRequests
  BY DEF AddSource
<1>1. /\ DOMAIN mapping' = DOMAIN mapping \cup {outer}
      /\ \A o \in DOMAIN mapping : mapping'[o] = mapping[o]
      /\ mapping'[outer] = [mode |-> mode, id |-> inner]
  BY <1>0 DEF Extended
<1>2. /\ DOMAIN owner' = DOMAIN owner \cup {inner}
      /\ \A i \in DOMAIN owner : owner'[i] = owner[i]
      /\ owner'[inner] = [outer |-> outer, peer |-> p]
  BY <1>0 DEF Extended
<1>3. WarpInv' /\ SourcesInv'
  <2>1. CASE mode = "GrandpaWarpSync"
    <3>1. WarpAddSource(inner)
      BY <2>1 DEF AddSource
    <3> QED BY <1>0, <1>2, <2>1, <3>1, AddSourceWarp DEF IInv, SourcesInv
  <2>2. CASE mode # "GrandpaWarpSync"
    BY <1>0, <2>2 DEF AddSource, IInv, SourcesInv, WarpInv, PositionOk, warpVars
  <2> QED BY <2>1, <2>2
<1>4. RequestsInv'
  BY <1>0 DEF IInv, RequestsInv
<1>5. SourcesConsistent'
  BY <1>0, <1>1, <1>2 DEF IInv, IdentifiersInv, SourcesConsistent
<1>6. RequestsConsistent'
  BY <1>0, <1>2 DEF IInv, IdentifiersInv, RequestsConsistent, Inline
<1> QED BY <1>3, <1>4, <1>5, <1>6 DEF IInv, IdentifiersInv

(* A source is removed from both, with the requests of the strategy that are *)
(* made to it.                                                               *)
LEMMA RemoveSourceKeeps ==
    ASSUME WarpAssumption, IInv, NEW outer, RemoveSource(outer)
    PROVE  IInv'
<1>1. PICK inner, gone, returned :
        /\ inner = mapping[outer].id /\ gone = RequestsOf(inner)
        /\ returned = ReturnedRequests(inner)
  OBVIOUS
<1>2. /\ mode # "Panicked" /\ outer \in DOMAIN mapping
      /\ mapping' = Without(mapping, {outer})
      /\ owner' = Without(owner, {inner})
      /\ requests' = Without(requests, returned)
      /\ innerRequests' = Without(innerRequests, gone)
      /\ mode' = mode
  BY <1>1 DEF RemoveSource
<1>3. /\ DOMAIN mapping' = DOMAIN mapping \ {outer}
      /\ \A o \in DOMAIN mapping \ {outer} : mapping'[o] = mapping[o]
      /\ DOMAIN owner' = DOMAIN owner \ {inner}
      /\ \A i \in DOMAIN owner \ {inner} : owner'[i] = owner[i]
  BY <1>2, WithoutIs
<1>4. /\ DOMAIN requests' = DOMAIN requests \ returned
      /\ \A r \in DOMAIN requests \ returned : requests'[r] = requests[r]
      /\ DOMAIN innerRequests' = DOMAIN innerRequests \ gone
      /\ \A i \in DOMAIN innerRequests \ gone : innerRequests'[i] = innerRequests[i]
  BY <1>2, WithoutIs
<1>5. /\ gone = {i \in DOMAIN innerRequests : innerRequests[i].source = inner}
      /\ \A r : r \in returned <=> \E i \in gone : r = innerRequests[i].outer
  BY <1>1 DEF RequestsOf, ReturnedRequests
<1>6. WarpInv' /\ SourcesInv'
  <2>1. CASE mode = "GrandpaWarpSync"
    <3>1. WarpRemoveSource(inner)
      BY <1>1, <2>1 DEF RemoveSource
    <3> QED BY <1>2, <1>3, <2>1, <3>1, RemoveSourceWarp DEF IInv, SourcesInv
  <2>2. CASE mode # "GrandpaWarpSync"
    BY <1>2, <2>2 DEF RemoveSource, IInv, SourcesInv, WarpInv, PositionOk, warpVars
  <2> QED BY <2>1, <2>2
<1>7. RequestsInv'
  BY <1>4 DEF IInv, RequestsInv
<1>8. IdentifiersInv'
  <2>1. SourcesConsistent /\ RequestsConsistent
    BY <1>2 DEF IInv, IdentifiersInv
  <2>2. owner[inner].outer = outer /\ inner \in DOMAIN owner
    BY <1>1, <1>2, <2>1 DEF SourcesConsistent
  <2>3. SourcesConsistent'
    <3>1. ASSUME NEW o \in DOMAIN mapping'
          PROVE  /\ mapping'[o].mode = mode' /\ mapping'[o].id \in DOMAIN owner'
                 /\ owner'[mapping'[o].id].outer = o
      <4>1. /\ o \in DOMAIN mapping \ {outer} /\ mapping'[o] = mapping[o]
            /\ mapping[o].mode = mode /\ mapping[o].id \in DOMAIN owner
            /\ owner[mapping[o].id].outer = o
        BY <1>3, <2>1 DEF SourcesConsistent
      <4>2. mapping[o].id # inner
        BY <2>2, <4>1
      <4> QED BY <1>2, <1>3, <4>1, <4>2
    <3>2. ASSUME NEW i \in DOMAIN owner'
          PROVE  owner'[i].outer \in DOMAIN mapping' /\ mapping'[owner'[i].outer].id = i
      <4>1. /\ i \in DOMAIN owner \ {inner} /\ owner'[i] = owner[i]
            /\ owner[i].outer \in DOMAIN mapping /\ mapping[owner[i].outer].id = i
        BY <1>3, <2>1 DEF SourcesConsistent
      <4>2. owner[i].outer # outer
        BY <1>1, <4>1
      <4> QED BY <1>3, <4>1, <4>2
    <3> QED BY <3>1, <3>2 DEF SourcesConsistent
  <2>4. Inline' = Inline \ returned
    BY <1>4 DEF Inline
  <2>5. ASSUME NEW r \in DOMAIN requests' \ Inline'
        PROVE  /\ requests'[r].mode = mode'
               /\ requests'[r].id \in DOMAIN innerRequests'
               /\ innerRequests'[requests'[r].id].outer = r
    <3>1. r \in DOMAIN requests \ Inline /\ r \notin returned
      BY <1>4, <2>4
    <3>2. requests[r].id \in DOMAIN innerRequests /\ innerRequests[requests[r].id].outer = r
          /\ requests[r].mode = mode
      BY <2>1, <3>1 DEF RequestsConsistent
    <3>3. requests[r].id \notin gone
      BY <1>5, <3>1, <3>2
    <3> QED BY <1>2, <1>4, <3>1, <3>2, <3>3
  <2>6. ASSUME NEW i \in DOMAIN innerRequests'
        PROVE  /\ innerRequests'[i].source \in DOMAIN owner'
               /\ innerRequests'[i].outer \in DOMAIN requests' \ Inline'
               /\ requests'[innerRequests'[i].outer].id = i
    <3>1. /\ i \in DOMAIN innerRequests /\ i \notin gone /\ innerRequests'[i] = innerRequests[i]
          /\ innerRequests[i].source # inner
      BY <1>4, <1>5
    <3>2. /\ innerRequests[i].source \in DOMAIN owner
          /\ innerRequests[i].outer \in DOMAIN requests \ Inline
          /\ requests[innerRequests[i].outer].id = i
      BY <2>1, <3>1 DEF RequestsConsistent
    <3>3. innerRequests[i].outer \notin returned
      <4>1. ASSUME NEW j \in gone, innerRequests[i].outer = innerRequests[j].outer
            PROVE  FALSE
        BY <1>5, <2>1, <3>1, <3>2, <4>1 DEF RequestsConsistent
      <4> QED BY <1>5, <4>1
    <3> QED BY <1>3, <1>4, <2>4, <3>1, <3>2, <3>3
  <2>7. RequestsConsistent'
    BY <2>5, <2>6 DEF RequestsConsistent
  <2> QED BY <2>3, <2>7 DEF IdentifiersInv
<1> QED BY <1>6, <1>7, <1>8 DEF IInv

(* When only requests change, the rest of the invariant is about them. *)
LEMMA OnlyRequests ==
    ASSUME IInv, UNCHANGED <<warpVars, mode, mapping, owner>>,
           RequestsInv', IdentifiersInv'
    PROVE  IInv'
  BY DEF IInv, WarpInv, SourcesInv, PositionOk, warpVars

(* A request of the warp sync is started. *)
LEMMA StartWarpKeeps ==
    ASSUME WarpAssumption, IInv, NEW r, StartWarpRequest(r)
    PROVE  IInv'
<1>1. PICK outer, detail, peer : detail = DesiredDetail /\ detail # None
        /\ requests' = Extended(requests, r, [ mode |-> "Inline", source |-> outer,
                                               detail |-> detail, peer |-> peer ])
  BY DEF StartWarpRequest
<1>2. /\ mode = "GrandpaWarpSync" /\ r \notin DOMAIN requests
      /\ UNCHANGED <<warpVars, mode, mapping, owner, innerRequests>>
  BY DEF StartWarpRequest
<1>3. /\ DOMAIN requests' = DOMAIN requests \cup {r}
      /\ \A q \in DOMAIN requests : requests'[q] = requests[q]
      /\ requests'[r] = [mode |-> "Inline", source |-> outer, detail |-> detail, peer |-> peer]
  BY <1>1, <1>2 DEF Extended
<1>4. detail.type = "GrandpaWarpSync" => detail.block \in BlockNumbers
  <2>1. StartOfRequest \in BlockNumbers
    BY DEF StartOfRequest, IInv, WarpInv, PositionOk, Position, WarpAssumption
  <2> QED BY <1>1, <2>1 DEF DesiredDetail
<1>5. RequestsInv'
  BY <1>3, <1>4 DEF IInv, RequestsInv
<1>6. Inline' = Inline \cup {r}
  BY <1>3 DEF Inline
<1>7. IdentifiersInv'
  BY <1>2, <1>3, <1>6 DEF IInv, IdentifiersInv, SourcesConsistent, RequestsConsistent, Inline
<1> QED BY <1>2, <1>5, <1>7, OnlyRequests

(* A request of the other strategies is started. *)
LEMMA StartBlocksKeeps ==
    ASSUME IInv, NEW outer, NEW r, NEW inner, StartBlocksRequest(outer, r, inner)
    PROVE  IInv'
<1>1. /\ mode \in {"AllForks", "Optimistic"} /\ r \notin DOMAIN requests
      /\ inner \notin DOMAIN innerRequests /\ outer \in DOMAIN mapping
      /\ UNCHANGED <<warpVars, mode, mapping, owner>>
  BY DEF StartBlocksRequest
<1>2. PICK src : src = mapping[outer].id
  OBVIOUS
<1>3. /\ requests' = Extended(requests, r, [mode |-> mode, id |-> inner])
      /\ innerRequests' = Extended(innerRequests, inner, [source |-> src, outer |-> r])
  BY <1>2 DEF StartBlocksRequest
<1>4. /\ DOMAIN requests' = DOMAIN requests \cup {r}
      /\ \A q \in DOMAIN requests : requests'[q] = requests[q]
      /\ requests'[r] = [mode |-> mode, id |-> inner]
  BY <1>1, <1>3 DEF Extended
<1>5. /\ DOMAIN innerRequests' = DOMAIN innerRequests \cup {inner}
      /\ \A i \in DOMAIN innerRequests : innerRequests'[i] = innerRequests[i]
      /\ innerRequests'[inner] = [source |-> src, outer |-> r]
  BY <1>1, <1>3 DEF Extended
<1>6. RequestsInv'
  BY <1>1, <1>4 DEF IInv, RequestsInv
<1>7. Inline' = Inline
  BY <1>1, <1>4 DEF Inline
<1>8. src \in DOMAIN owner
  BY <1>1, <1>2 DEF IInv, IdentifiersInv, SourcesConsistent, RequestsConsistent
<1>9. IdentifiersInv'
  BY <1>1, <1>4, <1>5, <1>7, <1>8 DEF IInv, IdentifiersInv, SourcesConsistent, RequestsConsistent, Inline
<1> QED BY <1>1, <1>6, <1>9, OnlyRequests

(* A request of the other strategies ends. *)
LEMMA BlocksResponseKeeps ==
    ASSUME IInv, NEW r, BlocksResponse(r)
    PROVE  IInv'
<1>1. PICK inner : inner = requests[r].id
  OBVIOUS
<1>2. /\ mode # "Panicked" /\ r \in DOMAIN requests \ Inline
      /\ requests' = Without(requests, {r})
      /\ innerRequests' = Without(innerRequests, {inner})
      /\ UNCHANGED <<warpVars, mode, mapping, owner>>
  BY <1>1 DEF BlocksResponse
<1>3. /\ DOMAIN requests' = DOMAIN requests \ {r}
      /\ \A q \in DOMAIN requests \ {r} : requests'[q] = requests[q]
      /\ DOMAIN innerRequests' = DOMAIN innerRequests \ {inner}
      /\ \A i \in DOMAIN innerRequests \ {inner} : innerRequests'[i] = innerRequests[i]
  BY <1>2, WithoutIs
<1>4. RequestsInv' /\ Inline' = Inline
  BY <1>2, <1>3 DEF IInv, RequestsInv, Inline
<1>5. SourcesConsistent /\ RequestsConsistent
  BY <1>2 DEF IInv, IdentifiersInv
<1>6. inner \in DOMAIN innerRequests /\ innerRequests[inner].outer = r
  BY <1>1, <1>2, <1>5 DEF RequestsConsistent
<1>7. ASSUME NEW q \in DOMAIN requests' \ Inline'
      PROVE  /\ requests'[q].mode = mode'
             /\ requests'[q].id \in DOMAIN innerRequests'
             /\ innerRequests'[requests'[q].id].outer = q
  <2>1. /\ q \in DOMAIN requests \ Inline /\ q # r /\ requests'[q] = requests[q]
        /\ requests[q].mode = mode /\ requests[q].id \in DOMAIN innerRequests
        /\ innerRequests[requests[q].id].outer = q
    BY <1>3, <1>4, <1>5 DEF RequestsConsistent
  <2>2. requests[q].id # inner
    BY <1>6, <2>1
  <2> QED BY <1>2, <1>3, <2>1, <2>2
<1>8. ASSUME NEW i \in DOMAIN innerRequests'
      PROVE  /\ innerRequests'[i].source \in DOMAIN owner'
             /\ innerRequests'[i].outer \in DOMAIN requests' \ Inline'
             /\ requests'[innerRequests'[i].outer].id = i
  <2>1. /\ i \in DOMAIN innerRequests /\ i # inner /\ innerRequests'[i] = innerRequests[i]
        /\ innerRequests[i].source \in DOMAIN owner
        /\ innerRequests[i].outer \in DOMAIN requests \ Inline
        /\ requests[innerRequests[i].outer].id = i
    BY <1>3, <1>5 DEF RequestsConsistent
  <2>2. innerRequests[i].outer # r
    BY <1>1, <2>1
  <2> QED BY <1>2, <1>3, <1>4, <2>1, <2>2
<1>9. IdentifiersInv'
  BY <1>2, <1>5, <1>7, <1>8 DEF IdentifiersInv, SourcesConsistent, RequestsConsistent
<1> QED BY <1>2, <1>4, <1>9, OnlyRequests

(* A request of the warp sync ends: the others stay as they are. *)
LEMMA InlineAnswered ==
    ASSUME IInv, mode # "Panicked", NEW r \in Inline, requests' = Without(requests, {r}),
           innerRequests' = innerRequests
    PROVE  /\ RequestsInv'
           /\ mode' = mode /\ owner' = owner => RequestsConsistent'
<1>1. /\ DOMAIN requests' = DOMAIN requests \ {r}
      /\ \A q \in DOMAIN requests \ {r} : requests'[q] = requests[q]
  BY WithoutIs
<1>2. DOMAIN requests' \ Inline' = DOMAIN requests \ Inline
  BY <1>1 DEF Inline
<1>3. RequestsInv'
  BY <1>1 DEF IInv, RequestsInv
<1>4. RequestsConsistent
  BY DEF IInv, IdentifiersInv
<1>5. ASSUME mode' = mode, owner' = owner
      PROVE  RequestsConsistent'
  BY <1>1, <1>2, <1>4, <1>5 DEF RequestsConsistent
<1> QED BY <1>3, <1>5

(* The other strategies have no request in the warp sync. *)
LEMMA NoOtherRequests ==
    ASSUME IInv, mode = "GrandpaWarpSync"
    PROVE  DOMAIN requests \ Inline = {} /\ DOMAIN innerRequests = {}
<1>1. DOMAIN requests \ Inline = {}
  BY DEF IInv, IdentifiersInv, RequestsConsistent, RequestsInv, Inline
<1> QED BY <1>1 DEF IInv, IdentifiersInv, RequestsConsistent

(* A request for a warp sync proof ends. *)
LEMMA WarpSyncResponseKeeps ==
    ASSUME WarpAssumption, AllSyncAssumption, IInv, NEW r, WarpSyncResponse(r)
    PROVE  IInv'
<1>1. /\ mode # "Panicked" /\ r \in Inline /\ requests' = Without(requests, {r})
      /\ requests[r].detail.type = "GrandpaWarpSync"
      /\ UNCHANGED <<mode, mapping, owner, innerRequests>>
  BY DEF WarpSyncResponse
<1>2. RequestsInv' /\ RequestsConsistent'
  BY <1>1, InlineAnswered
<1>3. SourcesConsistent'
  BY <1>1 DEF IInv, IdentifiersInv, SourcesConsistent
<1>4. WarpInv' /\ SourcesInv'
  <2>1. CASE UNCHANGED warpVars
    BY <1>1, <2>1 DEF IInv, WarpInv, SourcesInv, PositionOk, warpVars
  <2>2. ASSUME NEW proof \in ProofsBy(requests[r].peer, requests[r].detail.block),
               HandleResponseOk(proof.fragments, proof.final)
        PROVE  WarpInv' /\ SourcesInv'
    <3>1. requests[r].detail.block \in BlockNumbers
      BY <1>1 DEF IInv, RequestsInv, Inline
    <3>2. proof \in Proofs
      BY <2>2, <3>1, ProofsTyped
    <3> QED BY <1>1, <2>2, <3>2, ResponseOkWarp DEF IInv, SourcesInv
  <2>3. CASE HandleResponseErr
    BY <1>1, <2>3, ResponseErrWarp DEF IInv, SourcesInv
  <2> QED BY <2>1, <2>2, <2>3 DEF WarpSyncResponse
<1> QED BY <1>2, <1>3, <1>4 DEF IInv, IdentifiersInv

(* transition_grandpa_warp_sync_all_forks: whatever the new identifiers are, *)
(* each source of the state machine keeps its own.                           *)
LEMMA TransitionKeeps ==
    ASSUME SourcesConsistent, Transition
    PROVE  SourcesConsistent'
<1>1. PICK renumbered \in Injection(DOMAIN owner, SourceIds) :
        /\ mode' = "AllForks"
        /\ mapping' = TransitionedMapping(renumbered)
        /\ owner' = [ i \in Range(renumbered) |->
                        owner[CHOOSE j \in DOMAIN owner : renumbered[j] = i] ]
  BY DEF Transition
<1>2. /\ renumbered \in [DOMAIN owner -> SourceIds]
      /\ \A i, j \in DOMAIN owner : renumbered[i] = renumbered[j] => i = j
  BY DEF Injection, IsInjective
<1>3. /\ DOMAIN owner' = Range(renumbered)
      /\ Range(renumbered) = {renumbered[j] : j \in DOMAIN owner}
  BY <1>1, <1>2 DEF Range
<1>4. ASSUME NEW j \in DOMAIN owner
      PROVE  renumbered[j] \in DOMAIN owner' /\ owner'[renumbered[j]] = owner[j]
  <2>1. (CHOOSE k \in DOMAIN owner : renumbered[k] = renumbered[j]) = j
    BY <1>2
  <2> QED BY <1>1, <1>3, <2>1
<1>5. /\ DOMAIN mapping' = DOMAIN mapping
      /\ \A o \in DOMAIN mapping :
            mapping'[o].mode = "AllForks" /\ mapping'[o].id = renumbered[mapping[o].id]
  BY <1>1 DEF TransitionedMapping
<1>6. ASSUME NEW o \in DOMAIN mapping'
      PROVE  /\ mapping'[o].mode = mode' /\ mapping'[o].id \in DOMAIN owner'
             /\ owner'[mapping'[o].id].outer = o
  <2>1. PICK j \in DOMAIN owner : j = mapping[o].id /\ owner[j].outer = o
    BY <1>5 DEF SourcesConsistent
  <2> QED BY <1>1, <1>4, <1>5, <2>1
<1>7. ASSUME NEW i \in DOMAIN owner'
      PROVE  owner'[i].outer \in DOMAIN mapping' /\ mapping'[owner'[i].outer].id = i
  <2>1. PICK j \in DOMAIN owner : i = renumbered[j]
    BY <1>3
  <2>2. owner'[i] = owner[j] /\ owner[j].outer \in DOMAIN mapping /\ mapping[owner[j].outer].id = j
    BY <1>4, <2>1 DEF SourcesConsistent
  <2> QED BY <1>5, <2>1, <2>2
<1> QED BY <1>6, <1>7 DEF SourcesConsistent

(* A request for storage values ends. *)
LEMMA StorageResponseKeeps ==
    ASSUME WarpAssumption, IInv, NEW r, StorageResponse(r)
    PROVE  IInv'
<1>1. /\ mode # "Panicked" /\ r \in Inline /\ requests' = Without(requests, {r})
      /\ innerRequests' = innerRequests
  BY DEF StorageResponse
<1>2. RequestsInv' /\ (mode' = mode /\ owner' = owner => RequestsConsistent')
  BY <1>1, InlineAnswered
<1>3. SourcesConsistent /\ WarpInv /\ SourcesInv
  BY <1>1 DEF IInv, IdentifiersInv
<1>4. CASE /\ UNCHANGED <<mode, mapping, owner>>
           /\ WarpInv' /\ (mode = "GrandpaWarpSync" => phase' # "Finished" /\ DOMAIN sources' = DOMAIN sources)
  <2>1. SourcesConsistent' /\ RequestsConsistent'
    BY <1>2, <1>3, <1>4 DEF SourcesConsistent
  <2>2. SourcesInv'
    BY <1>3, <1>4 DEF SourcesInv
  <2> QED BY <1>2, <1>4, <2>1, <2>2 DEF IInv, IdentifiersInv
<1>5. CASE InjectAnswer(r)
  <2>1. mode = "GrandpaWarpSync" /\ phase \in {"VirtualMachineParamsGet", "StorageGet"}
    BY <1>5 DEF InjectAnswer, InWarpSync
  <2>2. WarpInv' /\ (phase' # "Finished" => DOMAIN sources' = DOMAIN sources)
    BY <1>3, <1>5, InjectWarp DEF InjectAnswer
  <2>3. CASE phase' # "Finished"
    <3>1. UNCHANGED <<mode, mapping, owner>>
      BY <1>5, <2>3 DEF InjectAnswer
    <3> QED BY <1>4, <2>2, <2>3, <3>1
  <2>4. CASE phase' = "Finished"
    <3>1. Transition
      BY <1>5, <2>4 DEF InjectAnswer
    <3>2. mode' = "AllForks"
      BY <3>1 DEF Transition
    <3>3. SourcesConsistent'
      BY <1>3, <3>1, TransitionKeeps
    <3>4. /\ DOMAIN innerRequests' = {}
          /\ DOMAIN requests' \ Inline' = {}
      <4>1. DOMAIN requests \ Inline = {} /\ DOMAIN innerRequests = {}
        BY <2>1, NoOtherRequests
      <4>2. /\ DOMAIN requests' = DOMAIN requests \ {r}
            /\ \A q \in DOMAIN requests \ {r} : requests'[q] = requests[q]
        BY <1>1, WithoutIs
      <4> QED BY <1>1, <4>1, <4>2 DEF Inline
    <3>5. RequestsConsistent'
      BY <3>4 DEF RequestsConsistent
    <3> QED BY <1>2, <2>2, <3>2, <3>3, <3>5 DEF IInv, IdentifiersInv, SourcesInv
  <2> QED BY <2>3, <2>4
<1>6. CASE InjectError /\ UNCHANGED <<mode, mapping, owner>>
  BY <1>3, <1>4, <1>6, StartOverWarp DEF InjectError
<1>7. CASE mode' = "Panicked" /\ UNCHANGED <<warpVars, mapping, owner>>
  <2>1. WarpInv'
    BY <1>3, <1>7 DEF WarpInv, PositionOk, warpVars
  <2> QED BY <1>2, <1>7, <2>1 DEF IInv, IdentifiersInv, SourcesInv
<1>8. CASE UNCHANGED <<warpVars, mode, mapping, owner>>
  <2>1. WarpInv'
    BY <1>3, <1>8 DEF WarpInv, PositionOk, warpVars
  <2>2. phase' = phase /\ sources' = sources
    BY <1>8 DEF warpVars
  <2> QED BY <1>3, <1>4, <1>8, <2>1, <2>2 DEF SourcesInv
<1> QED BY <1>5, <1>6, <1>7, <1>8 DEF StorageResponse

(* process_one changes nothing but the warp sync. *)
LEMMA VerifyKeeps ==
    ASSUME WarpAssumption, IInv, VerifyWarpSyncFragment
    PROVE  IInv'
<1>1. mode = "GrandpaWarpSync" /\ VerifierNext
      /\ UNCHANGED <<mode, mapping, owner, requests, innerRequests>>
  BY DEF VerifyWarpSyncFragment, syncVars
<1>2. WarpInv' /\ SourcesInv'
  BY <1>1, VerifyWarp DEF IInv, SourcesInv
<1>3. RequestsInv' /\ SourcesConsistent' /\ RequestsConsistent'
  BY <1>1 DEF IInv, IdentifiersInv, RequestsInv, SourcesConsistent, RequestsConsistent, Inline
<1> QED BY <1>2, <1>3 DEF IInv, IdentifiersInv

(* Nothing is known, and nobody is connected, at the start. *)
LEMMA InitKeeps == ASSUME WarpAssumption, AllSyncAssumption, Init PROVE IInv
<1>1. DOMAIN << >> = {} /\ << >> = [x \in {} |-> None]
  OBVIOUS
<1>2. WarpInv
  BY <1>1 DEF Init, WarpInit, WarpInv, PositionOk
<1>3. SourcesInv /\ RequestsInv
  BY <1>1 DEF Init, WarpInit, SourcesInv, RequestsInv
<1>4. IdentifiersInv
  BY <1>1 DEF Init, IdentifiersInv, SourcesConsistent, RequestsConsistent
<1> QED BY <1>2, <1>3, <1>4 DEF IInv

(* No step breaks the invariant. *)
LEMMA NextKeeps == ASSUME WarpAssumption, AllSyncAssumption, IInv, [Next]_vars PROVE IInv'
<1>1. CASE UNCHANGED vars
  BY <1>1 DEF vars, syncVars, warpVars, IInv, WarpInv, SourcesInv, RequestsInv, IdentifiersInv,
              SourcesConsistent, RequestsConsistent, PositionOk, Inline
<1>2. CASE Next
  BY <1>2, AddSourceKeeps, RemoveSourceKeeps, StartWarpKeeps, StartBlocksKeeps,
     BlocksResponseKeeps, WarpSyncResponseKeeps, StorageResponseKeeps, VerifyKeeps
     DEF Next, StartSomeWarpRequest
<1> QED BY <1>1, <1>2

(* The invariant implies what is claimed. *)
LEMMA InvariantImpliesSound == ASSUME IInv PROVE AllSyncSound
<1>1. IdentifiersConsistent
  BY DEF IInv, IdentifiersInv, SourcesConsistent, RequestsConsistent, IdentifiersConsistent
<1>2. CurrentSourceKnown
  <2>1. DOMAIN sources = {} => sources = << >>
    BY EmptyFunction DEF IInv, WarpInv
  <2> QED BY <2>1 DEF IInv, WarpInv, SourcesInv, CurrentSourceKnown
<1>3. PositionSound
  BY DEF IInv, WarpInv, PositionOk, PositionSound
<1> QED BY <1>1, <1>2, <1>3 DEF AllSyncSound

(* Whoever connects, leaves or answers, and whatever they answer, outer and  *)
(* inner identifiers of sources and requests correspond through every change *)
(* of strategy, the warp sync waits for a source that it has, and the        *)
(* authorities that go with the header it has reached are those in force     *)
(* there (all.rs, warp_sync.rs): for every chain, every number of peers and  *)
(* of requests, and whichever identifiers the slabs give.                    *)
THEOREM SyncSound ==
    ASSUME WarpAssumption, AllSyncAssumption PROVE Spec => []AllSyncSound
<1>1. Init => IInv
  BY InitKeeps
<1>2. IInv /\ [Next]_vars => IInv'
  BY NextKeeps
<1>3. IInv => AllSyncSound
  BY InvariantImpliesSound
<1> QED BY <1>1, <1>2, <1>3, PTL DEF Spec
=============================================================================
