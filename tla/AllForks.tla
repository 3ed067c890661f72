------------------------------ MODULE AllForks ------------------------------
(***************************************************************************)
(* src/src/sync/all_forks.rs: the synchronization of the tree of the        *)
(* non-finalized blocks with that of the sources, for a light client        *)
(* (Config::full is false).                                                 *)
(*                                                                         *)
(* The chain of module BlocksTree is reduced to the set of its blocks and   *)
(* its finalized block; whether a header is valid is a constant of the      *)
(* block.  Of GrandPa the model keeps which blocks change the authorities   *)
(* (without delay): what descends from one of them cannot be finalized      *)
(* before it.  All commits and justifications are genuine.                  *)
(***************************************************************************)
EXTENDS PendingBlocks, Sequences

CONSTANTS
    Nil,
    Invalid,         \* blocks whose header fails the verification
    Banned,          \* Config::banned_blocks
    Headerless,      \* no header has this hash and this height
    Changes,         \* blocks that change the GrandPa authorities
    Commits,         \* targets of the commit messages
    Justified,       \* blocks that come with a justification
    MaxUnverified,   \* the limit to the number of unverified blocks; 100
    MayFail          \* sources may answer with nothing, or something else

ForksAssumption ==
    /\ Genesis \in Blocks /\ Parent \in [Blocks \ {Genesis} -> Blocks]
    /\ PendingBlocksAssumption
    /\ MayFail \in BOOLEAN

(***************************************************************************)
(* SourcePendingJustificationProofs: between zero and two finality proofs,  *)
(* sorted by the height of their target.  An entry holds the items of a     *)
(* proof: one commit, or the justifications that came with a block.         *)
(***************************************************************************)
Entry(height, items) == [height |-> height, items |-> items]

InsertProofHighest(proofs, e) ==
    IF proofs = <<>> \/ proofs[Len(proofs)].height <= e.height THEN <<e>> ELSE proofs

(* Of more than two, the lowest and the highest are kept; the newest wins   *)
(* between two of the same height.                                          *)
InsertProof(proofs, e) ==
    LET n == Len(proofs)
    IN  CASE n = 0 \/ (n = 1 /\ proofs[n].height = e.height) -> <<e>>
          [] n > 0 /\ (proofs[n].height < e.height \/ (n = 2 /\ proofs[n].height = e.height)) ->
                <<proofs[1], e>>
          [] n > 0 /\ (e.height < proofs[1].height \/ (n = 2 /\ e.height = proofs[1].height)) ->
                <<e, proofs[n]>>
          [] OTHER -> proofs

(* take_one: the last item of the highest proof. *)
TakenItem(proofs) == LET items == proofs[Len(proofs)].items IN items[Len(items)]
AfterTakeOne(proofs) ==
    LET n == Len(proofs)
        items == proofs[n].items
    IN  IF Len(items) = 1 THEN SubSeq(proofs, 1, n - 1)
        ELSE [proofs EXCEPT ![n].items = SubSeq(items, 1, Len(items) - 1)]

(* merge: the highest of the other is inserted first. *)
MergeProofs(proofs, other) ==
    CASE Len(other) = 0 -> proofs
      [] Len(other) = 1 -> InsertProof(proofs, other[1])
      [] OTHER -> InsertProof(InsertProof(proofs, other[2]), other[1])

VARIABLES
    pb,              \* inner.blocks
    tree, finalized, \* chain
    proofs,          \* finality proofs of each source
    search           \* the FinishAncestrySearch in progress, or Nil

vars == <<pb, tree, finalized, proofs, search>>

Init ==
    /\ pb = NewCollection(0)
    /\ tree = {} /\ finalized = Genesis
    /\ proofs = Empty
    /\ search = Nil

Idle == search = Nil
IsSource(s) == s \in DOMAIN pb.sources.best
Old(b) == Height(b) <= Height(finalized)
OutsideFinalizedChain(b) == Height(b) = Height(finalized) + 1 /\ Parent[b] # finalized

KnowsOnlyTheBlock(p, s, b) == OnSources(p, AddKnownBlock(p.sources, s, b))

(* What a source that sends the header of b is known to know. *)
Knows(p, s, b) ==
    OnSources(p, AddKnownBlock(AddKnownBlock(p.sources, s, b), s, Parent[b]))
KnowsBest(p, s, b) ==
    OnSources(p, AddKnownBlock(AddKnownBlockAndSetBest(p.sources, s, b), s, Parent[b]))

(***************************************************************************)
(* The limit to the number of unverified blocks                            *)
(***************************************************************************)
Forget(p, b) == RemoveUnverified(OnSources(p, RemoveKnownBlock(p.sources, b)), b)

(* The possible outcomes of the loop. *)
Trimmed(p) ==
    LET round(q) == IF Cardinality(DOMAIN q.blocks) >= MaxUnverified /\ FirstUnnecessary(q) # {}
                    THEN {Forget(q, b) : b \in FirstUnnecessary(q)}
                    ELSE {q}
        loop[n \in 0..Cardinality(Blocks)] ==
            IF n = 0 THEN {p} ELSE UNION {round(q) : q \in loop[n - 1]}
    IN  loop[Cardinality(Blocks)]

(***************************************************************************)
(* Sources                                                                 *)
(***************************************************************************)
MarkIf(bad, p, b) == IF bad THEN MarkBad(p, b) ELSE p

InsertBestUnbanned(p, b) ==
    IF Old(b) \/ b \in tree \/ b \in DOMAIN p.blocks THEN p
    ELSE InsertUnverified(p, b, "HeightHashKnown")

(* add_source_and_insert_block, when the best block is unknown. *)
InsertBest(p, b) ==
    IF Old(b) \/ b \in tree \/ b \in DOMAIN p.blocks THEN p
    ELSE MarkIf(b \in Banned, InsertUnverified(p, b, "HeightHashKnown"), b)

(* prepare_add_source, then add_source *)
AddSource(b) ==
    /\ Idle
    /\ pb.sources.next < MaxSources
    /\ pb' = InsertBest(OnSources(pb, NewSource(pb.sources, b)), b)
    /\ proofs' = [s \in DOMAIN proofs \cup {pb.sources.next} |->
                     IF s = pb.sources.next THEN [unverified |-> <<>>, pending |-> <<>>]
                     ELSE proofs[s]]
    /\ UNCHANGED <<tree, finalized, search>>

DropASource(s) ==
    /\ Idle
    /\ pb' = DropSource(pb, s)
    /\ proofs' = [x \in DOMAIN proofs \ {s} |-> proofs[x]]
    /\ UNCHANGED <<tree, finalized, search>>

(***************************************************************************)
(* block_announce and what the user does of its outcome                    *)
(***************************************************************************)
AnnounceKnown(p, b) ==
    IF b \in tree THEN p
    ELSE MarkIf(OutsideFinalizedChain(b), SetHeaderKnown(p, b), b)

AnnounceUnknown(p, b) ==
    MarkIf(b \in Banned \/ OutsideFinalizedChain(b), InsertUnverified(p, b, "HeaderKnown"), b)

BlockAnnounce(s, b, isBest) ==
    LET p == IF isBest THEN KnowsBest(pb, s, b) ELSE Knows(pb, s, b)
    IN  /\ Idle
        /\ b \notin Headerless
        /\ CASE Old(b) ->
                  pb' = IF isBest THEN OnSources(pb, AddKnownBlockAndSetBest(pb.sources, s, b))
                        ELSE pb
             [] ~Old(b) /\ b \in tree \cup DOMAIN pb.blocks -> pb' = AnnounceKnown(p, b)
             [] OTHER -> pb' \in Trimmed(AnnounceUnknown(p, b))
        /\ UNCHANGED <<tree, finalized, proofs, search>>

(***************************************************************************)
(* Requests.  The answer to one is a list of headers, each the parent of    *)
(* the previous one.                                                        *)
(***************************************************************************)
Desired == {r \in DesiredRequests(pb) : r[2] \notin tree}

AddRequest(id, s, b) ==
    /\ Idle
    /\ FreeRequestId(pb, id)
    /\ <<s, b>> \in Desired
    /\ pb' = NewRequest(pb, id, s, b)
    /\ UNCHANGED <<tree, finalized, proofs, search>>

FinishAncestrySearch(id) ==
    /\ Idle
    /\ pb' = EndRequest(pb, id)
    /\ search' = [source |-> pb.requests[id].source, requested |-> pb.requests[id].first,
                  next |-> pb.requests[id].first, progress |-> FALSE]
    /\ UNCHANGED <<tree, finalized, proofs>>

Answered == ~Idle /\ search.next \notin Headerless

(* TooOld, AlreadyInChain (which the user cancels) and NotFinalizedChain *)
AddBlockStops ==
    /\ Answered
    /\ \/ Old(search.next)
       \/ search.next \in tree
       \/ OutsideFinalizedChain(search.next)
    /\ search' = Nil
    /\ UNCHANGED <<pb, tree, finalized, proofs>>

Acceptable(b) == Answered /\ b = search.next /\ ~Old(b)

NextHeader(b) == search' = [search EXCEPT !.next = Parent[b], !.progress = TRUE]

AddBlockOccupied(b) ==
    /\ Acceptable(b)
    /\ \/ b \in tree /\ pb' = Knows(pb, search.source, b)
       \/ /\ b \in DOMAIN pb.blocks
          /\ ~OutsideFinalizedChain(b)
          /\ pb' = SetHeaderKnown(Knows(pb, search.source, b), b)
    /\ NextHeader(b)
    /\ UNCHANGED <<tree, finalized, proofs>>

AddBlockVacant(b, justified) ==
    LET s == search.source
        p == InsertUnverified(Knows(pb, s, b), b, "HeaderKnown")
        e == Entry(Height(b), <<[kind |-> "Justification", target |-> b]>>)
    IN  /\ Acceptable(b)
        /\ b \notin tree \cup DOMAIN pb.blocks
        /\ ~OutsideFinalizedChain(b)
        /\ justified => b \in Justified
        /\ proofs' = IF justified
                     THEN [proofs EXCEPT ![s].unverified = InsertProof(@, e)]
                     ELSE proofs
        /\ pb' \in Trimmed(MarkIf(b \in Banned, p, b))
        /\ NextHeader(b)
        /\ UNCHANGED <<tree, finalized>>

(* The end of the answer, or a block that was not expected.  Without any    *)
(* useful block, the source is assumed not to know the one it was asked.    *)
FinishSearch ==
    /\ ~Idle
    /\ MayFail \/ search.progress
    /\ pb' = IF search.progress THEN pb
             ELSE OnSources(pb, SourceRemoveKnownBlock(pb.sources, search.source,
                                                       search.requested))
    /\ search' = Nil
    /\ UNCHANGED <<tree, finalized, proofs>>

(***************************************************************************)
(* Finality                                                                *)
(***************************************************************************)
Verdict(t) ==
    CASE t = finalized \/ Height(t) < Height(finalized) -> "AlreadyFinalized"
      [] Height(t) = Height(finalized) /\ t # finalized -> "Error"
      [] Height(t) > Height(finalized) /\ t \notin tree -> "Unknown"
      [] t \in tree /\ (Above[t] \cap tree \cap Changes) \ {t} # {} -> "TooFarAhead"
      [] OTHER -> "Success"

ApplyFinality(t) ==
    /\ finalized' = t
    /\ tree' = {b \in tree \ {t} : t \in Above[b]}

StoreCommit(list, t) ==
    InsertProof(list, Entry(Height(t), <<[kind |-> "Commit", target |-> t]>>))

(* The heights known to inner.blocks stay as they are. *)
GrandpaCommitMessage(s, t) ==
    /\ Idle
    /\ CASE Verdict(t) = "Success" -> ApplyFinality(t) /\ UNCHANGED proofs
         [] Verdict(t) \in {"Unknown", "TooFarAhead"} ->
               /\ proofs' = [proofs EXCEPT ![s].pending = StoreCommit(@, t)]
               /\ UNCHANGED <<tree, finalized>>
         [] OTHER -> UNCHANGED <<proofs, tree, finalized>>
    /\ UNCHANGED <<pb, search>>

(* The blocks that were just finalized are listed from the target upwards;  *)
(* the height of the last one is that of the child of the former finalized  *)
(* block.                                                                   *)
FinalizedHeightAfter(t) == Height(finalized) + 1

FinalityProofVerify(s) ==
    LET list    == proofs[s].unverified
        item    == TakenItem(list)
        t       == item.target
        verdict == Verdict(t)
        left    == [proofs EXCEPT ![s].unverified = AfterTakeOne(@)]
    IN  /\ Idle
        /\ list # <<>>
        /\ IF verdict = "Success"
           THEN ApplyFinality(t) /\ pb' = SetFinalizedHeight(pb, FinalizedHeightAfter(t))
           ELSE UNCHANGED <<tree, finalized, pb>>
        /\ proofs' = IF item.kind = "Commit" /\ verdict \in {"Unknown", "TooFarAhead"}
                     THEN [left EXCEPT ![s].pending = StoreCommit(@, t)] ELSE left
        /\ UNCHANGED search

(***************************************************************************)
(* Verification of headers, when there is no finality proof to verify      *)
(***************************************************************************)
NoProofToVerify == \A s \in DOMAIN proofs : proofs[s].unverified = <<>>
Verifiable == {b \in UnverifiedLeaves(pb) : Parent[b] \in tree \cup {finalized}}

VerifiedStillPending(b) ==
    /\ tree' = tree \cup {b}
    /\ UNCHANGED <<pb, proofs>>

(* A header that was inserted may make finality proofs verifiable. *)
Verified(b) ==
    /\ tree' = tree \cup {b}
    /\ pb' = RemoveUnverified(pb, b)
    /\ proofs' = [s \in DOMAIN proofs |->
                     [unverified |-> MergeProofs(proofs[s].unverified, proofs[s].pending),
                      pending |-> <<>>]]

HeaderVerify(b) ==
    /\ Idle
    /\ NoProofToVerify
    /\ b \in Lowest(Verifiable)
    /\ IF b \in Invalid THEN pb' = MarkBad(pb, b) /\ UNCHANGED <<tree, proofs>>
       ELSE Verified(b)
    /\ UNCHANGED <<finalized, search>>

Next ==
    \/ \E b \in Blocks : AddSource(b)
    \/ \E s \in DOMAIN pb.sources.best :
          \/ DropASource(s)
          \/ \E b \in Blocks, isBest \in BOOLEAN : BlockAnnounce(s, b, isBest)
          \/ \E t \in Commits : GrandpaCommitMessage(s, t)
          \/ FinalityProofVerify(s)
    \/ \E id \in RequestIds, s \in DOMAIN pb.sources.best, b \in Blocks : AddRequest(id, s, b)
    \/ \E id \in DOMAIN pb.requests : FinishAncestrySearch(id)
    \/ AddBlockStops
    \/ \E b \in Blocks : \/ AddBlockOccupied(b)
                         \/ \E justified \in BOOLEAN : AddBlockVacant(b, justified)
    \/ FinishSearch
    \/ \E b \in Blocks : HeaderVerify(b)

Spec == Init /\ [][Next]_vars

(* The user of the state machine starts the requests that are desired,      *)
(* hands over their answers, which sources end up giving, and calls         *)
(* process_one until there is nothing to do.  An answer is processed at     *)
(* once by the code: it only delays, and does not disable, the rest.        *)
RequestSome(s, b) == \E id \in RequestIds : IsSource(s) /\ AddRequest(id, s, b)
AnswerTo(id) == id \in DOMAIN pb.requests /\ FinishAncestrySearch(id)
SearchStep ==
    \/ AddBlockStops
    \/ \E b \in Blocks : AddBlockOccupied(b) \/ \E j \in BOOLEAN : AddBlockVacant(b, j)
    \/ FinishSearch
ProcessOne == (\E s \in DOMAIN proofs : FinalityProofVerify(s)) \/ \E b \in Blocks : HeaderVerify(b)

Fairness ==
    /\ \A s \in 0..(MaxSources - 1), b \in Blocks : SF_vars(RequestSome(s, b))
    /\ \A id \in RequestIds : SF_vars(AnswerTo(id))
    /\ WF_vars(SearchStep)
    /\ SF_vars(ProcessOne)

FairSpec == Spec /\ Fairness

(***************************************************************************)
(* Properties                                                              *)
(***************************************************************************)

(* The chain only contains valid blocks that descend from the finalized one *)
(* and none that the user banned, however the block came to be known: as    *)
(* the best block of a new source, by an announcement or by an answer.      *)
ChainSound ==
    /\ (tree \cup {finalized}) \cap (Invalid \cup Banned) = {}
    /\ \A b \in tree : finalized \in Above[b] /\ Parent[b] \in tree \cup {finalized}

(* "(true, true) => unreachable!()" in prepare_add_source, and the          *)
(* duplicates that HeaderVerify::perform excludes: no block is at the same  *)
(* time verified and waiting for it.                                        *)
PendingNotInChain == DOMAIN pb.blocks \cap (tree \cup {finalized}) = {}

(* "The request_id is an index in PendingBlocks::requests": each entry of   *)
(* blocks_requests names a request in progress, and each request has the    *)
(* entry of its first block; desired_requests indexes the slab with these   *)
(* identifiers and panics on one that was freed.  It also asserts that no   *)
(* block is asked for more often than max_requests_per_block.               *)
RequestsConsistent ==
    /\ \A e \in pb.blocksRequests : e[2] \in DOMAIN pb.requests
    /\ \A id \in DOMAIN pb.requests : <<pb.requests[id].first, id>> \in pb.blocksRequests
    /\ \A b \in UnknownHeaders(pb) : Cardinality(RequestsFor(pb, b)) <= MaxRequestsPerBlock

(* Nothing at or below the height that the collection believes finalized is *)
(* left, neither as a block (num_blocks of a request would be zero) nor as  *)
(* the knowledge of a source (set_finalized_block_height asserts there is   *)
(* none), and that height is never ahead of the chain.                      *)
AboveFinalized ==
    /\ \A b \in DOMAIN pb.blocks : Height(b) > pb.sources.finalized
    /\ \A k \in pb.sources.known : Height(k[2]) > pb.sources.finalized
    /\ pb.sources.finalized <= Height(finalized)

(* "Keeping the finality proof with the lowest target block guarantees that *)
(* [...] we will be able to make some progress": unless it is handed over   *)
(* to the verification or its source leaves, the proof with the lowest      *)
(* target is only replaced by one with a target as low.                     *)
LowestOf(p) == IF p.unverified \o p.pending = <<>> THEN Nil
               ELSE CHOOSE h \in 0..MaxHeight :
                       LET hs == {(p.unverified \o p.pending)[j].height :
                                     j \in 1..Len(p.unverified \o p.pending)}
                       IN  h \in hs /\ \A g \in hs : h <= g
LowestProofKept ==
    [][\A s \in DOMAIN proofs \cap DOMAIN proofs' :
          LowestOf(proofs[s]) # Nil /\ ~FinalityProofVerify(s) =>
              /\ LowestOf(proofs'[s]) # Nil
              /\ LowestOf(proofs'[s]) <= LowestOf(proofs[s])]_vars

(* "Note that the download of long forks will always work no matter this    *)
(* limit": the best block of a source, if it is valid and descends from the *)
(* finalized block, ends up verified.                                       *)
Settled(b) ==
    \/ b \in tree \/ Old(b) \/ finalized \notin Above[b]
    \/ Above[b] \cap (Invalid \cup Banned \cup Headerless) # {}
BestEventuallySynced ==
    \A s \in 0..(MaxSources - 1), b \in Blocks :
        (IsSource(s) /\ pb.sources.best[s] = b)
            ~> (~IsSource(s) \/ pb.sources.best[s] # b \/ Settled(b))
=============================================================================
