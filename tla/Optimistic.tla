----------------------------- MODULE Optimistic -----------------------------
(***************************************************************************)
(* src/src/sync/optimistic.rs, with the queue of                            *)
(* optimistic/verification_queue.rs: a chain is built by asking sources for *)
(* consecutive ranges of blocks, by height, ahead of their verification.    *)
(* A block that fails to verify brings the sync back to the finalized       *)
(* block.                                                                   *)
(*                                                                         *)
(* The sources are the environment: each one serves the blocks of one       *)
(* branch, answers a request with at least one block, the first of which    *)
(* has the height asked for (network/service.rs, check_blocks_response),    *)
(* and may answer with fewer blocks or not at all.  Like the callers in     *)
(* sync_service/standalone.rs and consensus_service.rs, the environment     *)
(* gives a source one request at a time.                                    *)
(***************************************************************************)
EXTENDS Integers, FiniteSets, SequencesExt

CONSTANTS
    Nil,
    Blocks,         \* every block there is, the first finalized one included
    Genesis,        \* that block
    Parent,         \* the parent of each other block
    Invalid,        \* the blocks whose verification fails
    Justified,      \* the blocks for which a justification exists
    Upgrades,       \* the blocks that change the runtime
    Tips,           \* Tips[s]: the end of the branch that source s serves
    Full,           \* Config::full: are bodies verified?
    DownloadAhead,  \* Config::download_ahead_blocks
    Clamp,          \* the callers clamp requests to that number of blocks
    MayFail,        \* do requests fail?
    MayShorten,     \* are answers shorter than asked for?
    MayLeave,       \* do sources disconnect?
    MaxRequests     \* bound: number of requests at the same time

OptimisticAssumption ==
    /\ Genesis \in Blocks
    /\ Parent \in [Blocks \ {Genesis} -> Blocks]
    /\ Invalid \cup Justified \cup Upgrades \subseteq Blocks \ {Genesis}
    /\ Tips \in Seq(Blocks)
    /\ {DownloadAhead, Clamp, MaxRequests} \subseteq Nat \ {0}
    /\ {Full, MayFail, MayShorten, MayLeave} \subseteq BOOLEAN

Above[b \in Blocks] == IF b = Genesis THEN {b} ELSE {b} \cup Above[Parent[b]]
Height(b) == Cardinality(Above[b]) - 1
AtHeight(tip, h) == CHOOSE b \in Above[tip] : Height(b) = h
TipSources == DOMAIN Tips

(***************************************************************************)
(* verification_queue.rs: the ranges of blocks that the optimistic sync has*)
(* to ask for, has asked for, or has received and not verified yet, in the *)
(* order of their heights.  An entry extends up to the height of the next  *)
(* one.  Each method is an operator from a queue to a queue.               *)
(***************************************************************************)
(* VerificationQueueEntryTy; source, request and blocks have a meaning for  *)
(* some of the types only.                                                  *)
Missing(h) == [height |-> h, ty |-> "missing", source |-> Nil, request |-> Nil, blocks |-> <<>>]
Requested(h, s, id) == [height |-> h, ty |-> "requested", source |-> s, request |-> id, blocks |-> <<>>]
Queued(h, s, blocks) == [height |-> h, ty |-> "queued", source |-> s, request |-> Nil, blocks |-> blocks]

IsMissing(e) == e.ty = "missing"

NewQueue(h) == <<Missing(h)>>
BlocksReady(q) == q[1].ty = "queued"

PopInPlace(q) ==
    IF Len(q[1].blocks) = 1 THEN Tail(q) ELSE [q EXCEPT ![1].blocks = Tail(@)]

PopFirstBlock(q) ==
    IF Len(q[1].blocks) = 1
    THEN Tail(q)
    ELSE [q EXCEPT ![1].height = @ + 1, ![1].blocks = Tail(@)]

(* The ranges to ask for, as pairs of a height and a number of blocks; the  *)
(* last one is open-ended.                                                  *)
DesiredRanges(q, ahead, unbounded) ==
    LET max == q[1].height + ahead
        inner == {i \in 1..(Len(q) - 1) : IsMissing(q[i]) /\ q[i].height <= max}
        last == q[Len(q)].height
    IN  {<<q[i].height, Min({max, q[i + 1].height}) - q[i].height>> : i \in inner}
        \cup (IF last < max THEN {<<last, unbounded>>} ELSE {})

(* The last n blocks before entry i + 1 are no longer part of entry i.      *)
GiveBack(q, i, n) ==
    IF n = 0 THEN q
    ELSE IF IsMissing(q[i + 1])
    THEN [q EXCEPT ![i + 1].height = @ - n]
    ELSE InsertAt(q, i + 1, Missing(q[i].height + n))

(* The entry that contains height h, 0 if there is none. *)
EntryAt(q, h) ==
    LET after == {i \in DOMAIN q : q[i].height > h}
    IN  IF after = {} THEN Len(q) ELSE Min(after) - 1

InsertAccepted(q, h) == EntryAt(q, h) # 0 /\ IsMissing(q[EntryAt(q, h)])

(* insert_request, when the request is accepted. *)
InsertRequest(q, h, num, s, id) ==
    LET at == EntryAt(q, h)
        i == IF q[at].height < h THEN at + 1 ELSE at
        split == IF q[at].height < h THEN InsertAt(q, i, Missing(h)) ELSE q
        started == [split EXCEPT ![i] = Requested(h, s, id)]
        ended == IF i = Len(started) THEN Append(started, Missing(h + num)) ELSE started
    IN  GiveBack(ended, i, ended[i + 1].height - h - num)

(* The position of a request. *)
RequestAt(q, id) == CHOOSE i \in DOMAIN q : q[i].ty = "requested" /\ q[i].request = id

(* finish_request, with Ok and with Err.  Blocks that overlap with the next *)
(* entry are ignored.                                                       *)
FinishSuccess(q, id, blocks) ==
    LET i == RequestAt(q, id)
        gap == q[i + 1].height - q[i].height
        kept == SubSeq(blocks, 1, Min({gap, Len(blocks)}))
    IN  GiveBack([q EXCEPT ![i] = Queued(@.height, @.source, kept)], i, gap - Len(kept))

FinishFailed(q, id) ==
    LET i == RequestAt(q, id)
        failed == [q EXCEPT ![i] = Missing(@.height)]
    IN  IF IsMissing(q[i + 1]) THEN RemoveAt(failed, i + 1) ELSE failed

(* drain_source: the requests of the source are missing again, and          *)
(* consecutive missing entries are merged.                                  *)
DrainSource(q, s) ==
    LET freed == [i \in DOMAIN q |->
                     IF q[i].ty = "requested" /\ q[i].source = s THEN Missing(q[i].height) ELSE q[i]]
        Merge(merged, e) ==
            IF merged # <<>> /\ IsMissing(merged[Len(merged)]) /\ IsMissing(e)
            THEN merged ELSE Append(merged, e)
    IN  FoldLeft(Merge, <<>>, freed)

(* into_requests, source_num_ongoing_requests *)
Requests(q) == {[id |-> q[i].request, source |-> q[i].source] : i \in {j \in DOMAIN q : q[j].ty = "requested"}}

(***************************************************************************)
(* optimistic.rs                                                           *)
(***************************************************************************)
VARIABLES
    queue,             \* verification_queue
    sources,           \* sources: best_block_number, banned, num_ongoing_requests
    nextSource,        \* next_source_id
    obsolete,          \* obsolete_requests: the source of each obsolete request
    tree,              \* chain: the blocks that are not finalized
    best,              \* chain.best_block_header
    finalized,         \* finalized_chain_information
    justifications,    \* pending_encoded_justifications
    diff,              \* best_to_finalized_storage_diff: the blocks it is made of
    bestRuntime,       \* best_runtime, named after the block that set it
    finalizedRuntime   \* finalized_runtime

syncVars == <<tree, best, finalized, justifications, diff, bestRuntime, finalizedRuntime>>
vars == <<queue, sources, nextSource, obsolete, syncVars>>

Init ==
    /\ queue = NewQueue(1)
    /\ sources = <<>> /\ nextSource = 1 /\ obsolete = <<>>
    /\ tree = {} /\ best = Genesis /\ finalized = Genesis
    /\ justifications = <<>> /\ diff = <<>>
    /\ bestRuntime = Nil /\ finalizedRuntime = Genesis

Live == DOMAIN sources

(***************************************************************************)
(* Sources                                                                  *)
(***************************************************************************)
AddSource(s, n) ==
    /\ s = nextSource
    /\ sources' = [t \in Live \cup {s} |->
                      IF t = s THEN [best |-> n, banned |-> FALSE, ongoing |-> 0] ELSE sources[t]]
    /\ nextSource' = nextSource + 1
    /\ UNCHANGED <<queue, obsolete, syncVars>>

RaiseSourceBestBlock(s, n) ==
    /\ sources[s].best < n
    /\ sources' = [sources EXCEPT ![s].best = n]
    /\ UNCHANGED <<queue, nextSource, obsolete, syncVars>>

RemoveSourceOnly(s) ==
    /\ MayLeave
    /\ sources' = [t \in Live \ {s} |-> sources[t]]
    /\ queue' = DrainSource(queue, s)
    /\ UNCHANGED <<nextSource, obsolete, syncVars>>

RemoveSource(s) ==
    /\ MayLeave
    /\ sources' = [t \in Live \ {s} |-> sources[t]]
    /\ obsolete' = [id \in {i \in DOMAIN obsolete : obsolete[i] # s} |-> obsolete[id]]
    /\ queue' = DrainSource(queue, s)
    /\ UNCHANGED <<nextSource, syncVars>>

Unban(srcs) ==
    IF \A s \in DOMAIN srcs : srcs[s].banned
    THEN [s \in DOMAIN srcs |-> [srcs[s] EXCEPT !.banned = FALSE]]
    ELSE srcs

(* A source that is gone is not in the list anymore.                        *)
BanAmong(srcs, s) == Unban(IF s \in DOMAIN srcs THEN [srcs EXCEPT ![s].banned = TRUE] ELSE srcs)
Ban(s) == BanAmong(sources, s)

(***************************************************************************)
(* Requests                                                                 *)
(***************************************************************************)
InUse == {r.id : r \in Requests(queue)} \cup DOMAIN obsolete
FreeIds == (1..MaxRequests) \ InUse

(* desired_requests; num_blocks_clamp of the callers *)
Desired ==
    LET ranges == DesiredRanges(queue, DownloadAhead, Cardinality(Blocks))
    IN  {[height |-> r[1], source |-> s, num |-> Min({r[2], sources[s].best - r[1] + 1, Clamp})] :
            <<r, s>> \in {p \in ranges \X Live : sources[p[2]].best >= p[1][1]}}

StartRequest(rq) ==
    /\ FreeIds # {}
    /\ sources[rq.source].ongoing = 0
    /\ sources' = [sources EXCEPT ![rq.source].ongoing = @ + 1]
    /\ LET id == Min(FreeIds)
       IN  IF InsertAccepted(queue, rq.height)
           THEN /\ queue' = InsertRequest(queue, rq.height, rq.num, rq.source, id)
                /\ obsolete' = obsolete
           ELSE /\ obsolete' = (id :> rq.source) @@ obsolete
                /\ queue' = queue
    /\ UNCHANGED <<nextSource, syncVars>>

(* finish_request_success and finish_request_failed of an obsolete request  *)
FinishObsolete(id) ==
    /\ sources' = [sources EXCEPT ![obsolete[id]].ongoing = @ - 1]
    /\ obsolete' = [i \in DOMAIN obsolete \ {id} |-> obsolete[i]]
    /\ UNCHANGED <<queue, nextSource, syncVars>>

(* The answers of source s from height h on, with some of the existing      *)
(* justifications.                                                          *)
Answers(s, h) ==
    LET avail == Min({Height(Tips[s]) - h + 1, Clamp})
        lengths == IF MayShorten THEN 1..avail ELSE {avail} \ {0}
    IN  UNION {{[i \in 1..n |-> LET b == AtHeight(Tips[s], h + i - 1)
                                IN  [block |-> b, justified |-> b \in given]] :
                  given \in SUBSET {b \in Justified \cap Above[Tips[s]] : Height(b) \in h..(h + n - 1)}} :
               n \in lengths}

FinishRequestSuccess(r, blocks) ==
    /\ queue' = FinishSuccess(queue, r.id, blocks)
    /\ sources' = [sources EXCEPT ![r.source].ongoing = @ - 1]
    /\ UNCHANGED <<nextSource, obsolete, syncVars>>

FinishFailedStillOngoing(r) ==
    /\ MayFail
    /\ queue' = FinishFailed(queue, r.id)
    /\ sources' = Ban(r.source)
    /\ UNCHANGED <<nextSource, obsolete, syncVars>>

FinishRequestFailed(r) ==
    /\ MayFail
    /\ queue' = FinishFailed(queue, r.id)
    /\ sources' = BanAmong([sources EXCEPT ![r.source].ongoing = @ - 1], r.source)
    /\ UNCHANGED <<nextSource, obsolete, syncVars>>

(***************************************************************************)
(* Verification                                                             *)
(***************************************************************************)
KeepDiff == UNCHANGED diff /\ bestRuntime' = Nil

ForgetBest == diff' = <<>> /\ bestRuntime' = Nil

ObsoleteAndRestart(q, above) ==
    /\ queue' = NewQueue(Height(above) + 1)
    /\ obsolete' = [id \in {r.id : r \in Requests(q)} |->
                       (CHOOSE r \in Requests(q) : r.id = id).source] @@ obsolete

(* A failure of the verification of something that came from source s.      *)
ResetKeepingChain(q, s) ==
    /\ sources' = Ban(s)
    /\ ObsoleteAndRestart(q, best)
    /\ ForgetBest
    /\ UNCHANGED <<nextSource, tree, best, finalized, finalizedRuntime>>

ResetToFinalized(q, s) ==
    /\ sources' = Ban(s)
    /\ tree' = {} /\ best' = finalized
    /\ ObsoleteAndRestart(q, finalized)
    /\ ForgetBest
    /\ UNCHANGED <<nextSource, finalized, finalizedRuntime>>

ResetChain(q, s) == IF Full THEN ResetToFinalized(q, s) ELSE ResetKeepingChain(q, s)

(* Duplicate, BadParent, an error of the verification or, without bodies,   *)
(* not a new best block.  The body of a block can only be executed on top   *)
(* of the storage of its parent, which is the one of the best block.        *)
Verifies(b) ==
    /\ b \notin tree \cup Invalid
    /\ IF Full THEN Parent[b] = best
               ELSE Parent[b] \in tree \cup {finalized} /\ Height(b) > Height(best)

FirstBlock == queue[1].blocks[1]
FirstSource == queue[1].source
ReadyToVerify == justifications = <<>> /\ BlocksReady(queue)

(* BlockVerify::start: the justifications are stored first. *)
StoreJustifications ==
    justifications' = IF FirstBlock.justified
                      THEN <<[target |-> FirstBlock.block, source |-> FirstSource]>> ELSE <<>>

VerifyBlockOk ==
    /\ ReadyToVerify
    /\ Verifies(FirstBlock.block)
    /\ StoreJustifications
    /\ queue' = PopFirstBlock(queue)
    /\ tree' = tree \cup {FirstBlock.block} /\ best' = FirstBlock.block
    /\ IF Full
       THEN /\ diff' = Append(diff, FirstBlock.block)
            /\ bestRuntime' = IF FirstBlock.block \in Upgrades THEN FirstBlock.block ELSE bestRuntime
       ELSE UNCHANGED <<diff, bestRuntime>>
    /\ UNCHANGED <<sources, nextSource, obsolete, finalized, finalizedRuntime>>

VerifyBlockFails ==
    /\ ReadyToVerify
    /\ ~Verifies(FirstBlock.block)
    /\ StoreJustifications
    /\ ResetChain(PopFirstBlock(queue), FirstSource)

AcceptedAnywhere(j) == Full

(* A justification is accepted if its target is in the chain; a chain that  *)
(* does not use GrandPa, the only one synchronized without bodies, accepts  *)
(* none.                                                                    *)
Accepted(j) == Full /\ j.target \in tree

(* perform() *)
VerifyJustificationOk ==
    /\ justifications # <<>>
    /\ Accepted(justifications[1])
    /\ finalized' = justifications[1].target
    /\ justifications' = Tail(justifications)
    /\ tree' = {b \in tree : b # finalized' /\ finalized' \in Above[b]}
    /\ diff' = <<>>
    /\ finalizedRuntime' = IF bestRuntime # Nil THEN bestRuntime ELSE finalizedRuntime
    /\ bestRuntime' = Nil
    /\ UNCHANGED <<queue, sources, nextSource, obsolete, best>>

VerifyJustificationFails ==
    /\ justifications # <<>>
    /\ ~Accepted(justifications[1])
    /\ justifications' = Tail(justifications)
    /\ ResetToFinalized(queue, justifications[1].source)

ProcessOne ==
    VerifyBlockOk \/ VerifyBlockFails \/ VerifyJustificationOk \/ VerifyJustificationFails

Answer(r) ==
    \E blocks \in Answers(r.source, queue[RequestAt(queue, r.id)].height) :
        FinishRequestSuccess(r, blocks)

StartSomeRequest == \E rq \in Desired : StartRequest(rq)
FinishSomeObsolete == \E id \in DOMAIN obsolete : FinishObsolete(id)

Next ==
    \/ \E s \in TipSources : \E n \in 1..Height(Tips[s]) : AddSource(s, n)
    \/ \E s \in Live : \/ \E n \in 1..Height(Tips[s]) : RaiseSourceBestBlock(s, n)
                       \/ RemoveSource(s)
    \/ StartSomeRequest
    \/ FinishSomeObsolete
    \/ \E r \in Requests(queue) : Answer(r) \/ FinishRequestFailed(r)
    \/ ProcessOne

Spec == Init /\ [][Next]_vars

(* The callers start requests and process blocks whenever they can, and a   *)
(* request ends: it is answered or fails after ten seconds.  Now and then,  *)
(* a source that is asked again and again answers.                          *)
Fairness ==
    /\ WF_vars(StartSomeRequest)
    /\ WF_vars(FinishSomeObsolete)
    /\ WF_vars(ProcessOne)
    /\ \A s \in TipSources : SF_vars(\E r \in Requests(queue) : r.source = s /\ Answer(r))
FairSpec == Spec /\ Fairness

(***************************************************************************)
(* Properties                                                               *)
(***************************************************************************)

(* Each request is either in the queue or obsolete, belongs to a source     *)
(* that is still there, and is counted in num_ongoing_requests exactly      *)
(* once, whatever resets, disconnections and late answers happened.         *)
RequestsAccounted ==
    /\ {r.id : r \in Requests(queue)} \cap DOMAIN obsolete = {}
    /\ \A r \in Requests(queue) : r.source \in Live
    /\ \A id \in DOMAIN obsolete : obsolete[id] \in Live
    /\ \A s \in Live : sources[s].ongoing =
          Cardinality({r \in Requests(queue) : r.source = s})
          + Cardinality({id \in DOMAIN obsolete : obsolete[id] = s})

(* best_to_finalized_storage_diff holds the changes of exactly the blocks   *)
(* between the finalized and the best block, in their order, and the        *)
(* runtime used for the next block is the one of the best block.            *)
StateOfBest ==
    LET upgrades == {b \in Above[best] : b \in Upgrades \cup {Genesis}}
    IN  /\ ToSet(diff) = Above[best] \ Above[finalized]
        /\ \A i \in DOMAIN diff : Height(diff[i]) = Height(finalized) + i
        /\ (IF bestRuntime # Nil THEN bestRuntime ELSE finalizedRuntime)
              = (CHOOSE b \in upgrades : \A c \in upgrades : Height(c) <= Height(b))

(* assert!(apply.is_current_best_block()): a justification that is accepted *)
(* is for the best block, even one kept from a block that failed.           *)
JustificationOnBest == \A i \in DOMAIN justifications :
    Accepted(justifications[i]) => justifications[i].target = best

(* A received block is at its place in the queue. *)
QueuedInPlace == \A i \in DOMAIN queue : \A j \in DOMAIN queue[i].blocks :
    Height(queue[i].blocks[j].block) = queue[i].height + j - 1

(* Sources that agree bring the sync to what they have: it is not undone    *)
(* forever by late, partial or missing answers.                             *)
EventuallySynced == <>[](\A s \in Live : Height(best) >= sources[s].best)
=============================================================================
