---------------------------- MODULE PendingBlocks ----------------------------
(***************************************************************************)
(* src/src/sync/all_forks/pending_blocks.rs: the unverified blocks, in a    *)
(* collection of disjoint.rs, the sources of blocks (sources.rs) and the    *)
(* requests in progress.                                                    *)
(*                                                                         *)
(* The collection is one record, and each method is an operator from the    *)
(* collection to the collection, so that module AllForks can chain several  *)
(* calls in one step as its code does.                                      *)
(*                                                                         *)
(* requests is a function on the request identifiers in use; the slab of    *)
(* the code reuses those that were freed.  blocks_requests and              *)
(* requested_blocks are the same relation sorted in two ways.               *)
(* source_occupations repeats the source of each request.                   *)
(***************************************************************************)
EXTENDS HeaderTree

CONSTANTS
    VerifyBodies,          \* Config::verify_bodies
    MaxRequestsPerBlock,   \* Config::max_requests_per_block
    RequestIds,            \* bounds the number of simultaneous requests
    MaxSources             \* bounds the number of sources ever added

PendingBlocksAssumption == VerifyBodies \in BOOLEAN /\ MaxRequestsPerBlock \in Nat \ {0}

(***************************************************************************)
(* disjoint.rs: the collection of the blocks whose existence is known but  *)
(* that cannot be verified yet.  A hash determines a header, hence a parent;*)
(* what the collection may ignore is whether it has seen that header.  It is*)
(* a function on the blocks it contains: is the parent known, is the block *)
(* bad, and the data of the user, which is the UnverifiedBlockState below. *)
(***************************************************************************)
Empty == [b \in {} |-> {}]

ParentBad(blocks, b) == Parent[b] \in DOMAIN blocks /\ blocks[Parent[b]].bad

(* Without effect on bad when the block is already there, and on the blocks *)
(* that are already there and descend from the new one.                     *)
Insert(blocks, b, parentKnown, data) ==
    [x \in DOMAIN blocks \cup {b} |->
        IF x # b THEN blocks[x]
        ELSE IF b \in DOMAIN blocks
             THEN [blocks[b] EXCEPT !.parentKnown = @ \/ parentKnown, !.data = data]
             ELSE [parentKnown |-> parentKnown, data |-> data,
                   bad |-> parentKnown /\ ParentBad(blocks, b)]]

Remove(blocks, b) == [x \in DOMAIN blocks \ {b} |-> blocks[x]]

RemoveBelowHeight(blocks, threshold) ==
    [x \in {y \in DOMAIN blocks : Height(y) >= threshold} |-> blocks[x]]

Children(blocks, S) ==
    {c \in DOMAIN blocks : blocks[c].parentKnown /\ Parent[c] \in S}

(* The block, then its children, then its grand-children ... *)
SetBlockBad(blocks, b) ==
    LET layer[n \in 0..MaxHeight] == IF n = 0 THEN {b} ELSE Children(blocks, layer[n - 1])
        marked == UNION {layer[n] : n \in 0..MaxHeight}
    IN  [x \in DOMAIN blocks |->
            IF x \in marked THEN [blocks[x] EXCEPT !.bad = TRUE] ELSE blocks[x]]

SetParentHash(blocks, b) ==
    LET linked == [blocks EXCEPT ![b].parentKnown = TRUE]
    IN  IF ParentBad(blocks, b) THEN SetBlockBad(linked, b) ELSE linked

Good(blocks) == {b \in DOMAIN blocks : ~blocks[b].bad}

(* Referenced as the parent of a good block, and absent. *)
MissingParents(blocks) ==
    {Parent[b] : b \in {x \in Good(blocks) : blocks[x].parentKnown}} \ DOMAIN blocks

GoodTreeRoots(blocks) ==
    {b \in Good(blocks) : blocks[b].parentKnown /\ Parent[b] \notin DOMAIN blocks}

UnknownBlocks(blocks) ==
    {b \in Good(blocks) : ~blocks[b].parentKnown} \cup MissingParents(blocks)

(***************************************************************************)
(* AllForksSources: the best block of each source, and which non-finalized  *)
(* blocks each one knows.  known_blocks1 and known_blocks2 are the same     *)
(* relation sorted in two ways.  The collection is a record: best, a        *)
(* function on the sources; known, the relation; finalized, a height; next, *)
(* the identifier of the next source.                                       *)
(***************************************************************************)
NoSources(finalized) == [best |-> Empty, known |-> {}, finalized |-> finalized, next |-> 0]

AddKnownBlockUnchecked(sources, s, b) == [sources EXCEPT !.known = @ \cup {<<s, b>>}]

AddKnownBlock(sources, s, b) ==
    IF Height(b) > sources.finalized THEN [sources EXCEPT !.known = @ \cup {<<s, b>>}]
    ELSE sources

SetBest(sources, s, b) ==
    [sources EXCEPT !.best = [x \in DOMAIN @ \cup {s} |-> IF x = s THEN b ELSE @[x]]]

NewSource(sources, b) ==
    [AddKnownBlock(SetBest(sources, sources.next, b), sources.next, b) EXCEPT !.next = @ + 1]

RemoveSource(sources, s) ==
    [sources EXCEPT !.best = [x \in DOMAIN @ \ {s} |-> @[x]],
                    !.known = {k \in @ : k[1] # s}]

SetFinalizedBlockHeight(sources, height) ==
    [sources EXCEPT !.known = {k \in @ : Height(k[2]) > height}, !.finalized = height]

(* For all sources. *)
RemoveKnownBlock(sources, b) == [sources EXCEPT !.known = {k \in @ : k[2] # b}]

SourceRemoveKnownBlock(sources, s, b) == [sources EXCEPT !.known = @ \ {<<s, b>>}]

AddKnownBlockAndSetBest(sources, s, b) == SetBest(AddKnownBlock(sources, s, b), s, b)

KnowsNonFinalizedBlock(sources, b) == {s \in DOMAIN sources.best : <<s, b>> \in sources.known}

(***************************************************************************)
(* PendingBlocks                                                           *)
(***************************************************************************)
States == {"HeightHashKnown", "HeaderKnown", "HeaderBodyKnown"}
HasParent(state) == state # "HeightHashKnown"

NewCollection(finalized) ==
    [blocks |-> Empty, sources |-> NoSources(finalized), requests |-> Empty,
     blocksRequests |-> {}]

(***************************************************************************)
(* Sources                                                                 *)
(***************************************************************************)
OnSources(p, sources) == [p EXCEPT !.sources = sources]

RequestsOf(p, s) == {id \in DOMAIN p.requests : p.requests[id].source = s}

(* Of what add_request wrote, only the entry of the first block is removed. *)
DropSource(p, s) ==
    LET ids == RequestsOf(p, s)
    IN  [p EXCEPT !.sources = RemoveSource(@, s),
                  !.requests = [id \in DOMAIN @ \ ids |-> @[id]],
                  !.blocksRequests = @ \ {<<p.requests[id].first, id>> : id \in ids}]

SetFinalizedHeight(p, height) ==
    [p EXCEPT !.sources = SetFinalizedBlockHeight(@, height),
              !.blocks = RemoveBelowHeight(@, height + 1)]

(***************************************************************************)
(* Unverified blocks                                                       *)
(***************************************************************************)
InsertUnverified(p, b, state) ==
    IF Height(b) <= p.sources.finalized THEN p
    ELSE [p EXCEPT !.blocks = Insert(@, b, HasParent(state), state)]

SetState(p, b, state) ==
    LET linked == IF HasParent(state) THEN SetParentHash(p.blocks, b) ELSE p.blocks
    IN  [p EXCEPT !.blocks = [linked EXCEPT ![b].data = state]]

SetHeaderKnown(p, b) ==
    IF HasParent(p.blocks[b].data) THEN p ELSE SetState(p, b, "HeaderKnown")

RemoveUnverified(p, b) == [p EXCEPT !.blocks = Remove(@, b)]

MarkBad(p, b) == [p EXCEPT !.blocks = SetBlockBad(@, b)]

UnverifiedLeaves(p) ==
    {b \in GoodTreeRoots(p.blocks) :
        p.blocks[b].data \in IF VerifyBodies THEN {"HeaderBodyKnown"}
                             ELSE {"HeaderKnown", "HeaderBodyKnown"}}

(* In increasing order of importance: three classes, in which blocks are    *)
(* sorted by height.  The best block of a source is never returned.         *)
BestBlocks(p) == {p.sources.best[s] : s \in DOMAIN p.sources.best}
Lowest(S) == {b \in S : \A c \in S : Height(b) <= Height(c)}
FirstUnnecessary(p) ==
    LET all         == DOMAIN p.blocks \ BestBlocks(p)
        withParent  == {b \in all : p.blocks[b].parentKnown}
        badParent   == {b \in withParent : ParentBad(p.blocks, b)}
        parentKnown == {b \in withParent : Parent[b] \in DOMAIN p.blocks}
        isBad       == {b \in all : p.blocks[b].bad}
    IN  CASE badParent # {} -> Lowest(badParent)
          [] badParent = {} /\ parentKnown # {} -> Lowest(parentKnown)
          [] OTHER -> Lowest(isBad)

(***************************************************************************)
(* Requests                                                                *)
(***************************************************************************)
RequestsFor(p, b) == {e[2] : e \in {x \in p.blocksRequests : x[1] = b}}

(* The first block and its ancestors, as far as their parents are known. *)
Covered(p, first) ==
    LET known(b) == b \in DOMAIN p.blocks /\ p.blocks[b].parentKnown
        up[n \in 0..MaxHeight] ==
            IF n = 0 THEN {first} ELSE {Parent[b] : b \in {x \in up[n - 1] : known(x)}}
    IN  UNION {up[n] : n \in 0..MaxHeight}

NewRequest(p, id, s, first) ==
    [p EXCEPT !.requests = [x \in DOMAIN @ \cup {id} |->
                               IF x = id THEN [source |-> s, first |-> first] ELSE @[x]],
              !.blocksRequests = @ \cup (Covered(p, first) \X {id})]

EndRequestKeepsEntries(p, id) ==
    [p EXCEPT !.requests = [x \in DOMAIN @ \ {id} |-> @[x]]]

EndRequest(p, id) ==
    [p EXCEPT !.requests = [x \in DOMAIN @ \ {id} |-> @[x]],
              !.blocksRequests = {e \in @ : e[2] # id}]

UnknownBodies(p) ==
    IF VerifyBodies THEN {b \in DOMAIN p.blocks : p.blocks[b].data = "HeaderKnown"} ELSE {}
UnknownHeaders(p) == {b \in UnknownBlocks(p.blocks) : Height(b) > p.sources.finalized}

BelowCap(p, b) == Cardinality(RequestsFor(p, b)) < MaxRequestsPerBlock

(* Pairs of a source and of the first block to ask it for. *)
DesiredRequests(p) ==
    {<<s, b>> \in (DOMAIN p.sources.best) \X (UnknownBodies(p) \cup UnknownHeaders(p)) :
        /\ BelowCap(p, b)
        /\ s \in KnowsNonFinalizedBlock(p.sources, b)
        /\ \A id \in RequestsFor(p, b) : id \in DOMAIN p.requests => p.requests[id].source # s}

FreeRequestId(p, id) == id \in RequestIds \ DOMAIN p.requests
=============================================================================
