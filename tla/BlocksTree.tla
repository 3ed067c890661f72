----------------------------- MODULE BlocksTree -----------------------------
(***************************************************************************)
(* src/src/chain/blocks_tree.rs and its submodules finality, best_block and *)
(* verify: the tree of verified, non-finalized blocks on top of the latest  *)
(* finalized block, its best block, and what it knows of the GrandPa        *)
(* authorities and of the Babe epochs.                                      *)
(*                                                                         *)
(* A block is identified with its hash.  Of its header the model keeps the  *)
(* parent, the number, whether the slot claim is primary, the delay of the  *)
(* GrandPa change it schedules and whether it announces a Babe epoch.  A    *)
(* list of authorities, or an epoch, is named after the block that          *)
(* announces it.  Headers are drawn when a block is first verified: any     *)
(* shape of chain is possible.                                              *)
(***************************************************************************)
EXTENDS BlockForest, Sequences

CONSTANTS
    Genesis,               \* the finalized block the tree starts from
    NoChange,              \* no GrandPa change is scheduled
    Digests,               \* the contents of headers that are considered
    AvoidPendingChanges    \* no block is finalized between the scheduling of
                           \* a change and its trigger (see AuthoritySetExact)

ASSUME GenesisAssumption == Genesis \notin Blocks /\ Genesis # Nil
(* The header of a block, as far as the model is concerned; None is none. *)
Header == [parent : Blocks \cup {Genesis}, number : Nat, digest : Digests]

ASSUME NilHeaderAssumption == Nil \notin Header
ASSUME DigestsAssumption ==
    Digests \subseteq [primary : BOOLEAN, change : {NoChange} \cup Nat, epoch : BOOLEAN]
ASSUME NoChangeAssumption == NoChange \notin Nat
ASSUME AvoidAssumption == AvoidPendingChanges \in BOOLEAN

VARIABLES
    header,                \* Nil until the block is first seen
    tree, parent,          \* blocks, blocks_by_hash; Nil: the finalized block
    consensus,             \* Block::consensus, for the blocks of the tree
    currentBest,
    finalized,             \* finalized_block_hash
    finalizedConsensus,
    setId,                 \* after_finalized_block_authorities_set_id
    triggered,             \* finalized_triggered_authorities
    scheduled,             \* finalized_scheduled_change, or Nil
    panicked

finality == <<setId, triggered, scheduled>>
vars == <<header, tree, parent, consensus, currentBest, finalized,
          finalizedConsensus, finality, panicked>>

Init ==
    /\ header = [b \in Blocks |-> Nil]
    /\ tree = {} /\ parent = [b \in Blocks |-> Nil]
    /\ consensus = [b \in Blocks |-> Nil]
    /\ currentBest = Nil
    /\ finalized = Genesis
    /\ finalizedConsensus = [current |-> Nil, next |-> Genesis]
    /\ setId = 0 /\ triggered = Genesis /\ scheduled = Nil
    /\ panicked = FALSE

Anc(b) == AncestorsOf(b, tree, parent)
Number(hash) == IF hash = Genesis THEN 0 ELSE header[hash].number
Trigger(b) == header[b].number + header[b].digest.change
Changing(S) == {b \in S : header[b].digest.change # NoChange}
Deepest(S) == CHOOSE b \in S : \A c \in S : header[c].number <= header[b].number

(***************************************************************************)
(* best_block.rs                                                           *)
(***************************************************************************)
Score(S) == Cardinality({b \in S : header[b].digest.primary})

IsBetterIgnoringDescent(old, p, digest) ==
    LET up == Anc(old)
        down == IF p = Nil THEN {} ELSE Anc(p)
    IN  Score(down \ up) + (IF digest.primary THEN 1 ELSE 0) > Score(up \ down)

(* The candidate has parent p.  What is above the common ancestor counts on *)
(* neither side.                                                            *)
IsBetterBlock(old, p, digest) ==
    LET up == Anc(old)
        down == IF p = Nil THEN {} ELSE Anc(p)
    IN  \/ old \in down
        \/ Score(down \ up) + (IF digest.primary THEN 1 ELSE 0) > Score(up \ down)

(***************************************************************************)
(* verify.rs: the verification of a header and its insertion               *)
(***************************************************************************)
ParentConsensus(p) == IF p = Nil THEN finalizedConsensus ELSE consensus[p]

NextConsensusStale(b, digest, above) ==
    IF digest.epoch THEN [above EXCEPT !.next = b] ELSE above

(* apply_success_body *)
NextConsensus(b, digest, above) ==
    IF digest.epoch THEN [current |-> above.next, next |-> b] ELSE above

(* The full chain of b, finalized blocks included. *)
Seen == {b \in Blocks : header[b] # Nil}
HeaderParent ==
    [b \in Blocks |-> IF b \in Seen /\ header[b].parent # Genesis THEN header[b].parent ELSE Nil]
History(b) == IF b = Genesis THEN {} ELSE AncestorsOf(b, Seen, HeaderParent)

(* The runtime of the chain never schedules a change while another one is   *)
(* waiting, and block 1 announces an epoch.                                 *)
ValidDigest(p, digest) ==
    /\ digest.change # NoChange =>
          \A x \in Changing(History(p)) : Trigger(x) <= Number(p)
    /\ p = Genesis => digest.epoch

ParentOrGenesis(p) == p \in tree \cup {finalized, Genesis}

(* Otherwise BadParent. *)
ParentKnown(p) == p \in tree \cup {finalized}

Insert(b, h) ==
    LET p == IF h.parent \in tree THEN h.parent ELSE Nil
    IN  /\ ~panicked
        /\ b \notin tree
        /\ header[b] \in {Nil, h}
        /\ ParentKnown(h.parent)
        /\ h.number = Number(h.parent) + 1
        /\ ValidDigest(h.parent, h.digest)
        /\ header' = [header EXCEPT ![b] = h]
        /\ tree' = tree \cup {b}
        /\ parent' = [parent EXCEPT ![b] = p]
        /\ consensus' = [consensus EXCEPT ![b] =
                            NextConsensus(b, h.digest, ParentConsensus(p))]
        /\ currentBest' = IF currentBest = Nil \/ IsBetterBlock(currentBest, p, h.digest)
                          THEN b ELSE currentBest
        /\ UNCHANGED <<finalized, finalizedConsensus, finality, panicked>>

Clear ==
    /\ ~panicked
    /\ tree' = {} /\ parent' = [b \in Blocks |-> Nil]
    /\ consensus' = [b \in Blocks |-> Nil]
    /\ currentBest' = Nil
    /\ UNCHANGED <<header, finalized, finalizedConsensus, finality, panicked>>

(***************************************************************************)
(* finality.rs                                                             *)
(***************************************************************************)
UpdatedFinalityOnce(b) ==
    LET changes == Changing(Anc(b))
        later   == {x \in changes : Trigger(x) > header[b].number}
        done    == changes \ later
    IN  /\ scheduled' = IF later = {} THEN Nil
                        ELSE [at |-> Trigger(Deepest(later)), by |-> Deepest(later)]
        /\ triggered' = IF done = {} THEN triggered ELSE Deepest(done)
        /\ setId' = IF done = {} THEN setId ELSE setId + 1

(* The changes of the newly finalized blocks, in order. *)
UpdatedFinality(b) ==
    LET changes == Changing(Anc(b))
        later   == {x \in changes : Trigger(x) > header[b].number}
        done    == changes \ later
    IN  /\ scheduled' = IF later = {} THEN Nil
                        ELSE [at |-> Trigger(Deepest(later)), by |-> Deepest(later)]
        /\ triggered' = IF done = {} THEN triggered ELSE Deepest(done)
        /\ setId' = setId + Cardinality(done)

(* The scan of the blocks of the tree visits them in any order. *)
Orders(S) == {s \in [1..Cardinality(S) -> S] : \A j, k \in DOMAIN s : s[j] = s[k] => j = k}
BetterOf(acc, b) ==
    IF acc = Nil \/ IsBetterBlock(acc, parent[b], header[b].digest) THEN b ELSE acc
Scanned(order) ==
    LET best[k \in 0..Len(order)] == IF k = 0 THEN Nil ELSE BetterOf(best[k - 1], order[k])
    IN  best[Len(order)]

(* The best block stays when it is a strict descendant of the new finalized *)
(* block.                                                                   *)
KeepsBest(b) == b # currentBest /\ b \in Anc(currentBest)

FinalizeBlock(b) ==
    LET kept == KeptByPrune(b, tree, parent)
    IN  /\ UpdatedFinality(b)
        /\ IF KeepsBest(b) THEN UNCHANGED currentBest
           ELSE \E order \in Orders(kept) : currentBest' = Scanned(order)
        /\ finalizedConsensus' = consensus[b]
        /\ finalized' = b
        /\ tree' = kept
        /\ parent' = ParentAfterPrune(b, tree, parent)
        /\ consensus' = [c \in Blocks |-> IF c \in kept THEN consensus[c] ELSE Nil]
        /\ UNCHANGED <<header, panicked>>

LeavesNoPendingChange(b) ==
    AvoidPendingChanges =>
        \A x \in Changing(History(b)) : Trigger(x) <= header[b].number

SetFinalizedBlock(b) ==
    /\ ~panicked
    /\ b \in tree
    /\ LeavesNoPendingChange(b)
    /\ FinalizeBlock(b)

(* verify_grandpa_finality.  The two triggers it compares: that of the      *)
(* change that is already finalized, and the one on the path to the target. *)
Triggers(b) ==
    {Trigger(x) : x \in Changing(Anc(b))} \cup (IF scheduled = Nil THEN {} ELSE {scheduled.at})

PathInvalid(b) == Cardinality(Changing(Anc(b))) > 1
NotTooFarAhead(b) == \A t \in Triggers(b) : header[b].number <= t
ExpectedAuthorities(b) ==
    IF scheduled # Nil /\ scheduled.at < header[b].number THEN scheduled.by ELSE triggered

(* The authorities that really finalize b sign with the identifier of their *)
(* set; the signatures are the subject of module GrandpaVerify.             *)
ChangesBefore(b, n) == {x \in Changing(History(b)) : Trigger(x) < n}
Latest(S) == IF S = {} THEN Genesis ELSE Deepest(S)
SignedByExpected(b) ==
    LET past == ChangesBefore(b, header[b].number)
    IN  ExpectedAuthorities(b) = Latest(past) /\ setId = Cardinality(past)

CanFinalize(b) == ~PathInvalid(b) /\ NotTooFarAhead(b) /\ SignedByExpected(b)

(* verify_justification or verify_grandpa_commit_message, then apply. *)
VerifyJustification(b) ==
    /\ ~panicked
    /\ b \in tree
    /\ CanFinalize(b)
    /\ LeavesNoPendingChange(b)
    /\ FinalizeBlock(b)

(* panic!("invalid block!") *)
VerifyJustificationPanics(b) ==
    /\ ~panicked
    /\ b \in tree
    /\ PathInvalid(b)
    /\ panicked' = TRUE
    /\ UNCHANGED <<header, tree, parent, consensus, currentBest, finalized,
                   finalizedConsensus, finality>>

CheckpointsOneLate ==
    {b \in tree : \/ scheduled # Nil /\ scheduled.at = header[b].number
                  \/ \E x \in Changing(Anc(b)) : Trigger(x) + 1 = header[b].number}

FinalityCheckpoints ==
    {b \in tree : \/ scheduled # Nil /\ scheduled.at = header[b].number
                  \/ \E x \in Changing(Anc(b)) : Trigger(x) = header[b].number}

Next ==
    \/ \E b \in Blocks, p \in Blocks \cup {Genesis}, digest \in Digests :
          p # b /\ (p = Genesis \/ p \in Seen)
          /\ Insert(b, [parent |-> p, number |-> Number(p) + 1, digest |-> digest])
    \/ Clear
    \/ \E b \in Blocks : \/ SetFinalizedBlock(b)
                         \/ VerifyJustification(b)
                         \/ VerifyJustificationPanics(b)

Spec == Init /\ [][Next]_vars
(***************************************************************************)
(* Properties                                                              *)
(***************************************************************************)

(* current_best is "None if and only if the fork tree is empty"; otherwise  *)
(* no block of the tree would be preferred to it: it is a leaf, and no      *)
(* chain holds more primary slot claims, whatever the order in which blocks *)
(* arrive, get finalized and are scanned for a new best block.              *)
BestIsHeaviestLeaf ==
    IF tree = {} THEN currentBest = Nil
    ELSE /\ currentBest # Nil
         /\ \A b \in tree : /\ parent[b] # currentBest
                            /\ Score(Anc(b)) <= Score(Anc(currentBest))

(* The GrandPa state is the one that the finalized chain announces: the     *)
(* identifier counts the changes triggered so far, the current list is that *)
(* of the latest of them, and the change that waits is remembered ("These   *)
(* changes will for sure happen").  It does not depend on which blocks got  *)
(* finalized together.                                                      *)
AuthoritySetExact ==
    LET past    == ChangesBefore(finalized, Number(finalized) + 1)
        waiting == Changing(History(finalized)) \ past
    IN  /\ setId = Cardinality(past)
        /\ triggered = Latest(past)
        /\ scheduled = IF waiting = {} THEN Nil
                       ELSE [at |-> Trigger(Deepest(waiting)), by |-> Deepest(waiting)]

(* finality_checkpoints: "blocks can be immediately finalized [...] unless  *)
(* they descend from any of the blocks returned by this function, in which  *)
(* case that block must be finalized beforehand": the justification of any  *)
(* other block is accepted.                                                 *)
CheckpointsSound ==
    \A b \in tree : Anc(b) \cap FinalityCheckpoints \subseteq {b} => CanFinalize(b)

(* The Babe information stored for a block, and for the finalized block, is *)
(* the one its whole chain announces: the latest announcement is the next   *)
(* epoch, the one before it is the current one.                             *)
EpochsOf(b) ==
    LET announced == {x \in History(b) : header[x].digest.epoch}
        earlier   == announced \ {Deepest(announced)}
    IN  IF announced = {} THEN [current |-> Nil, next |-> Genesis]
        ELSE [current |-> Latest(earlier), next |-> Deepest(announced)]
EpochsExact ==
    /\ finalizedConsensus = EpochsOf(finalized)
    /\ \A b \in tree : consensus[b] = EpochsOf(b)

(* Every block of the tree descends from the finalized one: what conflicts *)
(* with it is gone and cannot be inserted again.  A block is finalized from *)
(* the tree, so that finality is never undone.                              *)
FinalityIrrevocable == \A b \in tree : finalized \in History(header[b].parent) \cup {Genesis}

=============================================================================
