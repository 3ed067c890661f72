------------------------------ MODULE FullNode ------------------------------
(***************************************************************************)
(* The consensus service of the full node                                  *)
(* (bin/full-node/src/run/consensus_service.rs), the builder of blocks it  *)
(* authors with (author/build.rs, author/runtime.rs), the thread of the    *)
(* database (run/database_thread.rs) and the SQLite database itself        *)
(* (database/full_sqlite.rs and open.rs).                                  *)
(*                                                                         *)
(* db is what the connection sees, disk what is committed: the database is *)
(* always within a transaction, which only set_finalized, initialize and a *)
(* clean exit commit.  A crash loses the rest.                             *)
(***************************************************************************)
EXTENDS Integers, FiniteSets, Sequences, SequencesExt

CONSTANTS LastBlock,     \* blocks are 1 .. LastBlock, 0 is the genesis
          Parent,        \* the parent of each block, lower than it
          Own,           \* the blocks that the node itself may author
          Keys, Changes, \* what each block does to the storage: key -> value, or "removed"
          NewEpoch,      \* the blocks that announce a Babe epoch
          NewSet,        \* the blocks that announce a change of Grandpa authorities
          QueueCap,      \* capacity of the channel to the thread of the database
          MaxCrashes     \* how many times the process dies or exits

VARIABLES db, disk, queue, node,
          world          \* canon: what the network finalized, made: own blocks so far, crashes

fullVars == <<db, disk, queue, node, world>>

BlockSet == 1 .. LastBlock
AncestorsOf[b \in 0 .. LastBlock] == IF b = 0 THEN {0} ELSE {b} \cup AncestorsOf[Parent[b]]
AncestorTable == [b \in 0 .. LastBlock |-> AncestorsOf[b]]
IsAncestor(a, b) == a \in AncestorTable[b]
Height(b) == Cardinality(AncestorTable[b]) - 1
Between(a, b) == SetToSortSeq(AncestorTable[b] \ AncestorTable[a], <)

\* A storage after the changes of a block.
Applied(store, b) ==
    [k \in Keys |-> IF k \in DOMAIN Changes[b] THEN Changes[b][k] ELSE store[k]]
EmptyStore == [k \in Keys |-> "removed"]

-----------------------------------------------------------------------------
(* The database.  Blocks are in the order of their rows.                   *)

\* initialize, with the genesis block.
Initialized ==
    [blocks |-> <<0>>, changes |-> {}, fin |-> 0, best |-> 0, store |-> EmptyStore,
     epoch |-> [index |-> -1, by |-> 0], next |-> [index |-> 0, by |-> 0],
     setId |-> 0, auths |-> 0]

has_block(d, b) == b \in ToSet(d.blocks)
block_hashes_by_number(d, h) == SelectSeq(d.blocks, LAMBDA b : Height(b) = h)
finalized_hash(d) == Head(block_hashes_by_number(d, d.fin))
best_block_hash(d) == d.best
finalized_block_storage_top_trie(d) == d.store
to_chain_information(d) == [epoch |-> d.epoch.index, next |-> d.next, setId |-> d.setId, auths |-> d.auths]

Done(d) == [error |-> "none", db |-> d]
Failed(e, d) == [error |-> e, db |-> d]

insert(d, b, isNewBest) ==
    CASE has_block(d, b) -> Failed("Duplicate", d)
      [] ~ has_block(d, b) /\ ~ has_block(d, Parent[b]) -> Failed("MissingParent", d)
      [] ~ has_block(d, b) /\ has_block(d, Parent[b]) /\ Height(b) <= d.fin -> Failed("FinalizedNephew", d)
      [] OTHER -> Done([d EXCEPT !.blocks = Append(@, b), !.changes = @ \cup {b},
                                 !.best = IF isNewBest THEN b ELSE @])

\* The statement that purge_block prepares has three parts; preparing it
\* keeps the first one.
purge_block(d, B) == [d EXCEPT !.changes = @ \ B]

\* The blocks on the way that aren't ancestors of the new finalized block,
\* then the higher ones that aren't descendants.
PurgeUncles(d, b) ==
    LET low == {c \in ToSet(d.blocks) : d.fin < Height(c) /\ Height(c) <= Height(b) /\ ~ IsAncestor(c, b)}
        high == {c \in ToSet(d.blocks) : Height(c) > Height(b) /\ ~ IsAncestor(b, c)}
    IN purge_block(d, low \cup high)

MergeSwapped(d, h) ==
    LET b == Head(block_hashes_by_number(d, h))
        next == IF b \in NewEpoch THEN [index |-> d.next.index + 1, by |-> b] ELSE d.next
    IN [d EXCEPT !.store = IF b \in d.changes THEN Applied(@, b) ELSE @,
                 !.changes = @ \ {b},
                 !.next = next,
                 !.epoch = IF b \in NewEpoch THEN next ELSE @,
                 !.setId = IF b \in NewSet THEN @ + 1 ELSE @,
                 !.auths = IF b \in NewSet THEN b ELSE @]

\* Merge of the changes of one block into the finalized storage, epoch and
\* authorities; the block is the first one of its height.
MergeHeight(d, h) ==
    LET b == Head(block_hashes_by_number(d, h)) IN
    [d EXCEPT !.store = IF b \in d.changes THEN Applied(@, b) ELSE @,
              !.changes = @ \ {b},
              !.epoch = IF b \in NewEpoch THEN d.next ELSE @,
              !.next = IF b \in NewEpoch THEN [index |-> @.index + 1, by |-> b] ELSE @,
              !.setId = IF b \in NewSet THEN @ + 1 ELSE @,
              !.auths = IF b \in NewSet THEN b ELSE @]

set_finalized(d, b) ==
    CASE ~ has_block(d, b) -> Failed("UnknownBlock", d)
      [] has_block(d, b) /\ Height(b) = d.fin -> Done(d)
      [] has_block(d, b) /\ Height(b) < d.fin -> Failed("RevertForbidden", d)
      [] OTHER ->
           LET cleaned == [PurgeUncles(d, b) EXCEPT !.fin = Height(b)]
           IN IF AncestorTable[b] \subseteq ToSet(d.blocks)
              THEN Done(FoldLeft(MergeHeight, cleaned, [i \in 1 .. Height(b) - d.fin |-> d.fin + i]))
              ELSE Failed("BrokenChain", cleaned)

-----------------------------------------------------------------------------
(* The node.  Its syncing is the optimistic one: a single chain, on top of *)
(* the finalized block, that a failed verification throws away.            *)

\* ConsensusService::new: what it reads from the database, with its unwraps.
Started(d) ==
    LET f == finalized_hash(d) IN
    [pc |-> IF has_block(d, best_block_hash(d)) THEN "requests" ELSE "panicked",
     fin |-> f, best |-> f, store |-> finalized_block_storage_top_trie(d),   \* sync
     queued |-> <<>>, proof |-> "no",                          \* what is left to verify
     asked |-> "no", peer |-> FALSE,                           \* the request of the next block
     state |-> [best |-> best_block_hash(d), fin |-> f],       \* sync_state
     builder |-> "None", authored |-> 0,
     toSave |-> <<>>]

FullInit ==
    /\ db = Initialized /\ disk = Initialized /\ queue = <<>>
    /\ world = [canon |-> 0, made |-> {}, crashes |-> 0]
    /\ node = Started(Initialized)

At(pc) == node.pc = pc /\ UNCHANGED <<db, disk, queue>>

NextHeight == Height(node.best) + Len(node.queued) + 1

\* A locally-authored block is taken if the syncing wants a block of its
\* height and has asked nobody else.  Otherwise the next block is asked to a peer.
start_network_requests ==
    /\ At("requests") /\ UNCHANGED world
    /\ node' = IF node.authored # 0 /\ node.asked # "yes" /\ Height(node.authored) = NextHeight
               THEN [node EXCEPT !.queued = Append(@, [block |-> node.authored, proof |-> "no"]),
                                 !.authored = 0]
               ELSE [node EXCEPT !.pc = "process", !.asked = IF node.peer /\ @ = "no" THEN "yes" ELSE @]

\* The chain is recreated from the finalized block, the requests are obsolete.
Reset(v) == [v EXCEPT !.best = node.fin, !.queued = <<>>, !.proof = "no",
                      !.asked = IF @ = "yes" THEN "obsolete" ELSE @]

\* process_one: VerifyBodyHeader.  Only a child of the best block can be valid.
VerifyBodyHeader(success) ==
    /\ At("process") /\ node.proof = "no" /\ node.queued # <<>> /\ UNCHANGED world
    /\ LET q == Head(node.queued) IN
       /\ success => Parent[q.block] = node.best
       /\ node' = IF success
                  THEN [node EXCEPT !.queued = Tail(@), !.best = q.block, !.proof = q.proof,
                                    !.builder = "None", !.state.best = q.block]
                  ELSE Reset(node)

\* process_one: VerifyFinalityProof, of the justification that came with the
\* best block.  The blocks that it finalizes are remembered for the database.
VerifyFinalityProof ==
    /\ At("process") /\ node.proof # "no" /\ UNCHANGED world
    /\ LET path == Between(node.fin, node.best) IN
       node' = IF node.proof = "bad" THEN Reset(node)
               ELSE [node EXCEPT !.proof = "no", !.fin = node.best,
                                 !.state = [best |-> node.best, fin |-> node.best],
                                 !.store = FoldLeft(Applied, @, path),
                                 !.toSave = path, !.pc = "database_blocks"]

\* database_blocks and database_set_finalized: closures for the thread of the
\* database, in this order; each waits for room in the channel.
Send(closure, next) ==
    /\ Len(queue) < QueueCap
    /\ queue' = Append(queue, closure)
    /\ node' = [node EXCEPT !.pc = next, !.toSave = IF next = "process" THEN <<>> ELSE @]
    /\ UNCHANGED <<db, disk, world>>
database_blocks ==
    node.pc = "database_blocks" /\ Send([op |-> "insert", blocks |-> node.toSave], "database_set_finalized")
database_set_finalized ==
    node.pc = "database_set_finalized" /\ Send([op |-> "finalize", blocks |-> <<Last(node.toSave)>>], "process")

\* Nothing more to verify: sync_state is updated, and the authoring prepared.
\* Whether a slot can be claimed depends on the clock and the keystore.
Process(builder) ==
    /\ At("process") /\ node.queued = <<>> /\ node.proof = "no" /\ UNCHANGED world
    /\ node.builder # "None" => builder = node.builder
    /\ node' = [node EXCEPT !.pc = "select", !.builder = builder, !.state.best = node.best]

Continue(v) == [v EXCEPT !.pc = "requests"]

\* author_block: the runtime is initialized, applies the inherents, finalizes
\* the block, which is then signed.  Any of this can fail.
CanAuthor == At("select") /\ node.builder \in {"Ready", "WaitSlot"}
AuthorFailed(outcome) ==
    /\ CanAuthor /\ UNCHANGED world
    /\ node' = Continue([node EXCEPT !.builder = IF outcome = "Error" THEN "Idle" ELSE "None"])
AuthorSuccess(b) ==
    /\ CanAuthor /\ b \in Own \ world.made /\ Parent[b] = node.best
    /\ world' = [world EXCEPT !.made = @ \cup {b}]
    /\ node' = Continue([node EXCEPT !.builder = "Idle", !.authored = b])

\* The two seconds after an authoring are over.
AuthoringReset ==
    /\ At("select") /\ node.builder = "Idle" /\ UNCHANGED world
    /\ node' = Continue([node EXCEPT !.builder = "None"])

Connected ==
    At("select") /\ ~ node.peer /\ UNCHANGED world /\ node' = Continue([node EXCEPT !.peer = TRUE])
Disconnected ==
    At("select") /\ node.peer /\ UNCHANGED world
        /\ node' = Continue([node EXCEPT !.peer = FALSE, !.asked = "no"])

\* A response brings a block, possibly with a justification, unless it is
\* outdated.  What the network finalizes is one chain.
Answered(b, proof) ==
    /\ At("select") /\ node.asked = "yes"
    /\ Height(b) = Height(node.best) + 1 /\ (b \in Own => b \in world.made)
    /\ proof = "good" => Parent[b] = node.best /\ (IsAncestor(b, world.canon) \/ IsAncestor(world.canon, b))
    /\ node' = Continue([node EXCEPT !.asked = "no", !.queued = Append(@, [block |-> b, proof |-> proof])])
    /\ world' = [world EXCEPT !.canon = IF proof = "good" /\ IsAncestor(@, b) THEN b ELSE @]
RequestEnded ==
    At("select") /\ node.asked # "no" /\ UNCHANGED world /\ node' = Continue([node EXCEPT !.asked = "no"])

\* The thread of the database runs the next closure; an error other than
\* Duplicate is a panic.
InsertUnlessThere(r, b) ==
    LET i == insert(r.db, b, TRUE)
    IN IF r.error # "none" \/ i.error = "Duplicate" THEN r ELSE i
Closure(d, c) ==
    IF c.op = "insert" THEN FoldLeft(InsertUnlessThere, Done(d), c.blocks) ELSE set_finalized(d, c.blocks[1])

DatabaseThread ==
    /\ queue # <<>> /\ node.pc # "panicked"
    /\ LET r == Closure(db, Head(queue)) IN
       /\ db' = r.db
       /\ disk' = IF Head(queue).op = "finalize" /\ r.error = "none" THEN r.db ELSE disk
       /\ node' = IF r.error = "none" THEN node ELSE [node EXCEPT !.pc = "panicked"]
    /\ queue' = Tail(queue)
    /\ UNCHANGED world

Restart(d) ==
    /\ world.crashes < MaxCrashes /\ world' = [world EXCEPT !.crashes = @ + 1]
    /\ db' = d /\ disk' = d /\ queue' = <<>> /\ node' = Started(d)

\* The process dies, and what isn't committed is lost.
Crash == Restart(disk)

\* A clean exit: the thread runs what is in the channel, then the database is
\* dropped, which commits.
Stop == node.pc # "panicked" /\ Restart(FoldLeft(LAMBDA x, c : Closure(x, c).db, db, queue))

FullNext ==
    \/ start_network_requests
    \/ \E success \in BOOLEAN : VerifyBodyHeader(success)
    \/ VerifyFinalityProof
    \/ database_blocks \/ database_set_finalized
    \/ \E builder \in {"Idle", "WaitSlot", "Ready"} : Process(builder)
    \/ \E outcome \in {"Error", "SigningError"} : AuthorFailed(outcome)
    \/ \E b \in Own : AuthorSuccess(b)
    \/ AuthoringReset
    \/ Connected \/ Disconnected
    \/ \E b \in BlockSet, proof \in {"no", "good", "bad"} : Answered(b, proof)
    \/ RequestEnded
    \/ DatabaseThread \/ Crash \/ Stop

FullSpec == FullInit /\ [][FullNext]_fullVars

-----------------------------------------------------------------------------
(* Another user of the database (a test, an archive node) that stores the  *)
(* forks too and finalizes descendants of the finalized block.             *)

DirectInsert(b, isNewBest) ==
    /\ insert(db, b, isNewBest).error = "none"
    /\ db' = insert(db, b, isNewBest).db /\ UNCHANGED <<disk, queue, node, world>>
DirectFinalize(b) ==
    /\ has_block(db, b) /\ IsAncestor(finalized_hash(db), b)
    /\ db' = set_finalized(db, b).db /\ disk' = db' /\ UNCHANGED <<queue, node, world>>

DirectNext == \E b \in BlockSet : DirectFinalize(b) \/ \E isNewBest \in BOOLEAN : DirectInsert(b, isNewBest)
DirectSpec == FullInit /\ [][DirectNext]_fullVars

-----------------------------------------------------------------------------
(* Properties.                                                             *)

\* What is in the database, and what a crash would find on the disk, is exactly
\* the finalized chain: its storage, epochs and authorities are those that
\* executing the chain from the genesis gives, and only the blocks above it
\* still have changes to merge (full_sqlite::set_finalized, insert).
Exact(d) ==
    LET f == finalized_hash(d)
        chain == AncestorTable[f] \ {0}
        epochs == chain \cap NewEpoch
        sets == chain \cap NewSet
    IN /\ Height(f) = d.fin /\ AncestorTable[f] \subseteq ToSet(d.blocks)
       /\ d.store = FoldLeft(Applied, EmptyStore, Between(0, f))
       /\ d.changes = {b \in ToSet(d.blocks) : Height(b) > d.fin}
       /\ to_chain_information(d) =
              [epoch |-> Cardinality(epochs) - 1, setId |-> Cardinality(sets), auths |-> Max(sets \cup {0}),
               next |-> [index |-> Cardinality(epochs), by |-> Max(epochs \cup {0})]]
       /\ IsAncestor(f, d.best) /\ has_block(d, d.best)
DatabaseExact == Exact(db) /\ Exact(disk)

\* The memory of the consensus service and its database never part: the disk is
\* behind the connection, which is behind the memory, along one chain; once the
\* channel to the thread is empty they agree on the finalized block and storage;
\* and no closure, and no restart at any point, panics (consensus_service.rs).
MemoryAheadOfDatabase ==
    /\ node.pc # "panicked"
    /\ IsAncestor(finalized_hash(disk), finalized_hash(db)) /\ IsAncestor(finalized_hash(db), node.fin)
    /\ queue = <<>> /\ node.toSave = <<>> => finalized_hash(db) = node.fin /\ db.store = node.store
    /\ node.store = FoldLeft(Applied, EmptyStore, Between(0, node.fin))

\* set_finalized reads the blocks to merge by height, "considering that the
\* database only contains one block per height on the finalized chain".
OneBlockPerHeight ==
    \A h \in 0 .. db.fin : Len(block_hashes_by_number(db, h)) = 1
=============================================================================
