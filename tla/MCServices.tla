----------------------------- MODULE MCServices -----------------------------
(***************************************************************************)
(* Small instances of the services that follow the chain: the sync service *)
(* of the light client and its subscribers, its transactions service, and  *)
(* the consensus service of the full node with its database.  Each         *)
(* behaviour is one of a single component.                                 *)
(***************************************************************************)
EXTENDS SyncService, Transactions

VARIABLES
    active,
    \* FullNode
    db, disk, writes, node, world

\* The warp sync reaches block 1, on which two branches grow (2, 4 and 3).  Block
\* 2 updates the runtime, so that finalizing 4 at once goes over an update that
\* 4 itself does not carry.
TreeBlocks == 0..4
TreeParent == <<0, 1, 1, 2>>

\* A chain and a fork of two blocks; both include transaction 1, the only one
\* that is watched.
ChainOrFork == {<<0, 1>>, <<0, 0>>}
Bodies == <<{1}, {1, 2}>>

\* Two branches on block 1 (2, 3 and 4); the node authors block 4.
Full == INSTANCE FullNode
    WITH LastBlock <- 4, Parent <- <<0, 1, 2, 1>>, Own <- {4}, Keys <- {"a", "b"},
         Changes <- <<[a |-> "x"], [b |-> "y"], [a |-> "removed"], [a |-> "z"]>>,
         NewEpoch <- {1, 3}, NewSet <- {2, 4}, QueueCap <- 2, MaxCrashes <- 2,
         queue <- writes

fullVars == <<db, disk, writes, node, world>>

MCInit ==
    /\ active \in {"SyncService", "Transactions", "FullNode"}
    /\ Init /\ TransactionsInit /\ Full!FullInit
    /\ active # "Transactions" => s.shape = <<0, 1>>

MCNext ==
    \/ active = "SyncService" /\ Next /\ UNCHANGED <<active, s, fullVars>>
    \/ /\ active = "Transactions" /\ TransactionsNext /\ \A w \in Watchers : s'.watching[w] # 2
       /\ UNCHANGED <<active, vars, fullVars>>
    \/ active = "FullNode" /\ Full!FullNext /\ UNCHANGED <<active, vars, s>>

MCSpec == MCInit /\ [][MCNext]_<<active, vars, s, fullVars>>

\* The streams of the sync service are interchangeable.
StreamSymmetry == Permutations(Streams)

\* The subscribers of the sync service mirror its chain, the runtime handed over
\* with the finalized block is the one of that block, and the network service
\* knows the best and the finalized block (sync_service/standalone.rs): see SyncService.
SyncServiceSound ==
    active = "SyncService" => SubscribersMirror /\ RuntimeOfFinalized /\ NetworkInformed

\* The pool follows the chain, and the statuses sent to a watcher are those of its
\* transaction (light_pool.rs, transactions_service.rs): see Transactions.
TransactionsSound ==
    active = "Transactions" => PoolExact /\ StatusTruthful

\* What the database holds is what the chain says, at every crash point, and the
\* node in memory is never behind it (full_sqlite.rs, consensus_service.rs): see FullNode.
FullNodeSound ==
    active = "FullNode" => Full!DatabaseExact /\ Full!MemoryAheadOfDatabase
=============================================================================
