------------------------------- MODULE MCSync -------------------------------
(***************************************************************************)
(* Small instances of the syncing strategies and of the state machine that *)
(* goes from one to the next: AllForks over two chains, the second of      *)
(* which starts with block 3; Optimistic over a chain and a fork that      *)
(* branches off block 1; and AllSync, which contains the warp sync.  Each  *)
(* behaviour is one of a single component.                                 *)
(***************************************************************************)
EXTENDS AllSync, TLC

CONSTANTS
    g, b1, b2, b3, b4, f2, f3,      \* blocks of the optimistic sync
    Nil

VARIABLES
    active,
    \* Optimistic
    queue, servers, nextSource, obsolete, chain, best, lastFinalized, justifications,
    diff, bestRuntime, finalizedRuntime,
    \* AllForks
    pb, verified, root, proofs, search

Forks == INSTANCE AllForks
    WITH Blocks <- 0..3, Genesis <- 0, Parent <- <<0, 1, 0>>, VerifyBodies <- FALSE,
         MaxRequestsPerBlock <- 1, RequestIds <- {1}, MaxSources <- 2, Invalid <- {}, Banned <- {3},
         Headerless <- {}, Changes <- {1}, Commits <- {1}, Justified <- {1},
         MaxUnverified <- 100, MayFail <- TRUE, tree <- verified, finalized <- root

Fast == INSTANCE Optimistic
    WITH Blocks <- {g, b1, b2, b3, b4, f2, f3}, Genesis <- g,
         Parent <- (b1 :> g @@ b2 :> b1 @@ b3 :> b2 @@ b4 :> b3 @@ f2 :> b1 @@ f3 :> f2),
         Invalid <- {f3}, Justified <- {b1, f2}, Upgrades <- {b2, f2}, Tips <- <<b4, f3>>,
         Full <- TRUE, DownloadAhead <- 4, Clamp <- 3, MayFail <- TRUE, MayShorten <- TRUE,
         MayLeave <- TRUE, MaxRequests <- 3,
         sources <- servers, tree <- chain, finalized <- lastFinalized

ASSUME InstancesAssumption ==
    Fast!OptimisticAssumption /\ Forks!ForksAssumption /\ AllSyncAssumption /\ WarpAssumption

fastVars ==
    <<queue, servers, nextSource, obsolete, chain, best, lastFinalized, justifications,
      diff, bestRuntime, finalizedRuntime>>
forksVars == <<pb, verified, root, proofs, search>>

MCInit ==
    /\ active \in {"AllForks", "Optimistic", "AllSync"}
    /\ Init /\ Fast!Init /\ Forks!Init
    /\ active # "AllSync" => mode = "Optimistic"

MCNext ==
    \/ active = "AllForks" /\ Forks!Next /\ UNCHANGED <<active, fastVars, vars>>
    \/ active = "Optimistic" /\ Fast!Next /\ UNCHANGED <<active, forksVars, vars>>
    \/ active = "AllSync" /\ Next /\ UNCHANGED <<active, fastVars, forksVars>>

MCSpec == MCInit /\ [][MCNext]_<<active, fastVars, forksVars, vars>>

\* The all-forks strategy: the chain is made of valid blocks above the finalized
\* one, no block is both verified and pending, nothing is left at or below the
\* finalized height, and the requests and their blocks name each other
\* (all_forks.rs, pending_blocks.rs): see AllForks.
AllForksSound ==
    /\ Forks!ChainSound /\ Forks!PendingNotInChain
    /\ Forks!AboveFinalized /\ Forks!RequestsConsistent

\* The optimistic strategy: every request is counted once, the storage diff and
\* the runtime are those of the best block, an accepted justification is for the
\* best block, and a received block is at its place (optimistic.rs): see Optimistic.
OptimisticSound ==
    Fast!RequestsAccounted /\ Fast!StateOfBest /\ Fast!JustificationOnBest /\ Fast!QueuedInPlace
=============================================================================
