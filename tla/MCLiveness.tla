----------------------------- MODULE MCLiveness -----------------------------
(***************************************************************************)
(* What must eventually happen in the trees and in the syncing strategies:  *)
(* the asynchronous tree of the runtime service, the fork tree, the        *)
(* optimistic sync, the all-forks sync and the warp sync.  Each behaviour  *)
(* is one of a single component, under the fairness that the callers of    *)
(* the component provide.                                                  *)
(***************************************************************************)
EXTENDS Naturals, TLC

CONSTANTS Nil, NotPruning, b1, b2, b3, b4, b5, g

VARIABLES
    active,
    \* AsyncTree
    parent, state, sameAsParent, timeout, opId, weight, bestBlock, inputFinalized,
    nextWeight, finalizedWeight, finalizedData, nextOpId, now, inputBest, inFlight, wantsSame,
    \* Optimistic
    queue, servers, nextSource, obsolete, tree, best, finalized, justifications,
    diff, bestRuntime, finalizedRuntime,
    \* ForkTree
    slab, nodeParent, firstChild, nextSibling, previousSibling, isPruneTargetAncestor, firstRoot,
    pruner, before,
    \* AllForks
    pb, verified, root, proofs, search,
    \* AllSync
    phase, sources, source, previous, verifier, target, query,
    mode, mapping, requests, owner, innerRequests, joins

Tree == INSTANCE AsyncTree
    WITH Blocks <- {b1, b2}, RetryAfterFailed <- 1, InputBestIsLeaf <- TRUE,
         MaxTime <- 3, MaxWeight <- 3

Fork == INSTANCE ForkTree
    WITH Blocks <- {b1, b2, b3}, parent <- nodeParent

\* Two branches of block 0 (1, 2 and 3), announced by one source.
TwoChains == <<0, 1, 0>>
Forks == INSTANCE AllForks
    WITH Blocks <- 0..3, Genesis <- 0, Parent <- TwoChains, VerifyBodies <- FALSE,
         MaxRequestsPerBlock <- 1, RequestIds <- {1}, MaxSources <- 1, Invalid <- {}, Banned <- {},
         Headerless <- {}, Changes <- {1}, Commits <- {1, 2}, Justified <- {1},
         MaxUnverified <- 100, MayFail <- FALSE, tree <- verified, finalized <- root

\* A chain of five blocks, downloaded from one source that may fail.
Chain == INSTANCE Optimistic
    WITH Blocks <- {g, b1, b2, b3, b4, b5}, Genesis <- g,
         Parent <- (b1 :> g @@ b2 :> b1 @@ b3 :> b2 @@ b4 :> b3 @@ b5 :> b4),
         Invalid <- {}, Justified <- {b2, b4}, Upgrades <- {b2}, Tips <- <<b5>>,
         Full <- TRUE, DownloadAhead <- 4, Clamp <- 3, MayFail <- TRUE, MayShorten <- TRUE,
         MayLeave <- FALSE, MaxRequests <- 3, sources <- servers

\* One peer that answers correctly and one that answers anything.
Warp == INSTANCE AllSync
    WITH SourceIds <- {0, 1}, EraLength <- 2, Eras <- 2, StartBlock <- 1, IsBabe <- TRUE,
         UsesNextKey <- FALSE, MaxQueries <- 1, Peers <- {"good", "other"}, Honest <- {"good"},
         RequestIds <- {0, 1}, StartModes <- {"GrandpaWarpSync"}, MayLeave <- FALSE,
         MaxFragments <- 2, MaxJoins <- 2

treeVars ==
    <<parent, state, sameAsParent, timeout, opId, weight, bestBlock, inputFinalized,
      nextWeight, finalizedWeight, finalizedData, nextOpId, now, inputBest, inFlight, wantsSame>>
chainVars ==
    <<queue, servers, nextSource, obsolete, tree, best, finalized, justifications,
      diff, bestRuntime, finalizedRuntime>>
forkVars ==
    <<slab, nodeParent, firstChild, nextSibling, previousSibling, isPruneTargetAncestor, firstRoot,
      pruner, before>>
forksVars == <<pb, verified, root, proofs, search>>
warpVars ==
    <<phase, sources, source, previous, verifier, target, query,
      mode, mapping, requests, owner, innerRequests, joins>>
mcVars == <<active, treeVars, forkVars, chainVars, forksVars, warpVars>>

Init ==
    /\ active \in {"AsyncTree", "ForkTree", "Optimistic", "AllForks", "AllSync"}
    /\ Tree!Init /\ Fork!Init /\ Chain!Init /\ Forks!Init /\ Warp!Init

TreeStep(A) ==
    active = "AsyncTree" /\ A /\ UNCHANGED <<active, forkVars, chainVars, forksVars, warpVars>>
ForkStep(A) ==
    active = "ForkTree" /\ A /\ UNCHANGED <<active, treeVars, chainVars, forksVars, warpVars>>
ChainStep(A) ==
    active = "Optimistic" /\ A /\ UNCHANGED <<active, treeVars, forkVars, forksVars, warpVars>>
ForksStep(A) ==
    active = "AllForks" /\ A /\ UNCHANGED <<active, treeVars, forkVars, chainVars, warpVars>>
WarpStep(A) ==
    active = "AllSync" /\ A /\ UNCHANGED <<active, treeVars, forkVars, chainVars, forksVars>>

Next ==
    \/ TreeStep(Tree!Next)
    \/ ForkStep(Fork!Next)
    \/ ChainStep(Chain!Next)
    \/ ForksStep(Forks!Next)
    \/ WarpStep(Warp!Next)

In(component, A) == active = component /\ A
strongVars == <<chainVars, forksVars>>

\* A behaviour takes the steps of one component only, so that strong fairness to a
\* disjunction of steps of different components is strong fairness to each of them.
FairSpec ==
    /\ Init /\ [][Next]_mcVars
    /\ WF_treeVars(In("AsyncTree", Tree!StartOp))
    /\ WF_treeVars(In("AsyncTree", Tree!Tick))
    /\ WF_treeVars(In("AsyncTree", Tree!Advance))
    /\ WF_treeVars(In("AsyncTree", Tree!AnswerOldestOp))
    /\ WF_forkVars(In("ForkTree", Fork!PruneStep))
    /\ WF_chainVars(In("Optimistic", Chain!StartSomeRequest))
    /\ WF_chainVars(In("Optimistic", Chain!FinishSomeObsolete))
    /\ WF_chainVars(In("Optimistic", Chain!ProcessOne))
    /\ WF_forksVars(In("AllForks", Forks!SearchStep))
    /\ WF_warpVars(In("AllSync", Warp!StartSomeWarpRequest))
    /\ WF_warpVars(In("AllSync", Warp!VerifyWarpSyncFragment))
    /\ \A r \in {0, 1} : WF_warpVars(In("AllSync", Warp!Response(r)))
    /\ SF_strongVars(\/ In("Optimistic", \E r \in Chain!Requests(queue) : Chain!Answer(r)) /\ UNCHANGED forksVars
                     \/ In("AllForks", Forks!AnswerTo(1)) /\ UNCHANGED chainVars)
    /\ SF_forksVars(In("AllForks", Forks!ProcessOne))
    /\ \A b \in 0..3 : SF_forksVars(In("AllForks", Forks!RequestSome(0, b)))

\* Once the input is quiet, the output of the asynchronous tree catches up with it
\* and stays there (try_advance_output), and a pruning of the fork tree that has
\* started ends (prune_ancestors of fork_tree.rs): see AsyncTree and ForkTree.
TreesSettle == Tree!EventuallyCaughtUp /\ Fork!PruningTerminates

\* The optimistic sync reaches what its source has (optimistic.rs), the all-forks
\* sync the best block of its source (all_forks.rs), and the warp sync ends as long
\* as a correct source stays (all.rs): see Optimistic, AllForks and AllSync.
EventuallySynced ==
    Chain!EventuallySynced /\ Forks!BestEventuallySynced /\ Warp!EventuallyAllForks

\* Of the finality proofs of a source, the one with the lowest target is kept
\* (all_forks.rs): see AllForks.
LowestProofKept == Forks!LowestProofKept
=============================================================================
