------------------------------- MODULE AllSync -------------------------------
(***************************************************************************)
(* The syncing state machine of src/src/sync/all.rs, which runs the warp   *)
(* sync first and goes on with the all-forks strategy, or runs the         *)
(* optimistic strategy, driven by the task of                              *)
(* src/bin/light-base/src/sync_service/standalone.rs.                      *)
(*                                                                         *)
(* Sources and requests have an identifier of the AllSync (outer) and one  *)
(* of the strategy in use (inner).  What the all-forks and the optimistic  *)
(* strategies do with their blocks is in AllForks and Optimistic; here only *)
(* their sources and requests are kept.                                    *)
(***************************************************************************)
EXTENDS WarpSync

CONSTANTS
    Peers,          \* network peers
    Honest,         \* peers whose answers are what the protocol asks for
    RequestIds,     \* keys of the slabs of requests
    StartModes,     \* strategies the state machine may be created with
    MayLeave,       \* peers may disconnect
    MaxFragments,   \* fragments in one answer
    MaxJoins        \* bound: connections of a peer

AllSyncAssumption ==
    /\ Honest \subseteq Peers
    /\ RequestIds \subseteq Nat
    /\ StartModes \subseteq {"GrandpaWarpSync", "Optimistic"}
    /\ MayLeave \in BOOLEAN
    /\ MaxFragments \in Nat \ {0}
    /\ MaxJoins \in Nat

VARIABLES
    mode,           \* variant of AllSyncInner; "Panicked" after a panic
    mapping,        \* shared.sources: outer source -> strategy and inner source
    requests,       \* shared.requests: outer request -> RequestMapping
    owner,          \* inner source -> outer source and peer (its user data)
    innerRequests,  \* all-forks or optimistic request -> inner source, outer request
    joins           \* number of connections so far (bound)

syncVars == <<mode, mapping, requests, owner, innerRequests, joins>>
vars == <<warpVars, syncVars>>

Connected == {owner[i].peer : i \in DOMAIN owner}

Extended(f, k, v) == [x \in DOMAIN f \cup {k} |-> IF x = k THEN v ELSE f[x]]
Without(f, ks) == Restrict(f, DOMAIN f \ ks)

(***************************************************************************)
(* Sources.                                                                *)
(***************************************************************************)
\* Event::Connected.  The new source gets a key of each slab.
AddSource(p, outer, inner) ==
    /\ mode # "Panicked"
    /\ p \notin Connected
    /\ joins < MaxJoins
    /\ outer \in SourceIds \ DOMAIN mapping
    /\ inner \in SourceIds \ DOMAIN owner
    /\ mapping' = Extended(mapping, outer, [mode |-> mode, id |-> inner])
    /\ owner' = Extended(owner, inner, [outer |-> outer, peer |-> p])
    /\ joins' = joins + 1
    /\ IF mode = "GrandpaWarpSync" THEN WarpAddSource(inner) ELSE UNCHANGED warpVars
    /\ UNCHANGED <<mode, requests, innerRequests>>

\* Requests of the strategy that are made to the inner source.
RequestsOf(inner) == {r \in DOMAIN innerRequests : innerRequests[r].source = inner}

\* Outer identifiers of the requests that are returned when the source leaves.
ReturnedRequests(inner) == {innerRequests[r].outer : r \in RequestsOf(inner)}

\* Event::Disconnected.  Only the requests that are returned are aborted; the
\* "inline" ones continue and are answered later.
RemoveSource(outer) ==
    /\ mode # "Panicked"
    /\ MayLeave
    /\ outer \in DOMAIN mapping
    /\ LET inner == mapping[outer].id
       IN  /\ mapping' = Without(mapping, {outer})
           /\ owner' = Without(owner, {inner})
           /\ requests' = Without(requests, ReturnedRequests(inner))
           /\ innerRequests' = Without(innerRequests, RequestsOf(inner))
           /\ IF mode = "GrandpaWarpSync"
              THEN WarpRemoveSource(inner)
              ELSE UNCHANGED warpVars
    /\ UNCHANGED <<mode, joins>>

(***************************************************************************)
(* Requests.                                                               *)
(***************************************************************************)
\* The two keys, :code and :heappages, of the runtime.
CodeAndHeapPages == [epoch |-> "Runtime", left |-> 0]

\* The request that the warp sync needs in order to continue, if any.
DesiredDetail ==
    CASE phase = "WarpSyncRequest" ->
            [type |-> "GrandpaWarpSync", block |-> StartOfRequest, item |-> None]
      [] phase = "VirtualMachineParamsGet" ->
            [type |-> "StorageGet", block |-> target.header, item |-> CodeAndHeapPages]
      [] phase = "StorageGet" ->
            [type |-> "StorageGet", block |-> target.header, item |-> query]
      [] OTHER -> None

Inline == {r \in DOMAIN requests : requests[r].mode = "Inline"}

\* source_num_ongoing_requests
NumOngoing(outer) ==
    Cardinality({r \in Inline : requests[r].source = outer})
        + Cardinality(RequestsOf(mapping[outer].id))

\* start_next_request in the warp sync: desired_requests, then add_request.
StartWarpRequest(r) ==
    /\ mode = "GrandpaWarpSync"
    /\ r \in RequestIds \ DOMAIN requests
    /\ DesiredDetail # None
    /\ LET outer == owner[source].outer
       IN  /\ ~\E q \in Inline : /\ requests[q].source = outer
                                 /\ requests[q].detail = DesiredDetail
           /\ NumOngoing(outer) = 0
           /\ requests' = Extended(requests, r,
                [ mode |-> "Inline", source |-> outer, detail |-> DesiredDetail,
                  peer |-> owner[source].peer ])
    /\ UNCHANGED <<warpVars, mode, mapping, owner, innerRequests, joins>>

\* start_next_request in the other strategies: a request for blocks.
StartBlocksRequest(outer, r, inner) ==
    /\ mode \in {"AllForks", "Optimistic"}
    /\ r \in RequestIds \ DOMAIN requests
    /\ inner \in RequestIds \ DOMAIN innerRequests
    /\ outer \in DOMAIN mapping
    /\ NumOngoing(outer) = 0
    /\ requests' = Extended(requests, r, [mode |-> mode, id |-> inner])
    /\ innerRequests' =
        Extended(innerRequests, inner, [source |-> mapping[outer].id, outer |-> r])
    /\ UNCHANGED <<warpVars, mode, mapping, owner, joins>>

\* blocks_request_response
BlocksResponse(r) ==
    /\ mode # "Panicked"
    /\ r \in DOMAIN requests \ Inline
    /\ requests' = Without(requests, {r})
    /\ innerRequests' = Without(innerRequests, {requests[r].id})
    /\ UNCHANGED <<warpVars, mode, mapping, owner, joins>>

(***************************************************************************)
(* Answers to the requests of the warp sync.  A request that was made to a *)
(* source that has left, or for a state that is over, is answered as well: *)
(* the answer is given to the state the warp sync is in.                   *)
(***************************************************************************)
\* The proof that starts at a block, cut to MaxFragments fragments.
ProofFrom(start) ==
    LET era == start \div EraLength
        changes == [i \in 1 .. (Eras - era) |-> (era + i) * EraLength]
        full == IF start = Tip THEN << >> ELSE Append(changes, Tip)
    IN  IF Len(full) <= MaxFragments
        THEN [fragments |-> full, final |-> TRUE]
        ELSE [fragments |-> SubSeq(full, 1, MaxFragments), final |-> FALSE]

AnyProof ==
    [fragments : UNION {[1 .. n -> Fragments] : n \in 0 .. MaxFragments}, final : BOOLEAN]

\* Proofs with which a peer answers a request.
ProofsBy(peer, start) == IF peer \in Honest THEN {ProofFrom(start)} ELSE AnyProof

\* The request may end with a network error or with an invalid answer.
AnswerMayFail(peer) == peer \notin Honest \cap Connected

InWarpSync(phases) == mode = "GrandpaWarpSync" /\ phase \in phases

\* grandpa_warp_sync_response_ok and grandpa_warp_sync_response_err
WarpSyncResponse(r) ==
    /\ mode # "Panicked"
    /\ r \in Inline
    /\ requests[r].detail.type = "GrandpaWarpSync"
    /\ requests' = Without(requests, {r})
    /\ IF InWarpSync({"WarpSyncRequest"})
       THEN \/ \E proof \in ProofsBy(requests[r].peer, requests[r].detail.block) :
                    HandleResponseOk(proof.fragments, proof.final)
            \/ AnswerMayFail(requests[r].peer) /\ HandleResponseErr
       ELSE UNCHANGED warpVars
    /\ UNCHANGED <<mode, mapping, owner, innerRequests, joins>>

\* Phase for which the number of values in the answer is the right one.
PhaseOfAnswer(detail) ==
    IF detail.item = CodeAndHeapPages THEN "VirtualMachineParamsGet" ELSE "StorageGet"

\* Mutant: the sources keep the mapping they had in the warp sync.
StaleMapping(renumbered) == mapping

\* The inner sources are given new identifiers by the all-forks strategy.
TransitionedMapping(renumbered) ==
    [ o \in DOMAIN mapping |-> [mode |-> "AllForks", id |-> renumbered[mapping[o].id]] ]

\* transition_grandpa_warp_sync_all_forks
Transition ==
    \E renumbered \in Injection(DOMAIN owner, SourceIds) :
        /\ mode' = "AllForks"
        /\ mapping' = TransitionedMapping(renumbered)
        /\ owner' = [ i \in Range(renumbered) |->
                        owner[CHOOSE j \in DOMAIN owner : renumbered[j] = i] ]

\* The values of an answer are injected in the warp sync.
InjectAnswer(r) ==
    /\ InWarpSync({"VirtualMachineParamsGet", "StorageGet"})
    /\ phase = PhaseOfAnswer(requests[r].detail)
    /\ \E ok \in BOOLEAN :
        /\ requests[r].detail = DesiredDetail /\ requests[r].peer \in Honest => ok
        /\ SetVirtualMachineParams(ok) \/ InjectValue(ok)
    /\ IF phase' = "Finished" THEN Transition ELSE UNCHANGED <<mode, mapping, owner>>

\* storage_get_response
StorageResponse(r) ==
    /\ mode # "Panicked"
    /\ r \in Inline
    /\ requests[r].detail.type = "StorageGet"
    /\ requests' = Without(requests, {r})
    /\ \/ InjectAnswer(r)
       \/ /\ InWarpSync({"VirtualMachineParamsGet", "StorageGet"})
          /\ AnswerMayFail(requests[r].peer)
          /\ InjectError
          /\ UNCHANGED <<mode, mapping, owner>>
       \/ \* `unwrap' of a missing value, or `assert' that there is none left.
          /\ InWarpSync({"VirtualMachineParamsGet", "StorageGet"})
          /\ phase # PhaseOfAnswer(requests[r].detail)
          /\ mode' = "Panicked"
          /\ UNCHANGED <<warpVars, mapping, owner>>
       \/ /\ ~InWarpSync({"VirtualMachineParamsGet", "StorageGet"})
          /\ UNCHANGED <<warpVars, mode, mapping, owner>>
    /\ UNCHANGED <<innerRequests, joins>>

\* process_one: one fragment of a warp sync proof is verified.
VerifyWarpSyncFragment ==
    /\ mode = "GrandpaWarpSync"
    /\ VerifierNext
    /\ UNCHANGED syncVars

Init ==
    /\ WarpInit
    /\ mode \in StartModes
    /\ mapping = << >>
    /\ requests = << >>
    /\ owner = << >>
    /\ innerRequests = << >>
    /\ joins = 0

Response(r) == BlocksResponse(r) \/ WarpSyncResponse(r) \/ StorageResponse(r)

StartSomeWarpRequest == \E r \in RequestIds : StartWarpRequest(r)

Next ==
    \/ \E p \in Peers, outer, inner \in SourceIds : AddSource(p, outer, inner)
    \/ \E outer \in SourceIds : RemoveSource(outer)
    \/ StartSomeWarpRequest
    \/ \E outer \in SourceIds, r, inner \in RequestIds : StartBlocksRequest(outer, r, inner)
    \/ \E r \in RequestIds : BlocksResponse(r)
    \/ \E r \in RequestIds : WarpSyncResponse(r)
    \/ \E r \in RequestIds : StorageResponse(r)
    \/ VerifyWarpSyncFragment

Spec == Init /\ [][Next]_vars

\* The select! of the task serves every source of events: requests end (they
\* have a timeout), desired requests are started, and fragments are verified.
FairSpec ==
    /\ Spec
    /\ \A r \in RequestIds : WF_vars(Response(r))
    /\ WF_vars(StartSomeWarpRequest)
    /\ WF_vars(VerifyWarpSyncFragment)

-----------------------------------------------------------------------------
(***************************************************************************)
(* Properties.                                                             *)
(***************************************************************************)
\* The outer and the inner identifiers of the sources and of the requests of
\* the strategy in use correspond one to one, through the connections, the
\* answers and the transition to the all-forks strategy: none of the
\* `unreachable!' arms of all.rs ("Invalid combinations of syncing state
\* machine and source id") and of its debug_assert!s on identifiers is reached.
IdentifiersConsistent ==
    mode # "Panicked" =>
        /\ \A o \in DOMAIN mapping :
            /\ mapping[o].mode = mode
            /\ mapping[o].id \in DOMAIN owner
            /\ owner[mapping[o].id].outer = o
        /\ \A i \in DOMAIN owner :
            /\ owner[i].outer \in DOMAIN mapping
            /\ mapping[owner[i].outer].id = i
        /\ \A r \in DOMAIN requests \ Inline :
            /\ requests[r].mode = mode
            /\ requests[r].id \in DOMAIN innerRequests
            /\ innerRequests[requests[r].id].outer = r
        /\ \A i \in DOMAIN innerRequests :
            /\ innerRequests[i].source \in DOMAIN owner
            /\ innerRequests[i].outer \in DOMAIN requests \ Inline

\* The source the warp sync is waiting for is always one of its sources, and it
\* waits for new sources only when it has none, whichever sources join and
\* leave and whichever answers arrive late: the debug_assert!s of
\* warp_sync_request_from_next_source, current_source and warp_sync_source.
CurrentSourceKnown ==
    mode = "GrandpaWarpSync" =>
        /\ DOMAIN sources = DOMAIN owner
        /\ IF phase = "WaitingForSources" THEN sources = << >> ELSE source \in DOMAIN sources

\* Whatever the sources answer, the set of authorities that goes with a header
\* that the warp sync has reached, or ends with, is the one in force after
\* that header (Verifier::next of the GrandPa warp sync).
PositionSound ==
    \A position \in {previous, target} \ {None} :
        position.set = SetAfter(position.header)

\* From a strategy to the next: outer and inner identifiers correspond, the warp
\* sync waits for a source that it has, and the authorities that go with the
\* header it has reached are the ones in force there (all.rs).
AllSyncSound == IdentifiersConsistent /\ CurrentSourceKnown /\ PositionSound

\* The values that are injected in the warp sync are those that it asked for:
\* "Returns the key whose value must be passed to StorageGet::inject_value"
\* (warp_sync.rs).  An answer to an earlier request is not.
ValueOfTheKey ==
    [][ \A r \in Inline : InjectAnswer(r) /\ requests' = Without(requests, {r})
            => requests[r].detail = DesiredDetail ]_vars

\* As long as a peer that answers correctly stays connected, the warp sync ends
\* and the all-forks strategy takes over, whatever the other peers answer:
\* the sources are tried in turn.
EventuallyAllForks ==
    (\E p \in Honest : <>[](p \in Connected)) => <>(mode # "GrandpaWarpSync")
=============================================================================
