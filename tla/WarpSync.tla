------------------------------ MODULE WarpSync ------------------------------
(***************************************************************************)
(* The GrandPa warp sync state machine (src/src/sync/warp_sync.rs) with    *)
(* the verifier of warp sync proofs it drives                              *)
(* (src/src/finality/grandpa/warp_sync.rs).                                *)
(*                                                                         *)
(* The chain is a line of blocks 1..Tip.  Every EraLength-th block changes  *)
(* the authorities, so that a block is finalized by the set of the era it  *)
(* belongs to.  A fragment of a proof is the block whose justification it  *)
(* carries, or NoBlock when it does not verify (it cannot be decoded, its  *)
(* target is another block, or its signatures are wrong).                  *)
(***************************************************************************)
EXTENDS Integers, Sequences, FiniteSetsExt, Functions

CONSTANTS
    SourceIds,      \* keys of the slab of sources
    EraLength,      \* every EraLength-th block changes the authorities
    Eras,           \* number of changes in the chain
    StartBlock,     \* finalized block of the starting chain information
    IsBabe,         \* the starting chain information uses Babe
    UsesNextKey,    \* the Babe runtime calls ask for a "next key"
    MaxQueries      \* storage accesses of one runtime call

Tip == EraLength * Eras + 1
BlockNumbers == 1 .. Tip
NoBlock == 0
Fragments == {NoBlock} \cup BlockNumbers

WarpAssumption ==
    /\ SourceIds \subseteq Nat
    /\ EraLength \in Nat \ {0}
    /\ Eras \in Nat
    /\ StartBlock \in BlockNumbers
    /\ IsBabe \in BOOLEAN
    /\ UsesNextKey \in BOOLEAN
    /\ MaxQueries \in Nat

\* The block contains a digest item that changes the GrandPa authorities.
IsChange(b) == b % EraLength = 0

\* Identifier of the set that finalizes block b.
SigningSet(b) == (b - 1) \div EraLength

\* Identifier of the set in force after block b.
SetAfter(b) == b \div EraLength

VARIABLES
    phase,      \* variant of InProgressWarpSync, or "Finished"
    sources,    \* source -> already_tried
    source,     \* source of the current request or proof
    previous,   \* previous_verifier_values
    verifier,   \* set in force, fragments left, final_set_of_fragments
    target,     \* header and finality that are being warp synced to
    query       \* epoch being fetched and number of accesses left

warpVars == <<phase, sources, source, previous, verifier, target, query>>

None == [none |-> TRUE]
NoSource == -1

StartPosition == [header |-> StartBlock, set |-> SetAfter(StartBlock)]

PreVerification == {"WarpSyncRequest", "Verifier"}

(***************************************************************************)
(* Choice of the source of the next request.                               *)
(***************************************************************************)
\* Mutant: the sources that were all tried stay banned.
NeverUnbanned(srcs) == srcs

\* When every source has been tried, all of them are to be tried again.
Unbanned(srcs) ==
    IF \A s \in DOMAIN srcs : srcs[s]
    THEN [s \in DOMAIN srcs |-> FALSE]
    ELSE srcs

UntriedSources(srcs) == {s \in DOMAIN srcs : ~srcs[s]}

WarpSyncRequestFromNextSource(srcs, prev) ==
    LET updated == Unbanned(srcs)
        untried == UntriedSources(updated)
    IN  /\ sources' = updated
        /\ previous' = prev
        /\ IF untried = {}
           THEN phase' = "WaitingForSources" /\ source' = NoSource
           ELSE phase' = "WarpSyncRequest" /\ source' = Min(untried)
        /\ verifier' = None
        /\ target' = None
        /\ query' = None

(***************************************************************************)
(* Sources.                                                                *)
(***************************************************************************)
WarpAddSource(s) ==
    /\ phase # "Finished"
    /\ s \in SourceIds \ DOMAIN sources
    /\ sources' = [t \in DOMAIN sources \cup {s} |-> t # s /\ sources[t]]
    /\ IF phase = "WaitingForSources"
       THEN phase' = "WarpSyncRequest" /\ source' = s
       ELSE UNCHANGED <<phase, source>>
    /\ UNCHANGED <<previous, verifier, target, query>>

\* What is kept of the proofs already verified when the current source leaves.
KeptOnRemoval == IF phase \in PreVerification THEN previous ELSE None

WarpRemoveSource(s) ==
    /\ phase # "Finished"
    /\ s \in DOMAIN sources
    /\ LET rest == Restrict(sources, DOMAIN sources \ {s})
       IN  IF s = source
           THEN WarpSyncRequestFromNextSource(rest, KeptOnRemoval)
           ELSE /\ sources' = rest
                /\ UNCHANGED <<phase, source, previous, verifier, target, query>>

(***************************************************************************)
(* Answers to the warp sync request.                                       *)
(***************************************************************************)
\* Block from which the warp sync proof is requested.
StartOfRequest == IF previous = None THEN StartBlock ELSE previous.header

\* Mutant: the source that answered is not marked as tried.
NotTried(s) == sources

Tried(s) == [sources EXCEPT ![s] = TRUE]

HandleResponseOk(fragments, final) ==
    /\ phase = "WarpSyncRequest"
    /\ phase' = "Verifier"
    /\ sources' = Tried(source)
    /\ verifier' =
        [ set       |-> (IF previous = None THEN StartPosition ELSE previous).set,
          fragments |-> fragments,
          final     |-> final ]
    /\ UNCHANGED <<source, previous, target, query>>

HandleResponseErr ==
    /\ phase = "WarpSyncRequest"
    /\ WarpSyncRequestFromNextSource(Tried(source), previous)

(***************************************************************************)
(* Verification of one fragment.                                           *)
(***************************************************************************)
IsLast == Len(verifier.fragments) = 1

SetAfterFragment(b) == verifier.set + (IF IsChange(b) THEN 1 ELSE 0)

\* Mutant: the justification is not verified against the set in force.
FragmentUnsigned(b) ==
    /\ b # NoBlock
    /\ IsChange(b) \/ (verifier.final /\ IsLast)

\* The fragment b is correctly signed by the set in force, and changes the
\* authorities unless it ends the proof.
FragmentValid(b) ==
    /\ b # NoBlock
    /\ SigningSet(b) = verifier.set
    /\ IsChange(b) \/ (verifier.final /\ IsLast)

\* A complete proof without any fragment: the starting block is the head.
VerifyEmptyProof ==
    /\ verifier.fragments = <<>>
    /\ verifier.final
    /\ phase' = "VirtualMachineParamsGet"
    /\ target' = StartPosition
    /\ previous' = None
    /\ verifier' = None
    /\ UNCHANGED <<sources, source, query>>

VerifyNotFinished ==
    /\ Len(verifier.fragments) > 1
    /\ LET b == Head(verifier.fragments)
       IN  /\ FragmentValid(b)
           /\ verifier' = [ verifier EXCEPT !.set = SetAfterFragment(b),
                                            !.fragments = Tail(@) ]
    /\ UNCHANGED <<phase, sources, source, previous, target, query>>

\* The last fragment: either the end of the chain is reached, or the rest of
\* the proof is requested from the same source.
VerifySuccess ==
    /\ Len(verifier.fragments) = 1
    /\ LET b == Head(verifier.fragments)
           reached == [header |-> b, set |-> SetAfterFragment(b)]
       IN  /\ FragmentValid(b)
           /\ IF verifier.final
              THEN /\ phase' = "VirtualMachineParamsGet"
                   /\ target' = reached
                   /\ previous' = None
              ELSE /\ phase' = "WarpSyncRequest"
                   /\ previous' = reached
                   /\ target' = None
    /\ verifier' = None
    /\ UNCHANGED <<sources, source, query>>

VerifyError ==
    /\ IF verifier.fragments = <<>>
       THEN ~verifier.final
       ELSE ~FragmentValid(Head(verifier.fragments))
    /\ WarpSyncRequestFromNextSource(sources, previous)

VerifierNext ==
    /\ phase = "Verifier"
    /\ VerifyEmptyProof \/ VerifyNotFinished \/ VerifySuccess \/ VerifyError

(***************************************************************************)
(* Download of the runtime, then of the epochs of Babe.                    *)
(***************************************************************************)
\* Every failure after the verification starts again from the beginning.
StartOver == WarpSyncRequestFromNextSource(sources, None)

\* The runtime call that fetches an epoch asks for a storage item.
FetchAsks(epoch, left) ==
    /\ left > 0
    /\ phase' \in {"StorageGet"} \cup (IF UsesNextKey THEN {"NextKey"} ELSE {})
    /\ query' = [epoch |-> epoch, left |-> left - 1]
    /\ UNCHANGED <<sources, source, previous, verifier, target>>

\* Success: the sources are handed over with the chain information.
FetchSucceeds ==
    /\ phase' = "Finished"
    /\ sources' = << >>
    /\ source' = NoSource
    /\ query' = None
    /\ UNCHANGED <<previous, verifier, target>>

\* The call that fetches `epoch' runs until it asks for something, fails, or
\* ends, in which case the next epoch is fetched after the current one.
FromBabeFetchEpochQuery(epoch, left, ok) ==
    \/ FetchAsks(epoch, left)
    \/ epoch = "CurrentEpoch" /\ FetchAsks("NextEpoch", MaxQueries)
    \/ ok /\ FetchSucceeds
    \/ ~ok /\ StartOver

\* ok tells whether the runtime can be compiled and its calls succeed.
SetVirtualMachineParams(ok) ==
    /\ phase = "VirtualMachineParamsGet"
    /\ \/ ok /\ IsBabe /\ FromBabeFetchEpochQuery("CurrentEpoch", MaxQueries, ok)
       \/ ~(ok /\ IsBabe) /\ StartOver

InjectValue(ok) ==
    /\ phase = "StorageGet"
    /\ FromBabeFetchEpochQuery(query.epoch, query.left, ok)

\* VirtualMachineParamsGet::inject_error and StorageGet::inject_error.
InjectError ==
    /\ phase \in {"VirtualMachineParamsGet", "StorageGet"}
    /\ StartOver

WarpInit ==
    /\ phase = "WaitingForSources"
    /\ sources = << >>
    /\ source = NoSource
    /\ previous = None
    /\ verifier = None
    /\ target = None
    /\ query = None
=============================================================================
