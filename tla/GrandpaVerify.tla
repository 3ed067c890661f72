--------------------------- MODULE GrandpaVerify ---------------------------
(***************************************************************************)
(* src/src/finality: the verification of a GrandPa commit                   *)
(* (grandpa/commit/verify.rs), which stops to ask its user about every      *)
(* authority and every voted block, and that of a justification             *)
(* (justification/verify.rs), a single call.                                *)
(*                                                                         *)
(* Of a precommit the model keeps its author and how the voted block        *)
(* relates to the target, as the tree of the user knows it.  The signatures *)
(* are verified in one batch: signed says that all of them are right.       *)
(***************************************************************************)
EXTENDS Naturals, Sequences, FiniteSets

CONSTANTS Authorities, Strangers,   \* public keys, in the list or not
          MaxPrecommits             \* bounds the messages

ASSUME AuthoritiesAssumption == IsFiniteSet(Authorities)
ASSUME StrangersAssumption == Strangers \cap Authorities = {}
ASSUME MaxAssumption == MaxPrecommits \in Nat

Votes == {"target", "below", "unknown", "aside"}
Precommit == [key : Authorities \cup Strangers, vote : Votes]
Message ==
    [kind : {"commit", "justification"}, setIdOk : BOOLEAN, signed : BOOLEAN,
     precommits : UNION {[1..n -> Precommit] : n \in 0..MaxPrecommits}]

VARIABLES
    message,
    asking,               \* "start", "authority", "parent" or "done"
    index,                \* next_precommit_index, from 1
    numVerified,          \* num_verified_signatures
    result

grandpaVars == <<message, asking, index, numVerified, result>>

GrandpaInit ==
    /\ message \in Message
    /\ asking = "start" /\ index = 1 /\ numVerified = 0
    /\ result = "none"

Precommits == message.precommits
Keys == {Precommits[i].key : i \in DOMAIN Precommits}
HasDuplicate == \E i, j \in DOMAIN Precommits : i # j /\ Precommits[i].key = Precommits[j].key

ThresholdTwoThirds(n) == (n * 2) \div 3

(* "actual >= (expected * 2 / 3) + 1" *)
Threshold(n) == (n * 2) \div 3 + 1
EnoughSignatures == Len(Precommits) >= Threshold(Cardinality(Authorities))

Finish(r) == asking' = "done" /\ result' = r

(* The end of Verification::resume. *)
Conclusion ==
    IF ~EnoughSignatures THEN "unknown"
    ELSE IF message.signed THEN "ok" ELSE "bad signature"

(* Goes on with precommit i. *)
Ask(i) ==
    /\ index' = i
    /\ IF i > Len(Precommits) THEN Finish(Conclusion)
       ELSE asking' = "authority" /\ UNCHANGED result

VerifyCommit ==
    /\ asking = "start" /\ message.kind = "commit"
    /\ UNCHANGED <<message, numVerified>>
    /\ IF ~message.setIdOk \/ HasDuplicate
       THEN Finish("invalid") /\ UNCHANGED index
       ELSE Ask(1)

(* IsAuthority::resume, and the voted block if it is the target itself. *)
ResumeIsAuthority ==
    /\ asking = "authority"
    /\ UNCHANGED <<message, numVerified>>
    /\ IF Precommits[index].key \notin Authorities
       THEN Finish("not authority") /\ UNCHANGED index
       ELSE IF Precommits[index].vote = "target" THEN Ask(index + 1)
       ELSE asking' = "parent" /\ UNCHANGED <<index, result>>

BadAncestryUnchecked(vote) == FALSE

(* Some(false) *)
BadAncestry(vote) == vote = "aside"

(* IsParent::resume *)
ResumeIsParent ==
    /\ asking = "parent"
    /\ UNCHANGED message
    /\ numVerified' = IF Precommits[index].vote = "below" THEN numVerified + 1 ELSE numVerified
    /\ IF BadAncestry(Precommits[index].vote)
       THEN Finish("bad ancestry") /\ UNCHANGED index
       ELSE Ask(index + 1)

(* A set identifier that differs makes the signatures wrong. *)
VerifyJustification ==
    /\ asking = "start" /\ message.kind = "justification"
    /\ UNCHANGED <<message, index, numVerified>>
    /\ Finish(IF ~EnoughSignatures THEN "not enough"
              ELSE IF ~(Keys \subseteq Authorities) THEN "not authority"
              ELSE IF HasDuplicate THEN "invalid"
              ELSE IF message.signed /\ message.setIdOk THEN "ok" ELSE "bad signature")

GrandpaNext == VerifyCommit \/ ResumeIsAuthority \/ ResumeIsParent \/ VerifyJustification

GrandpaSpec == GrandpaInit /\ [][GrandpaNext]_grandpaVars

(***************************************************************************)
(* Properties                                                              *)
(***************************************************************************)

(* What is accepted was signed by so many authorities that any other        *)
(* accepted message has more than a third of all authorities in common with *)
(* it: two conflicting blocks are finalized only if that many misbehave.    *)
AcceptedByQuorum ==
    result = "ok" =>
        \A Q \in SUBSET Authorities :
            Cardinality(Q) >= Threshold(Cardinality(Authorities)) =>
                3 * Cardinality(Q \cap Keys) > Cardinality(Authorities)

(* No vote of an accepted commit is for a block that is known not to        *)
(* descend from the target, at whichever point of the exchange the answer   *)
(* is given.                                                                *)
AcceptedVotesDescend ==
    result = "ok" /\ message.kind = "commit" =>
        \A i \in DOMAIN Precommits : Precommits[i].vote # "aside"

=============================================================================
