-------------------------------- MODULE Babe --------------------------------
(***************************************************************************)
(* src/src/verify/babe.rs: the part of the verification of a header that    *)
(* follows the epochs from block to block, with the slot arithmetic, and    *)
(* apply_success_body of src/src/chain/blocks_tree/verify.rs that stores    *)
(* the outcome for the next block.  Signatures and VRF proofs are left out. *)
(* What a block is checked against depends on its chain only, so a single   *)
(* chain is followed.                                                       *)
(***************************************************************************)
EXTENDS Naturals

CONSTANTS
    SlotsPerEpoch, MaxSlot,   \* MaxSlot bounds the exploration
    None,
    EpochsAreVisited,         \* the chain has a block in every epoch
    AnnouncedOnTime           \* its blocks announce an epoch when one begins

ASSUME SlotsAssumption == SlotsPerEpoch \in Nat \ {0} /\ MaxSlot \in Nat
ASSUME NoneAssumption ==
    None \notin Nat /\ None \notin [index : Nat, start : Nat \cup {None}]
ASSUME ChainAssumption == EpochsAreVisited \in BOOLEAN /\ AnnouncedOnTime \in BOOLEAN

VARIABLES
    slot,             \* of the latest block; None for the genesis block
    current,          \* epoch of that block: None, or [index, start]
    next,             \* the epoch after it: [index, start], start may be None
    firstSlot         \* history: slot of block 1

babeVars == <<slot, current, next, firstSlot>>

Epoch == [index : Nat, start : Nat \cup {None}]

BabeInit ==
    /\ slot = None /\ firstSlot = None
    /\ current = None
    /\ next = [index |-> 0, start |-> None]

(* SlotNumberNotIncreasing *)
SlotIncreases(s) == slot # None => s > slot

(* The next epoch has begun at slot s. *)
NextBegun(s) == next.start = None \/ next.start <= s

(* MissingEpochChangeLog, UnexpectedEpochChangeLog *)
LogAccepted(log, s) ==
    /\ current = None => log
    /\ current # None /\ log => NextBegun(s)

(* What the authors of the chain do. *)
ChainRules(log, s) ==
    /\ AnnouncedOnTime => log = NextBegun(s)
    /\ EpochsAreVisited /\ next.start # None => s < next.start + SlotsPerEpoch

EpochAfterSlot(e, s) == [index |-> e.index + 1, start |-> s + SlotsPerEpoch]

(* epoch_transition_target *)
EpochAfter(e, s) ==
    [index |-> e.index + 1,
     start |-> (IF e.start = None THEN s ELSE e.start) + SlotsPerEpoch]

BegunUnset(e, s) == e

(* The epoch that was announced, given its start when it is the first one. *)
Begun(e, s) == IF e.start = None THEN [e EXCEPT !.start = s] ELSE e

VerifyHeader(log, s) ==
    /\ SlotIncreases(s)
    /\ LogAccepted(log, s)
    /\ ChainRules(log, s)
    /\ slot' = s
    /\ firstSlot' = IF firstSlot = None THEN s ELSE firstSlot
    /\ current' = IF log THEN Begun(next, s) ELSE current
    /\ next' = IF log THEN EpochAfter(next, s) ELSE next

BabeNext == \E s \in 0..MaxSlot, log \in BOOLEAN : VerifyHeader(log, s)

BabeSpec == BabeInit /\ [][BabeNext]_babeVars

(* Types of what is stored for the latest block. *)
EpochsTyped ==
    /\ slot \in Nat \cup {None} /\ firstSlot \in Nat \cup {None}
    /\ current \in Epoch \cup {None}
    /\ next \in Epoch

(* The assert!s with which verify_header opens hold for the child of the    *)
(* latest block: consecutive epochs, the current one has begun and the next *)
(* one has not.                                                             *)
AssertionsHold ==
    /\ IF current = None THEN next.index = 0
       ELSE /\ current.index + 1 = next.index
            /\ current.start # None /\ current.start <= slot
    /\ next.start # None => next.start > slot
    /\ next.index = 0 <=> next.start = None

(* A block is checked against the epoch its slot belongs to, counting from  *)
(* the slot of block 1.                                                     *)
EpochOfSlot ==
    current # None =>
        /\ current.index = (slot - firstSlot) \div SlotsPerEpoch
        /\ current.start = firstSlot + current.index * SlotsPerEpoch

=============================================================================
