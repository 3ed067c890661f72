----------------------------- MODULE HeaderTree -----------------------------
(***************************************************************************)
(* The blocks that exist, whoever knows them.  A block stands for a pair    *)
(* (height, hash): a hash determines a header, hence a parent and a height. *)
(***************************************************************************)
EXTENDS Naturals, FiniteSets

CONSTANTS
    Blocks,      \* every block there is, the first finalized one included
    Genesis,     \* that block
    Parent       \* the parent of each other block

ASSUME GenesisAssumption == Genesis \in Blocks
ASSUME ParentAssumption == Parent \in [Blocks \ {Genesis} -> Blocks]

Above[b \in Blocks] == IF b = Genesis THEN {b} ELSE {b} \cup Above[Parent[b]]
Height(b) == Cardinality(Above[b]) - 1
MaxHeight == CHOOSE n \in 0..Cardinality(Blocks) :
                 /\ \E b \in Blocks : Height(b) = n
                 /\ \A b \in Blocks : Height(b) <= n
=============================================================================
