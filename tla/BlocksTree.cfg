SPECIFICATION Spec
CONSTANTS
    Blocks = {b1, b2, b3, b4}
    Nil = Nil
    Genesis = Genesis
    NoChange = NoChange
    Digests <- SomeDigests
    AvoidPendingChanges = TRUE
SYMMETRY BlockSymmetry
CHECK_DEADLOCK FALSE
INVARIANTS
    FinalityIrrevocable
    BestIsHeaviestLeaf
    AuthoritySetExact
    CheckpointsSound
    EpochsExact
