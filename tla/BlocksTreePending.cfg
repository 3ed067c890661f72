SPECIFICATION Spec
CONSTANTS
    Blocks = {b1, b2, b3}
    Nil = Nil
    Genesis = Genesis
    NoChange = NoChange
    Digests <- ChangeDigests
    AvoidPendingChanges = FALSE
SYMMETRY BlockSymmetry
CHECK_DEADLOCK FALSE
INVARIANT AuthoritySetExact
