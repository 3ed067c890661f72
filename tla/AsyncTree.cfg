SPECIFICATION Spec
CONSTANTS
    Blocks = {b1, b2, b3}
    Nil = Nil
    RetryAfterFailed = 1
    InputBestIsLeaf = TRUE
    MaxTime = 2
    MaxWeight = 4
SYMMETRY BlockSymmetry
CHECK_DEADLOCK FALSE
INVARIANTS
    InProgressAwaited
    SharedLifecycle
    ConvergedWhenIdle
PROPERTIES
    OutputSpec
