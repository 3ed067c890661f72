SPECIFICATION MCSpec
CONSTANTS
    SourceIds = {0, 1}
    EraLength = 2
    Eras = 2
    StartBlock = 1
    IsBabe = TRUE
    UsesNextKey = TRUE
    MaxQueries = 1
    Peers = {h, d}
    Honest = {h}
    RequestIds = {0, 1}
    StartModes = {"GrandpaWarpSync", "Optimistic"}
    MayLeave = TRUE
    MaxFragments = 2
    MaxJoins = 3
    g = g  b1 = b1  b2 = b2  b3 = b3  b4 = b4  f2 = f2  f3 = f3
    Nil = Nil
CHECK_DEADLOCK FALSE
INVARIANTS
    AllForksSound
    OptimisticSound
    AllSyncSound
