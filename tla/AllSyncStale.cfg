SPECIFICATION Spec
CONSTANTS
    SourceIds = {0, 1}
    EraLength = 2
    Eras = 2
    StartBlock = 1
    IsBabe = TRUE
    UsesNextKey = TRUE
    MaxQueries = 1
    Peers = {h, d}
    Honest = {h}
    RequestIds = {0, 1}
    StartModes = {"GrandpaWarpSync", "Optimistic"}
    MayLeave = TRUE
    MaxFragments = 2
    MaxJoins = 3
CHECK_DEADLOCK FALSE
PROPERTY ValueOfTheKey
