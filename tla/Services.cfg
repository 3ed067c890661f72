SPECIFICATION MCSpec
CONSTANTS
    Nil = Nil
    Blocks <- TreeBlocks
    Genesis = 0
    Parent <- TreeParent
    WarpTarget = 1
    RuntimeUpdates = {2}
    Streams = {s1, s2}
    BufferSize = 2
    LastBlock = 2
    Parents <- ChainOrFork
    Body <- Bodies
    LastTx = 2
    Watchers = {w1}
    Longevities = {1}
    MaxPending = 1
    MaxDownloads = 1
    MaxValidations = 1
    MaxLag = 2
SYMMETRY StreamSymmetry
CHECK_DEADLOCK FALSE
INVARIANTS
    SyncServiceSound
    TransactionsSound
    FullNodeSound
