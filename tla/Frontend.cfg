SPECIFICATION MCSpec
CONSTANTS
    Nil = Nil
    Blocks = {1, 2, 3}
    Roots = {1}
    Code <- Codes
    Clients = {c1}
    BufferSize = 2
    MaxPinned = 2
    UnpinStale = FALSE
    RetryAfterFailed = 1
    InputBestIsLeaf = TRUE
    MaxTime = 2
    MaxWeight = 3
    MaxOps = 2
    MaxResets = 2
    s1 = s1
    s2 = s2
    w1 = w1
    w2 = w2
    NoClient = NoClient
    Nobody = Nobody
CHECK_DEADLOCK FALSE
INVARIANTS
    RuntimeServiceSound
    RequestsSound
    ChainHeadSound
    
