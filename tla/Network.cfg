SPECIFICATION MCSpec
CONSTANTS
    Ids = {1, 2}
    Window = 1
    BufLen = 1
    MaxWrites = 3
    MaxFrames = 2
    MaxInFlight = 2
    MaxPings = 1
    MidFrame = FALSE
    Capacity = 2
    MayCut = TRUE
    p1 = p1
    NoPeer = NoPeer
    Conns = {c1}
    Reqs = {r1, r2}
    FullNode = TRUE
    MainCap = 1
    ConnCap = 1
    TaskCap = 1
    EventCap = 1
    MaxDials = 2
    MaxNews = 1
CHECK_DEADLOCK FALSE
INVARIANTS
    
    
    ChainNetworkSound
    
