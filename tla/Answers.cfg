SPECIFICATION FairSpec
CONSTANTS
    Capacity = 2
    MayCut = TRUE
    Peers = {p1}
    NoPeer = NoPeer
    MaxConns = 1
    LastProto = 0
    InSlots = 1
    OutSlots = 1
    Reqs = {r1}
    MaxKeys = 4
    c1 = c1
    r1 = r1
    w1 = w1
    w2 = w2
    Nobody = Nobody
CHECK_DEADLOCK FALSE
PROPERTIES
    PeersAnswer
    
    ClientsServed
    
