SPECIFICATION MCSpec
CONSTANTS
    Active = {"Babe", "GrandpaVerify", "ForkTree", "RuntimeHost", "PrefixScan"}
    SlotsPerEpoch = 3
    MaxSlot = 16
    None = None
    EpochsAreVisited = TRUE
    AnnouncedOnTime = TRUE
    Authorities = {a1, a2, a3, a4}
    Strangers = {x}
    MaxPrecommits = 3
    Blocks = {b1, b2, b3, b4}
    Nil = Nil
    NotPruning = NotPruning
    Nibbles <- TwoNibbles
    StorageKeys <- HostKeys
    ClearPrefixes <- SomePrefixes
    Limits = {0, 1}
    MaxItems = 1
    MaxChanges = 2
    InsertAbove = FALSE
    AppendInTransaction = FALSE
    ScanKeys <- RemoteKeys
    ScanPrefixes <- SomePrefixes
    MaxAttempts = 2
    UnevenProofs = FALSE
CHECK_DEADLOCK FALSE
INVARIANTS
    
    
    
    AcceptedVotesDescend
    LinksSound
    
    TrieCanonical
    RootExact
    
PROPERTY ImplementsForest
