SPECIFICATION FairSpec
CONSTANTS
    Nil = Nil
    NotPruning = NotPruning
    g = g  b1 = b1  b2 = b2  b3 = b3  b4 = b4  b5 = b5
CHECK_DEADLOCK FALSE
PROPERTIES
    TreesSettle
    EventuallySynced
    LowestProofKept
