SPECIFICATION FairSpec
CONSTANTS
    p1 = p1
    p2 = p2
    Kinds = {"announcer", "indexer"}
    Polls <- MCTwo
    LIMIT = 2
    MAX_EVENTS = 3
    MaxTx = 3
    MaxFaults = 2
    MaxOverlaps = 1
CHECK_DEADLOCK FALSE
INVARIANTS FeedInvariant RepeatsHaveAReason
PROPERTIES EverythingGetsOut
