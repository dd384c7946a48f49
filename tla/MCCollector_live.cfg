SPECIFICATION FairSpec
CONSTANTS
    a = a
    b = b
    p = p
    q = q
    Groups <- TwoGroups
    Partitions <- TwoPartitions
    MaxConcurrency = 1
    WindowSize = 1
    MinWindowSize = 1
    MaxRounds = 1
INVARIANTS
    ConcurrencyLimit
    SendNeverBlocks
    HealthSummarises
PROPERTIES
    CollectionEnds
    CancelStops
CHECK_DEADLOCK FALSE
