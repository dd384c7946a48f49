SPECIFICATION Spec
CONSTANTS
    a = a
    b = b
    p = p
    q = q
    Groups <- TwoGroups
    Partitions <- OnePartition
    MaxConcurrency = 2
    WindowSize = 2
    MinWindowSize = 2
    MaxRounds = 3
SYMMETRY Symmetric
INVARIANTS
    TypeOK
    NoSendOnClosed
    EveryGroupAccounted
    StatusKeepsUpWithWindow
PROPERTIES
    StatusNeverGoesBack
    WindowHistoryKept
    ImplementsCollection
CHECK_DEADLOCK FALSE
