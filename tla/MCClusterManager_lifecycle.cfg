SPECIFICATION Spec
CONSTANTS
    a = a
    op = op
    Names = {a}
    Configured <- JustOne
    GroupIds <- Ids
    Operators = {op}
    RCAEnabled = TRUE
    MaxMade = 2
    MaxRounds = 1
INVARIANTS
    HandlesOwned
    GroupPathLeadsToGroup
    RegisteredIsMonitored
    StopClosesAll
    ReplyConsistent
PROPERTIES
    CancelledLoopsStop
    ProbeAnswered
    LoopsAreCollections
    RemovedBeginsNothing
CHECK_DEADLOCK FALSE
