SPECIFICATION Spec
CONSTANTS
    StalledRate <- Half
    RapidRate <- Hundred
    TrendThreshold <- TenPercent
    InactivityTimeout = 9
    CheckInterval = 2
    WindowSize = 10
    MinWindowSize = 5
    Cooldown = 60
    Gaps = {1}
    Produced = {200}
    Consumed = {0, 100}
    MaxTime = 40
    Reliable = TRUE
INVARIANTS
    StopAnnounced
CHECK_DEADLOCK FALSE
