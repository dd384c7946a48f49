SPECIFICATION Spec
CONSTANTS
    StalledRate <- Half
    RapidRate <- Hundred
    TrendThreshold <- TenPercent
    InactivityTimeout = 9
    CheckInterval = 2
    WindowSize = 6
    MinWindowSize = 3
    Cooldown = 6
    Gaps = {1, 2}
    Produced = {0, 1200}
    Consumed = {0, 1, 2400}
    MaxTime = 14
    Reliable = FALSE
INVARIANTS
    StoppedIsExact
    MovingIsReal
    TrendFollowsLag
    EventsSpaced
CHECK_DEADLOCK FALSE
