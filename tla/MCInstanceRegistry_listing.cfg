SPECIFICATION Spec
CONSTANTS
    i1 = i1
    i2 = i2
    c1 = c1
    c2 = c2
    c3 = c3
    Instances = {i1, i2}
    Callers = {c1, c2, c3}
    Calls = {"register", "heartbeat", "offline", "list"}
    InstanceTTL = 2
    InstanceTimeout = 1
    OfflineTTL = 1
    MaxIterations = 2
    Faults = {"request", "reply"}
    MaxCalls = 1
    MaxClock = 2
SYMMETRY Symmetric
INVARIANTS
    ListingIsAccurate
    RetiredIsNotActive
PROPERTIES
    RevivedByRegistration
CHECK_DEADLOCK FALSE
