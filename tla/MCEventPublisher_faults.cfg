SPECIFICATION Spec
CONSTANTS
    p1 = p1
    p2 = p2
    c1 = c1
    c2 = c2
    s1 = s1
    Publishers = {p1, p2}
    ClusterOf <- SameCluster
    Subjects = {s1}
    DeDupeWindow = 2
    MaxRetries = 2
    ClientRetries = 1
    Faults = {"request", "reply", "crash"}
    MaxCalls = 1
    MaxClock = 3
SYMMETRY Replicas
INVARIANTS
    ReturnMatchesStream
    DedupeHolds
CHECK_DEADLOCK FALSE
