SPECIFICATION Spec
CONSTANTS
    p1 = p1
    p2 = p2
    c1 = c1
    c2 = c2
    s1 = s1
    Publishers = {p1, p2}
    ClusterOf <- TwoClusters
    Subjects = {s1}
    DeDupeWindow = 2
    MaxRetries = 1
    ClientRetries = 0
    Faults = {}
    MaxCalls = 1
    MaxClock = 1
INVARIANTS
    ClustersIndependent
CHECK_DEADLOCK FALSE
