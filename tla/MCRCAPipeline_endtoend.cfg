SPECIFICATION Spec
CONSTANTS
    w1 = w1
    w2 = w2
    p1 = p1
    k1 = k1
    s1 = s1
    c1 = c1
    Workers = {w1, w2}
    Publisher = p1
    Cluster = k1
    Subjects = {s1}
    DeDupeWindow = 1
    MaxRetries = 2
    ClientRetries = 1
    Faults = {"request", "reply", "crash"}
    MaxCalls = 2
    Consumers = {c1}
    BatchSize = 2
INVARIANTS
    HeardOnce
PROPERTIES
    HookReturns
    DuplicateIsHeardOrReported
    PublishedIsHeard
CHECK_DEADLOCK FALSE
