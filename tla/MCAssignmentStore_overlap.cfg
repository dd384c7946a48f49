SPECIFICATION Spec
CONSTANTS
    i1 = i1
    i2 = i2
    c1 = c1
    c2 = c2
    c3 = c3
    g1 = g1
    g2 = g2
    Instances = {i1, i2}
    Groups = {g1, g2}
    Callers = {c1, c2, c3}
    AssignmentTimeout = 2
    Unreliable = TRUE
    MaxStores = 2
    MaxClock = 3
SYMMETRY Symmetric
INVARIANTS
    CheckedIsFresh
    EveryGroupWatchedOnce
CHECK_DEADLOCK FALSE
