SPECIFICATION Spec
CONSTANTS
    c1 = c1
    c2 = c2
    Consumers = {c1, c2}
    BatchSize = 1
    Faults = {}
    MaxMessages = 1
PROPERTIES
    ExistingGroupAccepted
CHECK_DEADLOCK FALSE
