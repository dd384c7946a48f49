SPECIFICATION Spec
CONSTANTS
    c1 = c1
    c2 = c2
    Consumers = {c1, c2}
    BatchSize = 2
    Faults = {"request", "reply", "crash"}
    MaxMessages = 3
INVARIANTS
    HandledOnceInOrder
    UnhandledStaysPending
PROPERTIES
    EveryEventHandled
    ConsumerStops
CHECK_DEADLOCK FALSE
