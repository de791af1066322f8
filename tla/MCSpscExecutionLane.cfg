SPECIFICATION Spec
CONSTANTS
    Producers = {p1, p2}
    Flushers = {f1}
    Capacity = 2
    Empty = Empty
    MaxSubmits = 4
INVARIANTS
    RingIntact
    CallsComplete
PROPERTIES
    ImplementsQueue
    CallsReturn
CHECK_DEADLOCK FALSE
