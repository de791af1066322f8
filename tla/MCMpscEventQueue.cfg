SPECIFICATION Spec
CONSTANTS
    Producers = {p1, p2}
    Observers = {o1}
    Capacity = 2
    Empty = Empty
    MaxPosts = 3
INVARIANTS
    RingIntact
    CallsComplete
PROPERTIES
    ImplementsQueue
    CallsReturn
CHECK_DEADLOCK FALSE
