SPECIFICATION FairSpec
CONSTANTS
    Threads = {"t1", "t2"}
    Orders = {"o1"}
    NoOrder = NoOrder
    MaxRecent = 1
    Faults = {"write", "sync"}
    Found <- MCFound
    MaxRecords = 2
    MaxCrashes = 1
INVARIANTS
    AckedSurvives
    DurableAsPromised
    IndexesAgree
PROPERTIES
    CloseTerminates
CHECK_DEADLOCK FALSE
