SPECIFICATION FairSpec
CONSTANTS
    None = None
    Scale = 2
    MaxRaw = 12
    Cids = {"c1"}
    ExchangeIds = {"x1"}
    Threads = {"t1"}
    Scenarios <- FillScenario
PROPERTIES
    FillsArrive
CHECK_DEADLOCK FALSE
