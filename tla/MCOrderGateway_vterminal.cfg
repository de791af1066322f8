SPECIFICATION Spec
CONSTANTS
    None = None
    Scale = 2
    MaxRaw = 12
    Cids = {"c1"}
    ExchangeIds = {"x1"}
    Threads = {"t1"}
    Scenarios <- PlainScenario
PROPERTIES
    TerminalIsFinal
CHECK_DEADLOCK FALSE
