SPECIFICATION Spec
CONSTANTS
    None = None
    Scale = 2
    MaxRaw = 12
    Cids = {"c1", "c2"}
    ExchangeIds = {"x1", "x2"}
    Threads = {"t1", "t2"}
    Scenarios <- SafetyScenarios
INVARIANTS
    TypeOK
    OneOperationPerOrder
    HealthyMeansConverged
    ExposureWithinLimit
    VenueOrdersLegal
    RoutedOnce
    OnlyFacts
PROPERTY
    PositionKept
CHECK_DEADLOCK FALSE
