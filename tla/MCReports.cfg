SPECIFICATION ReportsSpec
CONSTANTS
    None = None
    ExchangeIds = {1, 2, 3}
    Exid = 1
    Client = "c1"
    Quantity = 3
    Quantities = {2, 5}
    MaxAmends = 1
    MaxReports = 7
    Sequenced = TRUE
    Cids = {"c1", "c2"}
    SimQuantities = {1, 3}
    MaxCalls = 3
    MaxNumbers = 3
    MaxFaults = 1
INVARIANTS
    FollowsVenue
    AmendmentSettled
    ReportsAccountedFor
    GatewayConverges
PROPERTIES
    NothingUndone
CHECK_DEADLOCK FALSE
