SPECIFICATION FairSpec
CONSTANTS
    Venues = {"Binance", "OKX"}
    Callers = {"c1"}
    MaxRequests = 2
    MaxOutbound = 3
    MaxFaults = 3
INVARIANTS
    ReadyMeansSubscribed
    RequestsAccountedFor
PROPERTIES
    SessionRecovers
CHECK_DEADLOCK FALSE
