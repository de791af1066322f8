SPECIFICATION FairStream
CONSTANTS
    MaxVersion = 2
    RingCapacity = 1
    MaxPending = 2
    MaxSessions = 2
    MaxPosted = 1
    MarketData = TRUE
INVARIANTS
    BacklogKept
    StreamConverges
PROPERTIES
    BrowserCatchesUp
CHECK_DEADLOCK FALSE
