SPECIFICATION FairSpec
CONSTANTS
    Threads = {"caller", "worker"}
    Worker = "worker"
    Costs = {2}
    QueryCost = 2
    Capacities = {1, 2}
    Largest = 2
    Periods = {1}
    Longest = 1
    Rules = {"rules"}
    Balances = {"balance"}
    Ttl <- MCTtl
    InnerTtl = 1
    Timeout = 1
    MaxTime = 3
    MaxOps = 2
INVARIANTS
    CacheIsFresh
PROPERTIES
    NoLostEntry
    CallsReturn
CHECK_DEADLOCK FALSE
