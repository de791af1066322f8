SPECIFICATION WindowSpec
CONSTANTS
    Threads = {"t1", "t2"}
    Costs = {1, 2}
    Capacities = {1, 2}
    Largest = 2
    Periods = {1, 2}
    Longest = 2
    MaxTime = 3
INVARIANTS
    BudgetKept
CHECK_DEADLOCK FALSE
