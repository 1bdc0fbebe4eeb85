SPECIFICATION SpendFairSpec
CONSTANTS
    Calls = {"c1", "c2", "c3"}
    Platform = {"c3"}
    NoPrice = {"c1"}
    Estimate = 1
    DayLimit = 2
    MonthLimit = 1
    Costs = {2}
    MaxDay = 2
    MaxFaults = 1
INVARIANTS CountersInv WithinCap
PROPERTY EveryCallEnds
CHECK_DEADLOCK FALSE
