SPECIFICATION StagingFairSpec
CONSTANTS
    NumKeys = 2
    Scheduled = {"s1"}
    Users = {"u1"}
    Nobody = "none"
    Late = 1
    MaxDeletePct = 50
    MaxClock = 3
    MaxChanges = 2
    MaxFailures = 1
INVARIANT StagingInv
PROPERTY CatchesUp
CHECK_DEADLOCK FALSE
