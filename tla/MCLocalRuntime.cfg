SPECIFICATION FairSpec
CONSTANTS
    Runs = {"r1"}
    Steps = {"profile", "publish"}
    Gated = {"publish"}
    Threads = {"t1", "t2"}
    Workers = 2
    MaxEvents = 2
INVARIANT RuntimeInv
PROPERTIES Parking WorkIsDone
CHECK_DEADLOCK FALSE
