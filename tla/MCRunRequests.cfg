SPECIFICATION FairSpec
CONSTANTS
    Keys = {k1}
    Runs = {r1, r2, r3}
    Legacy = {r3}
    Callers = {c1, c2}
    Schedulers = {s1}
    None = None
    MaxEvents = 2
INVARIANTS RequestInv OneRunPerKey DispatchedMeansStarted
PROPERTIES CancelledNeverStarts EveryRunIsTakenUp
CHECK_DEADLOCK FALSE
