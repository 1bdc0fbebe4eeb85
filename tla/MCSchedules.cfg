SPECIFICATION Spec
CONSTANTS
    MaxFires = 2
    MaxTime = 1
    Editors = {e1, e2}
    Named = {1}
    MaxRev = 2
    MaxEnds = 2
    MaxEvents = 2
    Weight = 2
INVARIANTS ScheduleInv ComparesSamePins 
PROPERTY BaselineStays
CHECK_DEADLOCK FALSE
SYMMETRY Symmetry
