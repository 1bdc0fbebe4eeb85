SPECIFICATION Spec
CONSTANTS
    Candidates = {c1, c2, bad}
    Invalid = {bad}
    Attempts = {a1, a2}
    Rollbacks = {o1}
    None = None
    KeepVersions = 2
    MaxEvents = 2
SYMMETRY Symmetry
INVARIANT ViewIsGood
CHECK_DEADLOCK FALSE
