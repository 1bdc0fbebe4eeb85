SPECIFICATION Spec
CONSTANTS
    Keys <- MCKeys
    Dynamic <- MCDynamic
    Expands <- MCExpands
    Follows <- MCFollows
    ResetFull <- MCResetFull
    ResetPartial <- MCResetPartial
    Workers = {w1, w2}
    MaxTries = 2
    MaxPlan = 2
    MaxClaims = 2
    MaxRows = 3
SYMMETRY Symmetry
INVARIANTS ClaimsInv ClaimedOnce
PROPERTIES StableResult ImplementsStepResults
