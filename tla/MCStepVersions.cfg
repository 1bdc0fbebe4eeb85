SPECIFICATION StepsFairSpec
CONSTANTS
    Steps <- MCSteps
    Deps <- MCDeps
    Branch <- MCBranch
    Later <- MCLater
    Recorded = {4}
    Editors = {"ann", "bob"}
    MaxDeaths = 1
INVARIANTS StepsInv
PROPERTIES EditStays SweepVoids
CHECK_DEADLOCK FALSE
