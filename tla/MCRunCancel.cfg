SPECIFICATION FairSpec
CONSTANTS
    Keys <- MCKeys
    Deps <- MCDeps
    Awaits <- MCAwaits
    Dynamic <- MCDynamic
    Expands <- MCExpands
    Optional <- MCOptional
    Skippable = {"publish_request"}
    PlanGates = {"plan_approval"}
    SideEffects = {"publish"}
    Requests <- MCRequests
    Finds = {"insights"}
    ResetFull <- MCResetFull
    ResetPartial <- MCResetPartial
    Gather = FALSE
    Batch = 1
    Controls = {"pause", "cancel"}
    MayAbandon = {"insights"}
    MayGiveUp = TRUE
    MayDisable = TRUE
    MaxPlan = 2
 
PROPERTIES  CancelEnds
