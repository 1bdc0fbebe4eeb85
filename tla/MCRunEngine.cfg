SPECIFICATION FairSpec
CONSTANTS
    Keys <- MCLoopKeys
    Deps <- MCDeps
    Awaits <- MCAwaits
    Dynamic <- MCDynamic
    Expands <- MCExpands
    Optional <- MCOptional
    Skippable = {"publish_request"}
    PlanGates = {"plan_approval"}
    SideEffects = {"publish"}
    Requests <- MCRequests
    Finds = {"insights"}
    ResetFull <- MCResetFull
    ResetPartial <- MCResetPartial
    Gather = TRUE
    Batch = 4
    Controls = {"pause", "resume", "cancel"}
    MayAbandon = {"hypotheses", "publish"}
    MayGiveUp = TRUE
    MayDisable = FALSE
    MaxPlan = 2
INVARIANTS  CompletedMeansDone 
PROPERTIES EndIsFinal  DecisionTakesEffect
