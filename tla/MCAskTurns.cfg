SPECIFICATION FairSpec
CONSTANTS
    Attempts = {"a1", "a2", "a3"}
    Nobody = "nobody"
    MaxEvents = 2
INVARIANT AskInv
PROPERTIES AnswersStay EverythingEnds
CHECK_DEADLOCK FALSE
