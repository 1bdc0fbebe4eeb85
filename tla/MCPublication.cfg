SPECIFICATION FairSpec
CONSTANTS
    Bundles = {"b1", "b2"}
    People = {"ann", "bob"}
    Requester = "ann"
    Unapproved = {"b2"}
    Requests = {"r1", "r2"}
    Attempts = {"p1", "p2"}
    MaxApprovals = 2
    MaxPlan = 2
    MaxEvents = 1
INVARIANT PublicationInv
PROPERTIES DecisionIsFinal ApprovedIsActedOn
CHECK_DEADLOCK FALSE
