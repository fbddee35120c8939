SPECIFICATION FairSpec
CONSTANTS
    Ids = {"s1", "s2", "s3", "s4"}
    RawPlans <- MCPlans
    MaxSteps = 3
    SpendingLimit = 2
    Prices <- MCPrices
    MaxDbFaults = 1
    MayCrash = FALSE
PROPERTIES
    SessionCleansUp
    VerdictReached
CHECK_DEADLOCK FALSE
