SPECIFICATION Spec
CONSTANTS
    Ids = {"s1", "s2", "s3", "s4"}
    RawPlans <- MCPlans
    MaxSteps = 3
    SpendingLimit = 3
    Prices <- MCPrices
    MaxDbFaults = 0
    MayCrash = FALSE
INVARIANT RecordHasEveryCall
CHECK_DEADLOCK FALSE
