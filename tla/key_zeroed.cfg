SPECIFICATION Spec
CONSTANTS
    Ids = {"s1", "s2", "s3", "s4"}
    RawPlans <- MCPlans
    MaxSteps = 3
    SpendingLimit = 3
    Prices <- MCPrices
    MaxDbFaults = 1
    MayCrash = FALSE
INVARIANT KeyZeroedAtEnd
CHECK_DEADLOCK FALSE
