SPECIFICATION Spec
CONSTANTS
    Ids = {"s1", "s2", "s3", "s4", "s9"}
    RawPlans <- MCMixedPlans
    MaxSteps = 3
INVARIANT LocalNeverWithExternal
CHECK_DEADLOCK FALSE
