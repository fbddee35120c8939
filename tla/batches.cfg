SPECIFICATION Spec
CONSTANTS
    Ids = {"s1", "s2", "s3", "s4", "s9"}
    RawPlans <- MCRawPlans
    MaxSteps = 3
INVARIANTS
    TypeOK
    BatchIsLevel
    DepsInPriorBatches
    EveryIdIsBatched
    NoStepBatchedTwice
PROPERTY
    LoopTerminates
CHECK_DEADLOCK FALSE
