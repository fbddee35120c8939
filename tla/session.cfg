SPECIFICATION Spec
CONSTANTS
    Ids = {"s1", "s2", "s3", "s4"}
    RawPlans <- MCPlans
    MaxSteps = 3
    SpendingLimit = 3
    Prices <- MCPrices
    MaxDbFaults = 2
    MayCrash = TRUE
INVARIANTS
    TypeOK
    WithinBudget
    SpentIsPaid
    CompletedIsQuiet
    CompletedRowsExact
    SealCoversCalls
    TrailMatchesStatus
PROPERTIES
    VerdictIsFinal
    DestroyedWalletIsInert
    PaysOnce
    ImplementsContract
CHECK_DEADLOCK FALSE
