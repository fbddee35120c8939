SPECIFICATION Spec
CONSTANTS
    Calls = {c1, c2, c3}
    Wallets = {"w1", "w2"}
    Deployments = {"d1"}
    Owner <- MCOwner
    Everyone = Everyone
    NoRequest = NoRequest
    ContextTypes = {scores, embedding}
    AnyType = AnyType
    Ttls = {1}
    Page = 1
    MaxTime = 1
SYMMETRY Symmetry
INVARIANTS
    TypeOK
    MessagesAmongMembers
    AnswersToMembers
    AnswersComplete
    TrailNamesRows
PROPERTIES
    RemovedByOwnerOrSelf
CHECK_DEADLOCK FALSE
