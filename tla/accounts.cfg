SPECIFICATION Spec
CONSTANTS
    Wallets <- MCWallets
    SignIns <- MCSignIns
    Calls <- MCCalls
    NonceTtl = 1
    SessionTtl = 2
    MaxNonces = 2
    MaxTime = 2
    MaxDbFaults = 1
    MaxRestarts = 1
INVARIANTS
    TypeOK
    OneSessionPerNonce
    SessionIsProven
PROPERTIES
    LogoutIsFinal
    ImplementsSignIn
CHECK_DEADLOCK FALSE
