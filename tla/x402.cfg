SPECIFICATION Spec
CONSTANTS
    Calls <- MCCalls
    Wallets <- MCWallets
    Agents <- MCAgents
    Addresses <- MCAddresses
    NoAddress = "none"
    WalletOf <- MCWalletOf
    AgentOf <- MCAgentOf
    PayTo <- MCPayTo
    Price <- MCPrice
    Submitting <- MCSubmitting
    SpendingLimit = 4
    Window = 1
    MaxRound = 2
INVARIANTS
    TypeOK
    DeliveredIsPaid
    OneTransferOneService
    TransfersWithinSpent
PROPERTY
    ImplementsService
CHECK_DEADLOCK FALSE
