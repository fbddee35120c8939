SPECIFICATION Spec
CONSTANTS
    Agents = {a1, a2}
    Wallets <- MCWallets
    Deployments <- MCDeployments
    Owner <- MCOwner
    Steps <- MCSteps
    WalletOf <- MCWalletOf
    Keywords <- MCKeywords
    Rank <- MCRank
    Builtins <- MCBuiltins
    Skillsets <- MCSkillsets
    Seeds = {a1, a2}
    SeedScore = 85
    Ttls = {1}
    Blank = Blank
    MaxCalls = 4
    MaxTime = 1
SYMMETRY Symmetry
INVARIANTS
    TypeOK
    RouteIsCurrent
    SteadySpecialistsWin
    ListedOnce
    ListedThenSubscribed
CHECK_DEADLOCK FALSE
