\* Two miners, a block in production, and requests that remove them.
SPECIFICATION FairSpec
CONSTANTS
    Setups <- OneLifeSetup
    MaxLifeFaults = 0
    MaxLifeCommands = 0
    PeerCount = 3
    Baselines <- Bases
    PeerPolicies <- Pols
    BandLimit = 1
    PeerBudgets <- NoPeerBudgets
    RoleNodes = {1, 2, 3, 4}
    WalletCapable = {1, 3}
    FirstWallets = {1}
    MinerOverlap = TRUE
    FirstMiners <- FirstMinerList
    RoleRequests <- RoleRequestChoices
    RoleBudgets <- ShiftingBudgets
PROPERTIES
    StopMinerReturns
CHECK_DEADLOCK FALSE
