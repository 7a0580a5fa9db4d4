\* Two commands on a node that starts, stops or restarts with a failure, three
\* peers, and up to three role operations on four nodes.
SPECIFICATION FairSpec
CONSTANTS
    Setups <- LifeSetups
    MaxLifeFaults = 1
    MaxLifeCommands = 2
    PeerCount = 3
    Baselines <- Bases
    PeerPolicies <- Pols
    BandLimit = 1
    PeerBudgets <- PeerBudgetChoices
    RoleNodes = {1, 2, 3, 4}
    WalletCapable = {1, 3}
    FirstWallets = {1}
    MinerOverlap = TRUE
    FirstMiners <- FirstMinerList
    RoleRequests <- RoleRequestChoices
    RoleBudgets <- RoleBudgetChoices
INVARIANTS
    LifecycleCorrect
    PeersCorrect
    RolesCorrect
PROPERTIES
    ControlSettles
CHECK_DEADLOCK FALSE
