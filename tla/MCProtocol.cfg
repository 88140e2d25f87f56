SPECIFICATION FairProtocolSpec
CONSTANTS
    t1 = t1
    a1 = a1
    a2 = a2
    v1 = v1
    Treasury = Treasury
    Nobody = Nobody
    Tasks = {t1}
    Accounts = {a1, a2}
    Prices = {1}
    PolicyQuote <- MCPolicyQuote
    AzlUnit = 2
    TaskAmounts = {2}
    MaxTaskUsd6 = 20
    OpenTaskCapUsd6 = 20
    PosterCapBps = 2000
    MaxTaskDuration = 2
    FundingWindow = 1
    DeliveryGrace = 1
    PosterDisputeGrace = 0
    WorkerShares = {0, 5000, 10000}
    CreditCap = 0
    StartDeposit = 5
    MayRefuse = {Treasury}
    AgentAmounts = {}
    MaxVaultBalance = 0
    MaxDeadline = 2
    MaxTime = 5
    Verifiers = {a2, v1}
    MinimumBond = 2
    WithdrawalCooldown = 1
    SlashCapBps = 5000
    EvidenceWindow = 1
    RulingWindow = 1
    StartPanel <- MCMixedPanel
    StartBond = 2
    BondAmounts = {2}
    MaxBonded = 4
    MaxPanel = 2
CHECK_DEADLOCK FALSE
INVARIANTS
    DisputeFollowsTask
    DisputesCanEnd
PROPERTIES
    EveryTaskEnds
