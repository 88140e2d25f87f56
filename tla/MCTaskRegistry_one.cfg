SPECIFICATION Spec
CONSTANTS
    t1 = t1
    a1 = a1
    a2 = a2
    Treasury = Treasury
    Nobody = Nobody
    Tasks = {t1}
    Accounts = {a1, a2}
    Prices = {1, 2}
    PolicyQuote <- MCPolicyQuote
    AzlUnit = 2
    TaskAmounts = {2}
    MaxTaskUsd6 = 20
    OpenTaskCapUsd6 = 20
    PosterCapBps = 2000
    MaxTaskDuration = 2
    FundingWindow = 2
    DeliveryGrace = 2
    PosterDisputeGrace = 1
    WorkerShares = {0, 5000, 10000}
    CreditCap = 1
    StartDeposit = 10
    MayRefuse = {a1, a2}
    AgentAmounts = {4}
    MaxVaultBalance = 20
    MaxDeadline = 2
    MaxTime = 5
SYMMETRY Symmetry
CHECK_DEADLOCK FALSE
INVARIANTS
    EscrowFollowsTask
    CollateralFollowsTask
    CreditsFollowTask
    EndingsNeverRevert
PROPERTIES
    DeliveryNotExpiredForFree
    ChargedOnlyForFault
