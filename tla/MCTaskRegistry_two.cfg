SPECIFICATION Spec
CONSTANTS
    t1 = t1
    t2 = t2
    a1 = a1
    a2 = a2
    Treasury = Treasury
    Nobody = Nobody
    Tasks = {t1, t2}
    Accounts = {a1, a2}
    Prices = {1, 2}
    PolicyQuote <- MCPolicyQuote
    AzlUnit = 2
    TaskAmounts = {2}
    MaxTaskUsd6 = 3
    OpenTaskCapUsd6 = 3
    PosterCapBps = 7000
    MaxTaskDuration = 2
    FundingWindow = 1
    DeliveryGrace = 1
    PosterDisputeGrace = 0
    WorkerShares = {0, 5000, 10000}
    CreditCap = 0
    StartDeposit = 13
    MayRefuse = {}
    AgentAmounts = {}
    MaxVaultBalance = 0
    MaxDeadline = 2
    MaxTime = 4
SYMMETRY Symmetry
CHECK_DEADLOCK FALSE
INVARIANTS
    ExposureWithinCaps
PROPERTIES
    ImplementsLifecycle
