SPECIFICATION Spec
CONSTANTS
    t1 = t1
    a1 = a1
    a2 = a2
    Treasury = Treasury
    Nobody = Nobody
    Tasks = {t1}
    Accounts = {a1, a2}
    Prices = {1, 2}
    PolicyQuote <- MCPolicyQuote
    AzlUnit = 2
    TaskAmounts = {2}
    MaxTaskUsd6 = 20
    OpenTaskCapUsd6 = 20
    PosterCapBps = 2000
    MaxTaskDuration = 3
    FundingWindow = 2
    DeliveryGrace = 2
    PosterDisputeGrace = 1
    WorkerShares = {0, 5000, 10000}
    CreditCap = 2
    StartDeposit = 10
    MayRefuse = {}
    AgentAmounts = {}
    MaxVaultBalance = 0
    MaxDeadline = 3
    MaxTime = 6
CHECK_DEADLOCK FALSE
PROPERTIES
    CreditSparesCancellingPoster
