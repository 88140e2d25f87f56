SPECIFICATION Spec
CONSTANTS
    p = p
    v1 = v1
    v2 = v2
    v3 = v3
    t1 = t1
    t2 = t2
    Nobody = Nobody
    Tasks = {t1, t2}
    Verifiers = {v1, v2, v3}
    PosterOf <- MCPosterOf
    WorkerOf <- MCWorkerOf
    MinimumBond = 2
    WithdrawalCooldown = 1
    SlashCapBps = 5000
    EvidenceWindow = 1
    RulingWindow = 1
    StartPanel <- MCPanel
    WorkerBps = {0, 5000}
    BondAmounts = {2}
    MaxBonded = 4
    MaxPanel = 3
    MaxTime = 5
SYMMETRY Symmetry
CHECK_DEADLOCK FALSE
INVARIANTS
    BondsCoverCases
    BondsSolvent
    NobodyJudgesOwnCase
PROPERTIES
    WindowsHonoured
    PanelNotEmptiedByExit
    BondsTakenOnlyForCause
