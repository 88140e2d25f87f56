SPECIFICATION Spec
CONSTANTS
    t1 = t1
    t2 = t2
    a1 = a1
    a2 = a2
    Nobody = Nobody
    Tasks = {t1, t2}
    Accounts = {a1, a2}
    WorkerShares = {0, 3300, 5000, 10000}
    MaxEscrowBalance = 5
    MaxDeposit = 3
SYMMETRY Symmetry
INVARIANTS
    LiabilitiesExact
    EscrowSolvent
    SettledIsEmpty
PROPERTIES
    DisputedFundsStay
