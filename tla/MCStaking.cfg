SPECIFICATION Spec
CONSTANTS
    t1 = t1
    a1 = a1
    a2 = a2
    Nobody = Nobody
    Tasks = {t1}
    Accounts = {a1, a2}
    Acc = 2
    CreditAcc = 2
    CreditUnit = 2
    CreditCap = 2
    CreditTokenTime = 3
    RewardDuration = 2
    StakeAmounts = {1, 2}
    RewardAmounts = {3}
    MaxStaked = 3
    MaxLiability = 6
    MaxRestakes = 3
    MaxSurplus = 1
    MaxTime = 2
SYMMETRY AgentSymmetry
INVARIANTS
    StakesBacked
    RewardsConserved
    CreditsConserved
PROPERTIES
    ImplementsLedger
CHECK_DEADLOCK FALSE
