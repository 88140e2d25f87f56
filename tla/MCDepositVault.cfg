SPECIFICATION Spec
CONSTANTS
    t1 = t1
    t2 = t2
    a1 = a1
    a2 = a2
    Treasury = Treasury
    Tasks = {t1, t2}
    Accounts = {a1, a2}
    Quotes <- MCQuotes
    MaxBalance = 13
SYMMETRY Symmetry
INVARIANTS
    BooksBalance
    ReservationsBacked
    FloorOnlyWhileActive
    Solvent
    SettlementNeverReverts
