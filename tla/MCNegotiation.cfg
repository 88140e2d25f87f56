CONSTANTS
    t1 = t1  t2 = t2  n1 = n1  n2 = n2  r1 = r1  r2 = r2
    Negotiations = {n1, n2}
    Tasks = {t1, t2}
    OurTasks = {t1}
    Routes = {r1, r2}
    Envelopes <- Sent
    None = None
    Funded = 3
SYMMETRY RouteSymmetry
SPECIFICATION Spec
INVARIANTS
    PaysBoundTaskOnly
    SettlesOnlyDelivered
CHECK_DEADLOCK FALSE
