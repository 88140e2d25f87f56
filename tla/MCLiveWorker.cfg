CONSTANTS
    t1 = t1  m1 = m1  m2 = m2  m3 = m3
    Tasks = {t1}
    Messages = {m1, m2, m3}
    Subject <- SubjectOf
    Pings = {m3}
    MaxFaults = 1
SPECIFICATION Spec
INVARIANTS
    HandledOncePerRun
    OneNoticePerDelivery
PROPERTIES
    EveryMessageEnds
CHECK_DEADLOCK FALSE
