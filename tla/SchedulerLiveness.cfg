SPECIFICATION FairSpec

CONSTANTS
    k1 = k1
    k2 = k2
    d1 = d1
    c1 = c1
    c2 = c2
    Key = {k1, k2}
    Kind = {d1}
    Limited = {k1, k2}
    Timed = {k1}
    Caller = {c1}
    Waker = {w1}
    Nobody = Nobody
    MaxLoops = 2
    KindOf <- MCKindOf
    SlotsOf <- MCSlotsOf

CHECK_DEADLOCK FALSE

PROPERTIES
    WakeAnswered
    RemoveReturns
    StopReturns
