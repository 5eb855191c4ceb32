SPECIFICATION Spec

CONSTANTS
    k1 = k1
    k2 = k2
    d1 = d1
    c1 = c1
    c2 = c2
    Key = {k1, k2, k3}
    Kind = {d1}
    Limited = {k1, k2}
    Timed = {}
    Caller = {c1, c2}
    Waker = {}
    Nobody = Nobody
    MaxLoops = 3
    KindOf <- MCKindOf
    SlotsOf <- MCSlotsOf

SYMMETRY MCSymmetry
CHECK_DEADLOCK FALSE

INVARIANTS
    LimitKept
    SeriesTrue
    StopWaitsForAll

PROPERTIES
    RunsKept
