SPECIFICATION Spec

CONSTANTS
    m1 = m1
    m2 = m2
    Message = {m1, m2}
    Hidden = {}
    Nobody = Nobody
    Never = Never
    Overlap = 1
    FirstWindow = 0
    Drift = 0
    Retention = 3
    LongestRead = 0
    MaxFeed = 2
    MaxTime = 3
    MaxStops = 1

SYMMETRY MCSymmetry

INVARIANTS
    GapsLoseNothing
