SPECIFICATION FairSpec

CONSTANTS
    m1 = m1
    m2 = m2
    Message = {m1, m2}
    Hidden = {m2}
    Nobody = Nobody
    Never = Never
    Overlap = 1
    FirstWindow = 0
    Drift = 1
    Retention = 0
    LongestRead = 1
    MaxFeed = 3
    MaxTime = 1
    MaxStops = 1

INVARIANTS
    MailKept
    IndexFollows
    OneRunOpen

PROPERTIES
    LiveKept
    CatchesUp
