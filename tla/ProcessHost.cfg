SPECIFICATION FairSpec

CONSTANTS
    t1 = t1
    t2 = t2
    r1 = r1
    r2 = r2
    q1 = q1
    Components = 2
    Task = {t1, t2}
    Routine = {r1, r2}
    Request = {q1}

INVARIANTS
    PoolsCloseLast
    FailuresReported

PROPERTIES
    RequestsDrainFirst
    StopCompletes

CHECK_DEADLOCK FALSE
