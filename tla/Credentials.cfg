SPECIFICATION Spec

CONSTANTS
    api = api
    worker = worker
    ui = ui
    a1 = a1
    w1 = w1
    w2 = w2
    Process = {api, worker}
    Resealer = worker
    Operator = ui
    Unit = {a1, w1}
    At <- MCAt
    SourceId = {1, 2, 3}
    ClientOf <- MCClientOf
    MaxGrant = 2
    MaxKey = 1
    MaxRotation = 1
    MaxFailure = 1
    MaxRestart = 0

INVARIANTS
    StampTellsGrant

PROPERTIES
    GrantNeverPutBack
    LoaderNeverGoesBack
