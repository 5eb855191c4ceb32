SPECIFICATION FairSpec

CONSTANTS
    api = api
    worker = worker
    ui = ui
    a1 = a1
    w1 = w1
    w2 = w2
    Process = {worker}
    Resealer = worker
    Operator = ui
    Unit = {w1}
    At <- MCAt
    SourceId = {1, 2, 3}
    ClientOf <- MCClientOf
    MaxGrant = 3
    MaxKey = 2
    MaxRotation = 1
    MaxFailure = 1
    MaxRestart = 1

PROPERTIES
    GrantReachesProcesses
    KeyReplaced
