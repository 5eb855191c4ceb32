SPECIFICATION TimedSpec
CONSTANTS
    api = api
    fill = fill
    Worker <- ReservedWorker
    ClassOf <- ReservedClassOf
    CostsOf <- ReservedCostsOf
    LeaseMillis = 2
    Target = 5
    HardCap = 8
    Floor = 2
    InteractiveReserve = 2
    SyncReserve = 1
    RetryAfters = {1}
    BackoffBase = 1
    BackoffMost = 1
    FirstInstant = 4
    ClockSteps = {}
    MaxLag = 0
    MaxNow = 60
    MaxThrottles = 1
    ShortestWait = 1
    LongestWait = 1
INVARIANTS
    InteractiveWaitsBriefly
    LoneWaitBounded
CHECK_DEADLOCK FALSE
VIEW AgeView
