SPECIFICATION Spec

CONSTANTS
    api = api
    fill = fill
    Worker <- MCWorker
    ClassOf <- MCClassOf
    CostsOf <- MCCostsOf
    LeaseMillis = 2
    Target = 5
    HardCap = 8
    Floor = 1
    InteractiveReserve = 2
    SyncReserve = 1
    RetryAfters = {2}
    BackoffBase = 1
    BackoffMost = 2
    FirstInstant = 4
    ClockSteps = {2}
    MaxLag = 2
    MaxNow = 7
    MaxThrottles = 1

CHECK_DEADLOCK FALSE

INVARIANTS
    HardCapKept
    PolitenessKept

PROPERTIES
    BudgetKept
