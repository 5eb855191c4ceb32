SPECIFICATION FairSpec

CONSTANTS
    Message = {1, 2}
    SentAt <- MCSentAt
    SenderOf <- MCSenderOf
    ListId = {1, 2}
    Old = {1}
    Leaving = {2}
    Release <- MCRelease
    Flags <- MCFlags
    Masks <- MCMasks
    TooLarge <- MCTooLarge
    ListSize = 1
    PageSize = 1
    TickSize = 2
    Decisions = 2
    MaxStops = 1
    MaxEdits = 1
    MaxFails = 1

INVARIANTS
    ScannerCurrent
    HitsExact
    FirstPassComplete

PROPERTIES
    NothingPassedOver
    DecidedOnce
    PassesEnd
    WaitingDecided
