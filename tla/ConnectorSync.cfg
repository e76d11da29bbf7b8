CONSTANTS
    Ids <- TwoIds
    DiskFaults = TRUE
    BatchSize = 2
    IsolateRuns = 2
    ClearMode = TRUE
    Poison <- First
    OutOfRange <- Second
SPECIFICATION Spec
INVARIANTS
    ConfirmedIsStored
    FailedIsRefused
PROPERTIES
    ClearedOnlyWhenStored
    LogKeepsUntilStored
    ImplementsDelivery
