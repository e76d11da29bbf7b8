CONSTANTS
    Ids <- TwoIds
    DiskFaults = FALSE
    BatchSize = 2
    IsolateRuns = 2
    ClearMode = FALSE
    Poison <- First
    OutOfRange <- None
SPECIFICATION FairSpec
INVARIANTS
    SyncingIsInFlight
    StoredBeforeUpload
PROPERTIES
    EventuallyStored
    EventuallySettled
