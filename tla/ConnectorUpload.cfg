CONSTANTS
    Ids <- TwoIds
    DiskFaults = TRUE
    BatchSize = 2
    IsolateRuns = 2
    ClearMode = FALSE
    Poison <- None
    OutOfRange <- None
SPECIFICATION Spec
INVARIANT
    StoredBeforeUpload
