CONSTANTS
    w1 = w1
    w2 = w2
    r1 = r1
    r2 = r2
    None = None
    Rows <- TwoRows
    Workers <- TwoWorkers
    MaxAttempts = 2
    BatchSize = 2
    Outlasted <- SecondRow
SPECIFICATION FairSpec
INVARIANTS
    HeldByOwner
    AttemptsBounded
    SendsPerAttempt
    GivenUpHonestly
PROPERTIES
    ImplementsOutbox
    EventuallyClosed
