CONSTANTS
    w1 = w1
    w2 = w2
    r1 = r1
    r2 = r2
    None = None
    Rows <- OneRow
    Workers <- TwoWorkers
    MaxAttempts = 3
    BatchSize = 1
    Outlasted <- OneRow
SPECIFICATION Spec
PROPERTY
    OnlyOwnerMarks
