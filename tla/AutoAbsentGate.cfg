CONSTANTS
    d1 = d1
    p1 = p1
    p2 = p2
    None = None
    Devices <- OneDevice
    Punches <- TwoPunches
    Device <- OnOne
    Poison <- SecondPunch
SPECIFICATION FairSpec
CHECK_DEADLOCK FALSE
INVARIANTS
    AbsentOnlyWhenSynced
PROPERTY EventuallyMarked
