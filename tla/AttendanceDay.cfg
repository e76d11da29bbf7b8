CONSTANTS
    p1 = p1
    p2 = p2
    c1 = c1
    c2 = c2
    Punches <- TwoPunches
    Time <- TwoTimes
    Requests <- TwoRequests
    Admin = Admin
    None = None
    LateAfter = 1
    OutFrom = 2
    Gap = 1
    LastInstant = 2
    MaxHand = 1
SPECIFICATION Spec
SYMMETRY RequestsAlike
INVARIANTS
    DayIsItsPunches
    LaterDecisionWins
    ToldOfArrival
    MappedPunchesCredited
    AutoAbsentNeverPunched
PROPERTY
    PresenceAndLeaveStand
