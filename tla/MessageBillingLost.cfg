CONSTANTS
    s1 = s1
    s2 = s2
    q1 = q1
    q2 = q2
    a1 = a1
    a2 = a2
    None = None
    Sends <- OneSend
    Units <- Segments
    Requests <- TwoRequests
    Type <- TwoPackages
    Credit <- TwoCredits
    Validity <- OneDay
    Admins <- TwoAdmins
    Deltas <- Grants
    GrantDays = 1
    MaxDay = 1
    MaxChanges = 1
    Faults <- NoFaults
SPECIFICATION Spec
CHECK_DEADLOCK FALSE
PROPERTY NeverLost
