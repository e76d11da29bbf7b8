CONSTANTS
    s1 = s1
    s2 = s2
    q1 = q1
    q2 = q2
    a1 = a1
    a2 = a2
    None = None
    Sends <- TwoSends
    Units <- Segments
    Requests <- TwoRequests
    Type <- PackageAndRecharge
    Credit <- TwoCredits
    Validity <- OneDay
    Admins <- TwoAdmins
    Deltas <- Grants
    GrantDays = 0
    MaxDay = 1
    MaxChanges = 1
    Faults <- AllFaults
SPECIFICATION Spec
SYMMETRY AdminsAlike
CHECK_DEADLOCK FALSE
INVARIANTS
    LedgerAgrees
    NoOverdraft
    GrantedOnce
    UsageIsTrue
    RefundedOnce
    RefundedWasRejected
    NeverSilentlyDeducted
