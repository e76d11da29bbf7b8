SPECIFICATION Spec
CONSTANTS
    b1 = b1
    b2 = b2
    k1 = k1
    k2 = k2
    None = None
    Billers = {b1, b2}
    Cashiers = {k1, k2}
    Amount = 3
    Slack = 1
    Discounts = {0, 1, 3}
    MaxInvoices = 3
    MaxMoves = 3
    MaxSwitches = 3
SYMMETRY Alike
CHECK_DEADLOCK FALSE
INVARIANTS CollectedMoneyIsKept InvoiceTellsTheMoney BilledOnce OnlyUntouchedWithdrawn CandidateIffPaid
