SPECIFICATION Spec
CONSTANTS
    ali = ali
    sara = sara
    c1 = c1
    c2 = c2
    a1 = a1
    a2 = a2
    None = None
    People = {ali, sara}
    Cards = {c1, c2}
    Admins = {a1, a2}
    Attempts = 2
    MaxSessions = 2
    MaxEdits = 1
    MaxFaults = 1
SYMMETRY Alike
INVARIANTS OneSessionPerDevice DeviceCardWasGiven
PROPERTIES CardsChangeWithASession
