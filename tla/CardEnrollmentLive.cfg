SPECIFICATION FairSpec
CONSTANTS
    ali = ali
    sara = sara
    c1 = c1
    c2 = c2
    a1 = a1
    a2 = a2
    None = None
    People = {ali, sara}
    Cards = {c1, c2}
    Admins = {a1}
    Attempts = 2
    MaxSessions = 1
    MaxEdits = 1
    MaxFaults = 2
PROPERTIES DeviceAgrees SessionsEnd
