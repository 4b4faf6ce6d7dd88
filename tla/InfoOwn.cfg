SPECIFICATION Spec
CONSTANTS
    a = a
    b = b
    good = good
    bad = bad
    None = None
    Moved = Moved
    Terminals <- TwoTerminals
    Sessions <- OneSession
    Usable <- OneSession
    MaxRequests = 3
INVARIANTS OwnInfo
