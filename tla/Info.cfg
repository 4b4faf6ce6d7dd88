SPECIFICATION FairSpec
CONSTANTS
    a = a
    b = b
    good = good
    bad = bad
    None = None
    Moved = Moved
    Terminals <- TwoTerminals
    Sessions <- TwoSessions
    Usable <- OneSession
    MaxRequests = 4
CHECK_DEADLOCK FALSE
INVARIANTS TypeOK ItemInRange StartSafe ListedOnce
PROPERTIES IndicesKept RequestReturns ThreadEnds Polled
