SPECIFICATION FairSpec
CONSTANTS
    a = a
    b = b
    good = good
    bad = bad
    None = None
    Moved = Moved
    Terminals <- TwoTerminals
    Sessions <- TwoSessions
    Usable <- OneSession
    MaxRequests = 3
PROPERTIES StopCompletes
