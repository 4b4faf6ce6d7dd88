SPECIFICATION FairSpec
CONSTANTS
    c1 = c1
    c2 = c2
    k1 = k1
    t1 = t1
    t2 = t2
    None = None
    Busy = Busy
    Clients <- OneClient
    Keys <- OneKey
    Tasks <- OneTask
    MaxRequests = 1
PROPERTIES ProcessEnds
