SPECIFICATION Spec
CONSTANTS
    c1 = c1
    c2 = c2
    k1 = k1
    t1 = t1
    t2 = t2
    None = None
    Busy = Busy
    Clients <- TwoClients
    Keys <- OneKey
    Tasks <- OneTask
    MaxRequests = 2
INVARIANTS SendsTaskRequest
