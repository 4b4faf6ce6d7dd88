SPECIFICATION FairSpec
CONSTANTS
    Clients = {c1, c2}
    Pages = {}
    None = None
    MaxRequests = 3
    Diagnostic = {d1, d2}
    Partial = partial
    Records = {r1}
    Unset = unset
    Tasks = {t1, t2, t3}
    Files <- MCWalk
    DialogIDs = {3}
    why = why
    yes = yes
    next = next
    fix = fix
    Empty = empty
    DIALOG_MAX_ANSWERS_COUNT = 2
CHECK_DEADLOCK FALSE
INVARIANTS TypeOK ReadWhole NewTaskWhole
PROPERTIES StaysUsable RequestReturns
