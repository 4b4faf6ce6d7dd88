SPECIFICATION FairSpec
CONSTANTS
    Clients = {c1, c2}
    Pages = {p1}
    None = None
    MaxRequests = 2
    Diagnostic = {d1}
    Partial = partial
    Records = {r1}
    Unset = unset
    Tasks = {t1, t2}
    Files <- MCFiles
    DialogIDs = {0, 2, 3, 7}
    why = why
    yes = yes
    next = next
    fix = fix
    Empty = empty
    DIALOG_MAX_ANSWERS_COUNT = 2
CHECK_DEADLOCK FALSE
INVARIANTS AnsweredFromFile
