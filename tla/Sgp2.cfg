SPECIFICATION FairSpec
CONSTANTS
    a = a
    b = b
    r1 = r1
    r2 = r2
    None = None
    Characters <- TwoCharacters
    Passwords <- ThreePasswords
    ServerPassword <- AccountsOwn
    KeySize = 2
    Randoms <- TwoRandoms
    MaxFaults = 2
    MaxEmpty = 1
CHECK_DEADLOCK FALSE
INVARIANTS TypeOK CommandsAccepted Quiet OnlyAuthorised
PROPERTIES ServedOnce CallImplemented
