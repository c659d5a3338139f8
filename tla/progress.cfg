SPECIFICATION Spec
CONSTANTS
    Slots = {s1, s2}
    Accounts = {acc1, acc2}
    Users = {u1}
    Filters = {"all", "CLOSED"}
    Ttl = 2
    MaxCodes = 2
    MaxLosses = 2
    MaxStarts = 4
    MaxLogins = 2
    MaxDocs = 3
    MaxReviews = 3
    MaxTurns = 2
    MaxMoves = 2
    MaxFails = 1
    Phones = 2
    Items = 1
    Lines = 2
    MaxRuns = 2
    MaxActs = 1
    Nil = Nil
CHECK_DEADLOCK FALSE
INVARIANTS
    TypeOK
    
PROPERTIES
    
    AllGetThere
