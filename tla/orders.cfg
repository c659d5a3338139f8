SPECIFICATION Spec
CONSTANTS
    SeedRows <- MCSeedRows
    MaxRowChanges = 1
    Filters = {"ALL", "PENDING"}
    PageSize = 1
    MaxPage = 2
    Sought <- MCSought
    Batch = 2
    MaxBatches = 2
    Admins = {a1, a2}
    Alone = a1
    Requests = {"r1"}
    Grams = 1
    MaxPuts = 2
    Tables = {"table"}
    FirstRows <- MCFirstRows
    MaxMoves = 1
    SellFilters = {"ALL", "PENDING"}
    SellPageSize = 1
    Users = {"u1", "u2"}
    Purchases = {"p1", "p2"}
    Sells = {"r1"}
    Owner <- MCOwner
    Amount <- MCAmount
    PaidRows <- MCPaidRows
    AskedFilters <- MCAskedFilters
    MaxDay = 2
    MaxEdits = 3
    Calls = {s1, s2}
    Cache = 2
    Timeout = 1
    Life = 3
    MaxTime = 5
    MaxTokens = 3
    Slots = {s1, s2}
    MaxAttempts = 4
    Nil = Nil
SYMMETRY Symmetry
CHECK_DEADLOCK FALSE
INVARIANTS
    TypeOK
    
    
    KeptIsGood
 
