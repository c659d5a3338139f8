SPECIFICATION Spec
CONSTANTS
    News = {"n1", "n2"}
    Few = {"n1"}
    Titles = {"empty", "latin", "cyrillic"}
    FewTitles = {"empty", "latin"}
    Slugify <- MCSlugify
    Empty = "empty"
    None = None
    Now = 3
    Zone = 1
    MaxSaves = 1
    MaxCalls = 1
    Hits = {"n1"}
    Filters <- MCFilters
    NewsPageSize = 1
    Callers = {"form"}
    FirstState <- MCFirstState
    MaxTurned = 1
    FeedNews = {1, 2, 3, 4}
    FirstAt <- MCFirstAt
    FeedLimit = 2
    MaxMoved = 3
    Prices = {1, 2}
    Inputs <- MCInputs
    FirstRows <- MCFirstRows
    MaxRows = 4
    MaxDay = 2
    FirstDays <- MCFirstDays
    ChartLimit = 2
    PricePageSize = 2
    Ranges = {1, 3}
    ChartRows = 3
    ChartDays = 3
    Customers = {u3}
    Sockets = {k1, k2}
    MaxStored = 3
    Users = {u1, u2}
    Tabs = {"all", "unread"}
    MaxMoves = 4
    MaxFails = 0
    Texts = {1, 501}
    MaxOthers = 4
    MaxSends = 2
    MaxDrops = 2
    Slots = {s1, s2}
    MaxTurns = 2
    Nil = Nil
SYMMETRY Symmetry
CHECK_DEADLOCK FALSE
INVARIANTS
    TypeOK
    
    
    
 
