SPECIFICATION Spec
CONSTANTS
    Users = {u1}
    Slots = {t1, t2}
    Refs = {p1, r1, r2}
    Requests = {r1, r2}
    Grams = {1, 2}
    Levels <- MCLevels
    NORMAL = "NORMAL"
    Thresholds <- MCThresholds
    Nil = Nil
    MaxCalls = 3
    MaxFaults = 1
    MaxClicks = 3
SYMMETRY Symmetry
CHECK_DEADLOCK FALSE
INVARIANTS
    TypeOK
    DeductionsInOrder
    SalesBooked
