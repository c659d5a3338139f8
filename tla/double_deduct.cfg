SPECIFICATION Spec
CONSTANTS
    Users = {u1}
    Slots = {t1, t2}
    Refs = {p1, r1}
    Requests = {r1}
    Grams = {1, 2}
    Levels <- MCLevels
    NORMAL = "NORMAL"
    Thresholds <- MCThresholds
    Nil = Nil
    MaxCalls = 3
    MaxFaults = 0
    MaxClicks = 2
CHECK_DEADLOCK FALSE
INVARIANT
    DeductedOnce
