SPECIFICATION Spec
CONSTANTS
    Users = {u1}
    Slots = {t1, t2}
    Refs = {p1}
    Purchases = {p1}
    Invoices = {i1}
    Grams = {1}
    Levels <- MCLevels
    NORMAL = "NORMAL"
    Thresholds <- MCThresholds
    Nil = Nil
    MaxCalls = 2
    MaxFaults = 0
CHECK_DEADLOCK FALSE
INVARIANT
    CreditedOnce
