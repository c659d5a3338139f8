SPECIFICATION Spec
CONSTANTS
    Users = {u1}
    Slots = {t1, t2}
    Refs = {p1, p2}
    Purchases = {p1, p2}
    Invoices = {i1, i2}
    Grams = {1, 2}
    Levels <- MCLevels
    NORMAL = "NORMAL"
    Thresholds <- MCThresholds
    Nil = Nil
    MaxCalls = 2
    MaxFaults = 1
SYMMETRY SymmetryTwo
CHECK_DEADLOCK FALSE
INVARIANT
    WalletEqualsCompleted
PROPERTY
    WalletSpec
