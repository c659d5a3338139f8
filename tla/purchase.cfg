SPECIFICATION Spec
CONSTANTS
    Users = {u1}
    Slots = {t1, t2}
    Refs = {p1}
    Purchases = {p1}
    Invoices = {i1, i2}
    Grams = {1}
    Levels <- MCLevels
    NORMAL = "NORMAL"
    Thresholds <- MCThresholds
    Nil = Nil
    MaxCalls = 4
    MaxFaults = 2
SYMMETRY Symmetry
CHECK_DEADLOCK FALSE
INVARIANTS
    TypeOK
    NothingWithoutPayment
    InvoiceInOrder
    SettlementAgrees
PROPERTIES
    SettledStaysSettled
