SPECIFICATION Spec
CONSTANTS
    Users = {u1}
    Slots = {t1, t2}
    Refs = {r1}
    Grams = {1, 2}
    Nil = Nil
    MaxCalls = 4
CHECK_DEADLOCK FALSE
INVARIANTS
    TypeOK
    Solvent
    NoGoldFromNothing
    BalanceSheet
    ExactWhenSerial
    LedgerReconciles
