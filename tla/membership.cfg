SPECIFICATION RaceSpec
CONSTANTS
    Users = {u1}
    Slots = {t1, t2}
    Editors = {e1}
    Levels <- MCLevels
    NORMAL = "NORMAL"
    Defaults <- MCDefaults
    EditRequests <- MCEditRequests
    Totals = {0, 1, 2}
    Nil = Nil
    MaxChanges = 3
SYMMETRY MCSymmetry
CHECK_DEADLOCK FALSE
INVARIANTS
    TypeOK
    LevelEarned
    LevelCurrent
    NextLevelPromise
