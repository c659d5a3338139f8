SPECIFICATION Spec
CONSTANTS
    Phones = {p1, p2}
    Registered = {p1}
    Tries = {s1, s2, s3}
    MaxFailures = 2
    Block = 2
    MaxNow = 4
    MaxRestarts = 1
    Slots = {s1, s2}
    AccessTtl = 1
    RefreshTtl = 2
    MaxClock = 3
    MaxRows = 2
    Admins = {a1, a2}
    Founder = a1
    Ttl = 1
    MaxDay = 1
    MaxSends = 3
    Editors = {s1, s2}
    Order <- MCOrder
    Fields = {"secret", "other"}
    Typable = {"typed"}
    EnvFields <- MCEnvFields
    Default = "default"
    PanelDefault = "panel"
    Env = "env"
    MaxTyped = 1
    MaxCalls = 3
    Users = {u1}
    MaxPuts = 3
    Nil = Nil
SYMMETRY Symmetry
CHECK_DEADLOCK FALSE
INVARIANTS
    TypeOK
    GuessesBounded
    
    SavedIsShown
PROPERTY
    DecisionsHold
