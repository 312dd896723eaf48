SPECIFICATION Spec
CONSTANTS
    Asset = {x, y}
    Owner = {o1, o2}
    FirstOwner = o1
    Loaded = {x}
    None = none
    Stream = {s1, s2}
    Sync = {j1, j2}
    Reader = {r1}
    MaxRetries = 1
    MaxTx = 2
    MaxEvents = 2
    MaxBatch = 2
    MaxFaults = 2
INVARIANTS
    TypeOK
    CursorPassesOnlyTried
    BurnedIsTrue
    UndisturbedPassAgrees
CONSTRAINT
    OnePart
CHECK_DEADLOCK FALSE
