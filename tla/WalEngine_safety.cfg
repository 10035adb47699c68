SPECIFICATION Spec
CONSTANTS
    HeaderSize = 2
    RecHeaderSize = 1
    Sizes = {1, 6}
    MaxSize = 6
    Lengths = {0, 1, 2}
    LenMod = 4
    CrcMod = 3
    Salts = {1}
    Garbage = {0, 1, 2}
    MaxLsn = 3
    MaxOpens = 2
    MaxCrashes = 2
INVARIANTS
    TypeOK
    Layout
    SyncedDurable
CHECK_DEADLOCK FALSE
