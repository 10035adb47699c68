SPECIFICATION Spec
CONSTANTS
    t1 = t1
    t2 = t2
    p1 = p1
    p2 = p2
    Thread = {t1, t2}
    Path = {p1, p2}
    Zero = 0
    Offset = {1}
    ReadSize = {2}
    Chunk <- TwoBytes
    InitialSize = {1}
    max_open_files = 1
    MaxFds = 2
    MaxInodes = 2
    MaxCalls = 4
    MaxInits = 2
    Failures = TRUE
SYMMETRY Symmetry
CHECK_DEADLOCK FALSE
INVARIANTS
    TypeOK
    StatsConserved
    DescriptorsSound
PROPERTIES
    ImplementsFileStore
