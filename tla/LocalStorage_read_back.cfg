SPECIFICATION Spec
CONSTANTS
    t1 = t1
    t2 = t2
    p1 = p1
    p2 = p2
    Thread = {t1}
    Path = {p1, p2}
    Zero = 0
    Offset = {0, 1}
    ReadSize = {2}
    Chunk <- TwoBytes
    InitialSize = {1}
    max_open_files = 2
    MaxFds = 2
    MaxInodes = 2
    MaxCalls = 4
    MaxInits = 2
    Failures = FALSE
CHECK_DEADLOCK FALSE
PROPERTY ReadSucceeds
