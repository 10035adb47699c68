SPECIFICATION Spec
CONSTANTS
    Thread = {t1, t2}
    Path = {p1, p2}
    Zero = 0
    Offset = {0, 1}
    ReadSize = {2}
    Chunk <- OneChunk
    InitialSize = {1}
    max_file_size = 2
    max_files = 2
    Injections <- Fault
    MaxOps = 2
SYMMETRY Renamings
INVARIANTS
    TypeOK
    ListSound
    StatsConserved
PROPERTY ImplementsFileStore
