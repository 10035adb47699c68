SPECIFICATION Spec
CONSTANTS
    n1 = n1
    n2 = n2
    n3 = n3
    Node = {n1, n2, n3}
    Nil = Nil
    InitialCluster <- FullCluster
    MaxNodes = 3
    IndexMod = 8
    Adder = {}
    MaxTerm = 2
    MaxLog = 2
    MaxRestarts = 0
    MaxLate = 2
INVARIANTS
    TypeOK
    ElectionSafety
    LeaderIndexInBounds
    EntryOrigin
PROPERTIES
    VoteStable
