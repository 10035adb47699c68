SPECIFICATION Spec
CONSTANTS
    n1 = n1
    n2 = n2
    n3 = n3
    Node = {n1, n2, n3}
    Nil = Nil
    InitialCluster <- FullCluster
    MaxNodes = 4
    IndexMod = 8
    Adder = {a1}
    MaxTerm = 1
    MaxLog = 0
    MaxRestarts = 1
    MaxLate = 0
INVARIANTS
    SplitNeedsLostVote
PROPERTIES
    WonByBallots
