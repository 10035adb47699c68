SPECIFICATION Spec
CONSTANTS
    l1 = l1
    l2 = l2
    m1 = m1
    t1 = t1
    t2 = t2
    Thread = {t1, t2}
    Backend <- AllBackends
    TypeOf <- Types
    MAX_STORAGE_BACKENDS = 2
    Policies <- MockFirst
    DefaultPolicy <- Default
    MaxOps = 1
    MaxChanges = 4
SYMMETRY Interchangeable
CHECK_DEADLOCK FALSE
INVARIANTS
    TypeOK
    RegistrySound
    StatsConserved
    CrashExplained
PROPERTY RoutingSound
