SPECIFICATION Spec
CONSTANTS
    Self = Self
    Nil = Nil
INVARIANTS
    TypeOK
    NodeOutlivesThreads
    ReleasedAtExit
    JoinsDefined
PROPERTIES
    ShutdownCompletes
    LeadsAlone
    ImplementsRaft
