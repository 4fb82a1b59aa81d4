SPECIFICATION FairSpec
CONSTANTS
    Conns = {c1, c2}
    SendTimeout = 3
    ShutdownGrace = 2
INVARIANTS
    TypeOK
    NeverHalfUp
    HealthOutlivesTransactions
    ExitTellsWhy
PROPERTY Stops
CHECK_DEADLOCK FALSE
