SPECIFICATION RelaySpec
CONSTANTS
    Conns = {c1, c2}
    None = None
    SendTimeout = 2
    ShutdownGrace = 1
    MaxRequests = 2
    MaxTries = 2
    MaxRestarts = 1
INVARIANTS
    CopiesExplained
    CopiesBounded
PROPERTIES
    StopLeavesNoDoubt
    ImplementsSubmission
CHECK_DEADLOCK FALSE
