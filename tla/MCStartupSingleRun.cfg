SPECIFICATION Spec
CONSTANTS
    Words <- MCWords
    Names <- MCNames
    Environments <- MCEnvironments
    Senders <- MCSenders
    Lost <- MCLost
INVARIANT SingleRun
CHECK_DEADLOCK FALSE
