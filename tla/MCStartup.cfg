SPECIFICATION Spec
CONSTANTS
    Words <- MCWords
    Names <- MCNames
    Environments <- MCEnvironments
    Senders <- MCSenders
    Lost <- MCLost
INVARIANTS
    AcceptedEnvironmentStarts
    ServesWithinLimits
    NeverToldTwice
    PolicyAsListed
    ProbeTruthful
CHECK_DEADLOCK FALSE
