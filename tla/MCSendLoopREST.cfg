SPECIFICATION FairSpec
CONSTANTS
    Transport = "rest"
    MaxRetries = 2
    AttemptTimeout = 30
    SendTimeout = 60
    RetryBaseDelay = 1
    RetryCapDelay = 10
    Second = 2
    DurationMax = 127
    Latencies = {0, 1, 20}
    Responses <- MCResponsesREST
INVARIANTS
    CopiesExplained
    AnswersCoherent
    VerdictMatchesLastAnswer
    GiveUpJustified
PROPERTIES
    RetryOnlyWhenTemporary
    RetryAfterHonoured
    LongRetryAfterTerminal
    Termination
    ImplementsSender
CHECK_DEADLOCK FALSE
