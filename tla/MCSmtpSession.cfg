SPECIFICATION FairSpec
CONSTANTS
    Froms = {ours, alsoOurs, theirs}
    AllowedFroms = {ours, alsoOurs}
    Rcpts = {r1, r2}
    Users = {relay, other}
    Passwords = {secret, guess}
    Username = relay
    Password = secret
    TLSConfigured = TRUE
    NestedMail = TRUE
    MaxRecipients = 2
    MaxRequests = 2
    MaxCalls = 2
    Nobody = Nobody
    NoFrom = NoFrom
INVARIANTS
    TypeOK
    EnvelopeIsAcknowledged
    SendAuthorized
    ReportsAgree
PROPERTIES
    AuthChanges
    DataAnswered
CHECK_DEADLOCK FALSE
