SPECIFICATION Spec
CONSTANTS
    MaxRequests = 3
    hello = hello
    bye = bye
    Empty = Empty
    Garbled = Garbled
    Contents = {hello, bye, Empty}
    Mails <- MCMails
INVARIANTS
    TypeOK
    LastPartsDelivered
    ParseFailsWithReason
    TakenIsTold
    RejectedForTheMessage
    BlamedForItsContent
PROPERTY RetryMayHelp
CHECK_DEADLOCK FALSE
