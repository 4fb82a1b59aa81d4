SPECIFICATION Spec
CONSTANTS
    MaxRequests = 3
    hello = hello
    bye = bye
    Empty = Empty
    Garbled = Garbled
    Contents = {hello, bye, Empty}
    Mails <- MCMails
INVARIANT NonTextNeverFails
CHECK_DEADLOCK FALSE
