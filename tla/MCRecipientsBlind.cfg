SPECIFICATION Spec
CONSTANTS
    ann = ann
    bob = bob
    cyd = cyd
    Blank = Blank
    Keys <- MCKeys
    Spellings = {1, 2}
    HeaderFields <- MCHeaderFields
    Envelopes <- MCEnvelopes
INVARIANT BlindWithAnyHeader
CHECK_DEADLOCK FALSE
