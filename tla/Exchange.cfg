SPECIFICATION ExchangeSpec
CONSTANTS
    MaxBytes = 19
    MaxSent = 19
    RecvMax = 6
    SndBuf = 7
    Prefix = 1
    ReplySizes <- MCReplySizes
    Lengths <- MCLengths
    None = None
INVARIANTS
    ExchangeTypeOK
    RangesInBuffer
    AnsweredWhole
    CompleteBody
    ClientUnderstood
    HandsOverAll
    WholeReply
    ResetOnlyLate
PROPERTIES
    PartsInOrder
CHECK_DEADLOCK FALSE
