SPECIFICATION FairSpec
CONSTANTS
    p1 = p1
    p2 = p2
    m1 = m1
    m2 = m2
    m3 = m3
    Producers <- MCProducers
    Messages <- MCMessages
    Level <- MCLevel
    None = None
INVARIANTS
    TypeOK
    NoSleepOnWork
    DrainedAtExit
PROPERTIES
    ImplementsStream
    TakenEventually
    ExitReturns
CHECK_DEADLOCK FALSE
