SPECIFICATION Spec
CONSTANTS
    c1 = c1
    c2 = c2
    c3 = c3
    t1 = t1
    t2 = t2
    t3 = t3
    Conns = {c1, c2}
    Threads = {t1, t2, t3}
    Fds <- MCFds2
    SubNum = 1
    MaxSend = 1
    CallbackThrows = TRUE
    None = None
SYMMETRY Symmetry
INVARIANTS
    TypeOK
    NoUseAfterFree
    OneShotDelivery
    DelFindsRegistration
    ReleasedUnlessOvertaken
PROPERTIES
    ImplementsService
    UsesQueue
CHECK_DEADLOCK FALSE
