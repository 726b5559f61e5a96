SPECIFICATION Spec
CONSTANTS
    c1 = c1
    c2 = c2
    c3 = c3
    t1 = t1
    t2 = t2
    t3 = t3
    Conns = {c1, c2}
    Threads = {t1, t2}
    Fds <- MCFds2
    SubNum = 2
    MaxSend = 1
    CallbackThrows = TRUE
    None = None
SYMMETRY Symmetry
INVARIANTS
    PoolStarvation
CHECK_DEADLOCK FALSE
