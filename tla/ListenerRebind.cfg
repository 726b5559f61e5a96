SPECIFICATION Spec
CONSTANTS
    Clients = {c1, c2, c3, c4}
    c1 = c1
    c2 = c2
    c3 = c3
    c4 = c4
    MaxFd = 6
    SubNums <- MCSubNums
    ListenMax = 2
    None = None
INVARIANTS
    ReusesTimeWait

CHECK_DEADLOCK FALSE
