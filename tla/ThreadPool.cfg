SPECIFICATION FairSpec
CONSTANTS
    w1 = w1
    w2 = w2
    w3 = w3
    k1 = k1
    k2 = k2
    k3 = k3
    k4 = k4
    Workers <- MCWorkers
    Tasks <- MCTasks
    Endless <- MCEndless
    Owner = Owner
    None = None
INVARIANTS
    TypeOK
    WakeupsSuffice
    DestructorSettles
PROPERTIES
    ImplementsQueue
    Started
    JoinReturns
CHECK_DEADLOCK FALSE
