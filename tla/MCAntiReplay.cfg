SPECIFICATION Spec
CONSTANTS
    t1 = t1
    t2 = t2
    Threads <- MCThreads
    Window = 3
    MaxGen = 3
    MaxClock = 6
SYMMETRY Symmetry
INVARIANTS TypeOK AtMostOnce NoFalseDrop UniqueCounters RestartHeard
