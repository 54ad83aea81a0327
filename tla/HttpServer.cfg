SPECIFICATION FairSpec
CONSTANTS
    w1 = w1
    w2 = w2
    f1 = f1
    f2 = f2
    f3 = f3
    NoFd = NoFd
    NoOne = NoOne
    Worker = {w1, w2}
    Fd = {f1, f2, f3}
    MaxClients = 2
    MaxArrivals = 3
CHECK_DEADLOCK FALSE
INVARIANTS
    ClientsAreOpen
    OneOwner
    NothingIsLeft
PROPERTIES
    ClientsAreServed
    StopEnds
