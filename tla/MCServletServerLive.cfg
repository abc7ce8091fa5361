SPECIFICATION LeavingSpec
CONSTANTS
    Main = Main
    None = None
    w1 = w1
    c1 = c1
    c2 = c2
    c3 = c3
    s1 = s1
    s2 = s2
    Workers <- MCWorkers
    Clients <- MCClients
    Signals <- MCOneSignal
    FdLimit = 2
    ReadTimeout = FALSE
PROPERTIES
    ShutdownCompletes
    QueuedIsServed
CHECK_DEADLOCK FALSE
