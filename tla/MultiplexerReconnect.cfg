SPECIFICATION FairSpec
CONSTANTS
    a = a
    b = b
    Clients = {a}
    Keys = {k1}
    MaxConns = 2
    Conns <- MCConns
    None = None
    PingMayFail = TRUE
INVARIANTS
    OpenIsMonitored
PROPERTIES
    GoroutinesEnd
    DepartureCompletes
    ClosedLeavesMap
