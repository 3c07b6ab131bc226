SPECIFICATION Spec
CONSTANTS
    a = a
    b = b
    Clients <- TwoClients
    Keys = {k1}
    MaxConns = 2
    Conns <- MCConns
    None = None
    PingMayFail = FALSE
SYMMETRY Symmetry
INVARIANTS
    LastWordIsClosed
    SafeCloseIsComplete
PROPERTIES
    ClosedIsFinal
