SPECIFICATION TokenSpec
CONSTANTS
    c1 = c1
    c2 = c2
    tokenFile = tokenFile
    Callers <- MCCallers
    Paths <- MCPaths
    NoToken = NoToken
    NoEntry = NoEntry
    MaxTime = 3
    MaxSerial = 4
SYMMETRY Symmetry
INVARIANTS
    NeverStale
