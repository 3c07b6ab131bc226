SPECIFICATION FairSpec
CONSTANTS
    c1 = c1
    c2 = c2
    t1 = t1
    t2 = t2
    cluster = cluster
    clusterOfUser = clusterOfUser
    Callers = {c1, c2}
    Contexts <- MCContexts
    Tokens = {t1, t2}
    Credentials <- MCCredentials
    Extends <- MCExtends
    Nil = Nil
    Error = Error
    MaxEvictions = 1
INVARIANTS
    SingleFlight
    OwnClientset
    BlockedNotCached
PROPERTIES
    CallsReturn
