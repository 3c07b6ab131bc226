SPECIFICATION FairSpec
CONSTANTS
    Uses = {u1, u2}
    Clusters = {c1}
    Settings = {off, dep}
    WithServers = {dep}
    Dependent = {dep}
    NoCluster = NoCluster
    MaxMutations = 3
INVARIANTS
    TypeOK
    NoOrphanUnlessRaced
    ClientIsCurrent
    CleanupIsComplete
PROPERTIES
    MutationsEnd
    UsesAreAnswered
CHECK_DEADLOCK FALSE
