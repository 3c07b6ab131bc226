SPECIFICATION Spec
CONSTANTS
    Uses = {u1}
    Clusters = {c1}
    Settings = {dep}
    WithServers = {dep}
    Dependent = {dep}
    NoCluster = NoCluster
    MaxMutations = 2
INVARIANTS
    CleanupLeavesNoOrphan
CHECK_DEADLOCK FALSE
