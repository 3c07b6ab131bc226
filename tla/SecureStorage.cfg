SPECIFICATION Spec
CONSTANTS
    n1 = n1
    n2 = n2
    n3 = n3
    k1 = k1
    k2 = k2
    Namespaces <- MCNamespaces
    LocalKeys <- MCKeys
    Values = {v1, v2}
    NoValue = NoValue
    Torn = Torn
    NoOp = NoOp
    MaxNamespaces = 2
    MaxEntries = 1
    MaxLoads = 3
SYMMETRY Symmetry
INVARIANTS
    LimitsHold
    CapabilitiesOfThisPage
PROPERTIES
    ImplementsDurableMap
