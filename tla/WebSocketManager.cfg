SPECIFICATION FairSpec
CONSTANTS
    pod = pod
    pods = pods
    path = path
    h1 = h1
    h2 = h2
    l1 = l1
    Keys <- MCKeys
    Paths = {path}
    PathOf <- MCPathOf
    Subs <- MCSubs
    KeyOf <- MCKeyOf
    KindOf <- MCKindOf
    Callbacks = {h1, l1}
    CallbackOf <- MCCallbackOf
    MaxSockets = 3
INVARIANTS
    NothingLingers
    HeardIsResumed
PROPERTIES
    SubscribeSettles
    UnheardIsWithdrawn
CHECK_DEADLOCK FALSE
