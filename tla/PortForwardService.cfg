SPECIFICATION FairSpec
CONSTANTS
    Starters = {s1}
    Users = {u1}
    MaxChans = 4
    Chans <- MCChans
    Nil = Nil
    ServiceBacked = TRUE
INVARIANTS
    ForwardersAreHeld
    StartingIsPrivate
PROPERTIES
    ReconnectingEnds
