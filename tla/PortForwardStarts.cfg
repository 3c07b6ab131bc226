SPECIFICATION Spec
CONSTANTS
    Starters = {s1, s2}
    Users = {u1}
    MaxChans = 4
    Chans <- MCChans
    Nil = Nil
    ServiceBacked = FALSE
INVARIANTS
    StartsAreExclusive
