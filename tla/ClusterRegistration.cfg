SPECIFICATION FairSpec
CONSTANTS
    k = k
    u = u
    w = w
    c1 = c1
    c2 = c2
    s1 = s1
    s2 = s2
    certA = certA
    certB = certB
    alice = alice
    bob = bob
    Regs = {r1, r2}
    Clusters = {k}
    Users = {u, w}
    Contexts = {c1, c2}
    Servers = {s1, s2}
    Certs = {certA, certB}
    UserBodies = {alice, bob}
    Absent = Absent
    InitialFiles <- MCInitialFiles
INVARIANTS
    SuccessStays
PROPERTIES
    RetryIsHarmless
    OthersKeepTheirMeaning
    EveryoneIsAnswered
CHECK_DEADLOCK FALSE
