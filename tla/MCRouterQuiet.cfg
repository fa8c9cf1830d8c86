SPECIFICATION FairSpec
CONSTANTS
    r1 = r1
    r2 = r2
    r3 = r3
    p1 = p1
    p2 = p2
    s1 = s1
    s2 = s2
    none = none
    Requests = {r1, r2, r3}
    Backends <- MCBackends
    Healthy <- MCBackends
    Prefixes = {p1}
    Sessions = {s1, s2}
    NoKey = none
    NoBackend = NoBackend
    Headers <- MCAffinityHeaders
    TTL = 1
    Resets = {z1}
    MaxClock = 0
    QuietResets = TRUE
INVARIANTS
    AffinityIsWarm
PROPERTIES
    PlacedIsTraced
CHECK_DEADLOCK FALSE
