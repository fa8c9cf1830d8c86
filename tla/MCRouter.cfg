SPECIFICATION Spec
CONSTANTS
    r1 = r1
    r2 = r2
    r3 = r3
    p1 = p1
    p2 = p2
    s1 = s1
    s2 = s2
    none = none
    Requests = {r1, r2}
    Backends <- MCBackends
    Healthy <- MCBackends
    Prefixes = {p1}
    Sessions = {s1, s2}
    NoKey = none
    NoBackend = NoBackend
    Headers <- MCHeaders
    TTL = 1
    Resets = {z1}
    MaxClock = 2
    QuietResets = FALSE
INVARIANTS
    ActiveCountsInFlight
    OneRowPerFinish
    ColdAffinityExplained
PROPERTIES
    RefinesPlacement
SYMMETRY Symmetric
CHECK_DEADLOCK FALSE
