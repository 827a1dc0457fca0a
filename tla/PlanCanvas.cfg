SPECIFICATION Spec
CONSTANTS
    i1 = i1
    i2 = i2
    c1 = c1
    c2 = c2
    s1 = s1
    s2 = s2
    Items = {i1, i2}
    Clients = {c1, c2}
    Servers = {s1, s2}
    MaxReported = 1
    HookAtStart = FALSE
    LatePosts = FALSE
SYMMETRY Interchangeable
INVARIANTS
    NoLostWakeUp
    HandedOnce
    Accounted
    ShownIsTrue
