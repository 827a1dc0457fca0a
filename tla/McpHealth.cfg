SPECIFICATION Spec
CONSTANTS
    s1 = s1
    c1 = c1
    c2 = c2
    Server = {s1}
    Call = {c1, c2}
    Target <- OneServer
    TTL = 2
    Base = 1
    MaxBackoff = 2
    MaxProbe = 1
PROPERTIES
    VerdictsAreRecent
    ServedAgain
