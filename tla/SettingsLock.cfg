SPECIFICATION LockSpec
CONSTANTS
    p1 = p1
    p2 = p2
    p3 = p3
    e1 = e1
    Proc = {p1, p2, p3}
    Edit = {e1}
    None = None
    MaxAttempts = 2
SYMMETRY Interchangeable
CONSTRAINT OnceWrong
CHECK_DEADLOCK FALSE
INVARIANTS
    LockTypeOK
    MutualExclusion
    NothingIsLost
