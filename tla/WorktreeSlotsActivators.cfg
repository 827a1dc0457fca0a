SPECIFICATION Spec
CONSTANTS
    Sessions = {s1, s2}
    Daemons = {d1, d2}
    Users = {u1, u2}
    UserActs = {"stop", "delete"}
    MaxWorktrees = 1
    HeartbeatsLate = TRUE
    MaxCrashes = 0
SYMMETRY Symmetry
INVARIANTS
    TypeOK
    RunningAgentHasItsTree
    NoStrandedSession
PROPERTY RunsAtMostOnce
CHECK_DEADLOCK FALSE
