SPECIFICATION FairSpec
CONSTANTS
    Sessions = {s1, s2}
    Daemons = {d1}
    Users = {u1}
    UserActs = {"stop", "resume", "delete"}
    MaxWorktrees = 1
    HeartbeatsLate = FALSE
    MaxCrashes = 1
PROPERTIES
    SlotsReclaimed
    QueueServed
CHECK_DEADLOCK FALSE
