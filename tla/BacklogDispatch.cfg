SPECIFICATION Spec
CONSTANTS
    Sessions = {l1, s1, s2}
    Leads = {l1}
    Tasks = {t1, t2}
    Dispatchers = {p1}
    MaxParallel = 2
    LeadLimit = 3
    Limit = 2
    Rebalancing = TRUE
    SpawnFails = TRUE
    UserActs = {"resume", "delete", "assign", "read", "send"}
    MaxCrashes = 1
INVARIANTS
    TaskNotLost
    PassedOnOnce
CHECK_DEADLOCK FALSE
