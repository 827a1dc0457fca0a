SPECIFICATION CycleFairSpec
CONSTANTS
    Daemon = d1
    Sessions = {l1, s1, s2, s3}
    Leads = {l1}
    Tasks = {t1, t2, t3}
    Dispatchers = {d1}
    MaxParallel = 2
    LeadLimit = 1
    Limit = 1
    Rebalancing = TRUE
    SpawnFails = FALSE
    UserActs = {"send"}
    MaxCrashes = 1
INVARIANTS
    StreakMeansSaturation
    TeamLimit
PROPERTY ServedOutsideCooloff
CHECK_DEADLOCK FALSE
