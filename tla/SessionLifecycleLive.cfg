SPECIFICATION FairSpec
CONSTANTS
    Runners = {r1, r2}
    Commands = {c1}
    Creator = creator
    Daemons = {d1}
    NoPid = NoPid
    AutoTerminate = TRUE
    StoreFailures = {"launch", "end", "error"}
    MaxCrashes = 1
INVARIANT FailedAgentIsGone
PROPERTY LostRunnerIsNoticed
CHECK_DEADLOCK FALSE
