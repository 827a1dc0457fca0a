SPECIFICATION Spec
CONSTANTS
    Runners = {r1, r2}
    Commands = {c1, c2}
    Creator = creator
    Daemons = {d1}
    NoPid = NoPid
    AutoTerminate = FALSE
    StoreFailures = {"launch", "end"}
    MaxCrashes = 1
SYMMETRY Symmetry
INVARIANTS
    TypeOK
    RunningIsOwed
    PidHasOwner
    CompletedByExitZero
    UndisturbedAgentIsTracked
CHECK_DEADLOCK FALSE
