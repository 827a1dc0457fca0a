SPECIFICATION FairSpec
CONSTANTS
    Schedules = {1, 2}
    Requests = {1, 2, 3}
    Urgent = {2, 3}
    Targets = {g1}
    Workers = {w1}
    Cron <- EveryNth
    Limit = 2
    Horizon = 2
    MaxRows = 3
    MaxCrashes = 1
INVARIANTS
    StartedOncePerDue
    NoRunSkipped
PROPERTIES
    AnsweredOnce
    DueIsRun
    UntargetedIsAnswered
CHECK_DEADLOCK FALSE
