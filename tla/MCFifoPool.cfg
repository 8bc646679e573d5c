CONSTANTS
    NumWorkers = 2
    Plain = {t1, t2}
    Foreign = {x1}
    IdleCalls = TRUE
    TaskMins = {0}
    RacingSubmit = FALSE
    Outlives = TRUE
    NoTask = NoTask
    MaxEvents = 2
SPECIFICATION FairSpec
CONSTRAINT FewEvents
INVARIANTS AtMostOnce JoinedBeforeReset NoStragglers
PROPERTIES AcceptedRuns ShutdownReturns
CHECK_DEADLOCK FALSE
