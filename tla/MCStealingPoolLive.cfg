CONSTANTS
    NumWorkers = 2
    Plain = {t1, t2}
    Foreign = {}
    IdleCalls = FALSE
    TaskMins = {0}
    RacingSubmit = FALSE
    Outlives = TRUE
    NoTask = NoTask
    MaxEvents = 3
    Cap = 1
    Modulus = 16
SPECIFICATION FairSpec
INVARIANTS AtMostOnce
PROPERTIES AcceptedRuns ShutdownReturns
CHECK_DEADLOCK FALSE
