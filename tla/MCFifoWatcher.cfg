CONSTANTS
    NumWorkers = 1
    Plain = {t1}
    Foreign = {}
    IdleCalls = TRUE
    TaskMins = {}
    RacingSubmit = FALSE
    Outlives = TRUE
    NoTask = NoTask
    MaxEvents = 3
SPECIFICATION FairSpec
PROPERTY AcceptedAlwaysRuns
CHECK_DEADLOCK FALSE
