CONSTANTS
    NumWorkers = 1
    Plain = {}
    Foreign = {x1}
    IdleCalls = TRUE
    TaskMins = {}
    RacingSubmit = FALSE
    Outlives = FALSE
    NoTask = NoTask
    MaxEvents = 3
SPECIFICATION FairSpec
PROPERTY ShutdownAlwaysReturns
CHECK_DEADLOCK FALSE
