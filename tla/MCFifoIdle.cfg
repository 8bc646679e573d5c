CONSTANTS
    NumWorkers = 1
    Plain = {t1}
    Foreign = {}
    IdleCalls = TRUE
    TaskMins = {}
    RacingSubmit = FALSE
    Outlives = FALSE
    NoTask = NoTask
    MaxEvents = 3
SPECIFICATION Spec
INVARIANT IdleMeansDone
CHECK_DEADLOCK FALSE
