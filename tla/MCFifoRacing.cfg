CONSTANTS
    NumWorkers = 2
    Plain = {t1, t2}
    Foreign = {x1}
    IdleCalls = TRUE
    TaskMins = {}
    RacingSubmit = TRUE
    Outlives = TRUE
    NoTask = NoTask
    MaxEvents = 3
SPECIFICATION Spec
SYMMETRY Symmetry
INVARIANTS TypeOK AtMostOnce TokenCoverage JoinedBeforeReset IdleDrained
CHECK_DEADLOCK FALSE
