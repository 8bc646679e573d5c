CONSTANTS
    NumWorkers = 2
    Plain = {t1, t2, t3}
    Foreign = {x1}
    IdleCalls = TRUE
    TaskMins = {0}
    RacingSubmit = FALSE
    Outlives = TRUE
    NoTask = NoTask
    MaxEvents = 3
    Cap = 1
    Modulus = 16
SPECIFICATION Spec
SYMMETRY Symmetry
CONSTRAINT FewEvents
INVARIANTS SizeAccounting TokenCoverage
CHECK_DEADLOCK FALSE
