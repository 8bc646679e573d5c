CONSTANTS
    Nodes = {1, 2, 3}
    MaxEdges = 3
    MaxCopies = 2
    MaxRuns = 1
    RerunNodes = 3
    RunWhenQuiet = TRUE
SPECIFICATION Spec
CONSTRAINT Named
INVARIANTS OnlyDependentsBlocked
CHECK_DEADLOCK FALSE
