CONSTANTS
    Nodes = {1, 2, 3}
    MaxEdges = 2
    MaxCopies = 1
    MaxRuns = 2
    RerunNodes = 3
    RunWhenQuiet = FALSE
SPECIFICATION Spec
CONSTRAINT Named
INVARIANTS DependencyOrder
CHECK_DEADLOCK FALSE
