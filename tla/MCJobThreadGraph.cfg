CONSTANTS
    Nodes = {1, 2, 3}
    MaxEdges = 3
    MaxCopies = 2
    MaxRuns = 2
    RerunNodes = 2
    RunWhenQuiet = TRUE
SPECIFICATION FairSpec
CONSTRAINT Named
INVARIANTS DependencyOrder OncePerRun FutureTells
PROPERTIES RunResolves
CHECK_DEADLOCK FALSE
