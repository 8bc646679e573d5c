SPECIFICATION ShmSpec
CHECK_DEADLOCK FALSE
CONSTANTS
    Sizes = {2, 3}
    Lengths = {0, 1, 2, 3}
    MaxBytes = 5
    SemMax = 2
    Deadly = {"truncate", "magic", "sem", "idle", "copy", "post"}
    MaxRestarts = 2
INVARIANT SizeMatches
