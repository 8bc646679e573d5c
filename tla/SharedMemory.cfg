SPECIFICATION ShmSpec
CHECK_DEADLOCK FALSE
CONSTANTS
    Sizes = {3}
    Lengths = {0, 1, 2, 3}
    MaxBytes = 7
    SemMax = 2
    Deadly = {"truncate", "magic", "sem", "idle", "copy", "post"}
    MaxRestarts = 3
INVARIANTS ReadsStream UnreadKept NoLostPost AttachedSound
PROPERTY WrittenIsRead
