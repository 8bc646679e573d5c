CONSTANTS
    plain = plain
    shot = shot
    Conns = {shot}
    Single = {shot}
    Unique = {}
    SameSlot <- SameSlotPairs
    Emissions = {e1, e2}
    Mutex = Mutex
    All = All
SPECIFICATION Spec
SYMMETRY Symmetry
INVARIANTS SingleShotOnce
CHECK_DEADLOCK FALSE
