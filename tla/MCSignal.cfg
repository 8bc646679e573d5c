CONSTANTS
    plain = plain
    shot = shot
    Conns = {plain, shot}
    Single = {shot}
    Unique = {plain, shot}
    SameSlot <- SameSlotPairs
    Emissions = {e1, e2}
    Mutex = Mutex
    All = All
SPECIFICATION Spec
SYMMETRY Symmetry
INVARIANTS ClaimedOnce Delivered NotCalledAfterDisconnect
CHECK_DEADLOCK FALSE
