CONSTANTS
    Msgs = {m1, m2, m3}
    Throwing = {}
    Threads = {t1, t2}
    Cap = 2
    BatchSize = 2
    PoolMayStop = TRUE
SPECIFICATION FairSpec
INVARIANTS OneAtATime InOrder AliveAnswer
PROPERTIES AcceptedHandled
CHECK_DEADLOCK FALSE
