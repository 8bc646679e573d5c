CONSTANTS
    Msgs = {m1, m2}
    Throwing = {m1}
    Threads = {t1, t2}
    Cap = 2
    BatchSize = 2
    PoolMayStop = FALSE
SPECIFICATION FairSpec
PROPERTIES AcceptedHandled
CHECK_DEADLOCK FALSE
