SPECIFICATION Spec
CHECK_DEADLOCK FALSE
CONSTANTS
    Loops <- MCLoops
    Tasks = {"high", "low"}
    Prio <- MCPrio
    Timers = {"once", "again"}
    Interval <- MCInterval
    Repeating = {"again"}
    FDs = {"fd"}
    MaxData = 1
    Batch = 1
    Heartbeat = 2
    MaxTime = 2
    Never = 5
    Stop = "stop"
    NoTask = "wake"
INVARIANTS TimerDiscipline TimersShortenSleep QueuedMeansAwake
PROPERTIES PostedRuns ArrivalsServed StopReturns
