SPECIFICATION Spec
CHECK_DEADLOCK FALSE
CONSTANTS
    Loops <- MCIo
    Tasks = {"high", "low"}
    Prio <- MCPrio
    Timers = {"once", "again"}
    Interval <- MCInterval
    Repeating = {"again"}
    FDs = {"fd"}
    MaxData = 1
    Batch = 1
    Heartbeat = 1
    MaxTime = 2
    Never = 5
    Stop = "stop"
    NoTask = "wake"
PROPERTY IoTimerFires
