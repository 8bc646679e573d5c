SPECIFICATION HttpSpec
CHECK_DEADLOCK FALSE
CONSTANTS
    LineBufferSize = 3
    MaxHeaderFields = 2
    MaxTrailerFields = 1
    Replies <- MCSized
    RequestSize = 2
    SendBuffer = 1
    BufferSize = 4
    EarlyReply = TRUE
    MaxRequests = 2
    MaxTasks = 2
INVARIANT GoodReplySucceeds
