\* Is a connection gone from the cache once its error handler has run?
CONSTANTS
    a1 = a1
    a2 = a2
    Clients <- MCClients
    MsgCnt = 2
    MaxMsgCnt = 2
    HandlerInstalled = TRUE
    NULL = NULL
SPECIFICATION Spec
INVARIANT CacheCleanupOnError
CHECK_DEADLOCK FALSE
