\* Does the worker touch a connection after the error handler freed it?
CONSTANTS
    a1 = a1
    a2 = a2
    Clients <- MCClients
    MsgCnt = 2
    MaxMsgCnt = 2
    HandlerInstalled = TRUE
    NULL = NULL
SPECIFICATION Spec
INVARIANT NoUseAfterFree
CHECK_DEADLOCK FALSE
