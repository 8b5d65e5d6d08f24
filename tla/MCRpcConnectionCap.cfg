\* A client sending more requests than the loop cap (3 against 2): does it still finish?
CONSTANTS
    a1 = a1
    a2 = a2
    Clients <- MCClients
    MsgCnt = 3
    MaxMsgCnt = 2
    HandlerInstalled = TRUE
    NULL = NULL
SPECIFICATION Spec
PROPERTY ClientsFinish
CHECK_DEADLOCK FALSE
