\* One worker, four connections: does the worker take exactly what the run
\* thread appended to its lock-free queue?
CONSTANTS
    c1 = c1
    c2 = c2
    c3 = c3
    c4 = c4
    c5 = c5
    Conns <- MCConns5
    WorkerNum = 1
    NULL = NULL
    MaxCap = 8
    AllocMayFail = FALSE
SPECIFICATION Spec
INVARIANT HandoffInOrder
CHECK_DEADLOCK FALSE
