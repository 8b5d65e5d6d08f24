\* One worker, three connections, no allocation failure: an accepted
\* connection is left in the dispatch queue while ucp_worker_wait blocks.
CONSTANTS
    c1 = c1
    c2 = c2
    c3 = c3
    c4 = c4
    c5 = c5
    Conns <- MCConns3
    WorkerNum = 1
    NULL = NULL
    MaxCap = 8
    AllocMayFail = FALSE
SPECIFICATION Spec
PROPERTY EventuallyDispatched
CHECK_DEADLOCK FALSE
