\* Two workers, three connections: is the k-th accepted connection given to
\* worker (k - 1) mod 2?
CONSTANTS
    c1 = c1
    c2 = c2
    c3 = c3
    c4 = c4
    c5 = c5
    Conns <- MCConns3
    WorkerNum = 2
    NULL = NULL
    MaxCap = 8
    AllocMayFail = FALSE
SPECIFICATION Spec
INVARIANT RoundRobin
CHECK_DEADLOCK FALSE
