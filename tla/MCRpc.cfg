\* The hand-off and the serving of connections, under the bounds in
\* MCRpc.tla.  Deadlock is not checked: a crash stops every thread, and
\* the run thread blocks in ucp_worker_wait once no client is left.
CONSTANTS
    c1 = c1
    c2 = c2
    c3 = c3
    c4 = c4
    c5 = c5
    a1 = a1
    a2 = a2
    NULL = NULL
SPECIFICATION Spec
INVARIANT DispatchTypeOK
INVARIANT IdsUnique
INVARIANT ConnectionTypeOK
INVARIANT ResponsesMatchRequests
PROPERTY ClientsFinish
CHECK_DEADLOCK FALSE
