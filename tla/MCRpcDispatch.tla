---------------------------- MODULE MCRpcDispatch ----------------------------
(* Model-checking instance of RpcDispatch.                                 *)
EXTENDS RpcDispatch

CONSTANTS c1, c2, c3, c4, c5

\* Four connections: enough for a worker queue to fill its 4-slot ring
\* (three elements) while the worker is between the two halves of its
\* del_first, so that the fourth append reallocs under it.
MCConns4 == {c1, c2, c3, c4}
\* A fifth client, whose request wakes the run thread out of
\* ucp_worker_wait once the four are queued.
MCConns5 == {c1, c2, c3, c4, c5}
\* Three connections, for the two-worker runs.
MCConns3 == {c1, c2, c3}
=============================================================================
