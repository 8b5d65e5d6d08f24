--------------------------- MODULE MCRpcConnection ---------------------------
(* Model-checking instance of RpcConnection.                               *)
EXTENDS RpcConnection

CONSTANTS a1, a2

\* Two clients: the second waits in the worker's queue while the first is
\* served, and is served only once the first connection's loop ends.
MCClients == {a1, a2}
=============================================================================
