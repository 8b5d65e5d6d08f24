------------------------------- MODULE MCRpc -------------------------------
(***************************************************************************)
(* The two halves of the server in one model: the connection hand-off     *)
(* (RpcDispatch) and the serving of connections by a worker together with *)
(* the clients (RpcConnection).  Init picks which half the behaviour      *)
(* exercises; the other keeps its initial state.  Fairness is asserted   *)
(* only for the actions of the half being exercised.                      *)
(***************************************************************************)
EXTENDS Naturals

CONSTANTS c1, c2, c3, c4, c5, a1, a2, NULL

VARIABLES
    which,
    d_pending, d_request_cnt, d_magic, d_dqueue, d_dcap, d_rpc_pc, d_rpc_conn,
    d_rpc_idx, d_mem, d_qptr, d_freed, d_sem, d_wpc, d_wread, d_accepted,
    d_dispatched, d_taken,
    x_queue, x_wpc, x_conn, x_msgi, x_body, x_sep, x_cache, x_freed, x_uaf,
    x_c2s, x_s2c, x_cpc, x_csent, x_cresp, x_cfail, x_gone

dispatch_vars == <<d_pending, d_request_cnt, d_magic, d_dqueue, d_dcap,
                   d_rpc_pc, d_rpc_conn, d_rpc_idx, d_mem, d_qptr, d_freed,
                   d_sem, d_wpc, d_wread, d_accepted, d_dispatched, d_taken>>
connection_vars == <<x_queue, x_wpc, x_conn, x_msgi, x_body, x_sep, x_cache,
                     x_freed, x_uaf, x_c2s, x_s2c, x_cpc, x_csent, x_cresp,
                     x_cfail, x_gone>>
all_vars == <<which, dispatch_vars, connection_vars>>

Parts == {"dispatch", "connection"}

\* The hand-off: one worker and five clients, so that the worker's ring
\* fills (three of four slots) and the fourth append reallocs while the
\* worker may be inside del_first, and the fifth request wakes the run
\* thread from ucp_worker_wait; every allocation may fail.
D == INSTANCE RpcDispatch WITH
        Conns <- {c1, c2, c3, c4, c5}, WorkerNum <- 1, MaxCap <- 8,
        AllocMayFail <- TRUE,
        pending <- d_pending, request_cnt <- d_request_cnt, magic <- d_magic,
        dqueue <- d_dqueue, dcap <- d_dcap, rpc_pc <- d_rpc_pc,
        rpc_conn <- d_rpc_conn, rpc_idx <- d_rpc_idx, mem <- d_mem,
        qptr <- d_qptr, freed <- d_freed, sem <- d_sem, wpc <- d_wpc,
        wread <- d_wread, accepted <- d_accepted, dispatched <- d_dispatched,
        taken <- d_taken

\* Serving: two clients of one worker, each sending two requests, and a
\* loop cap of two, so that the first loop ends by reaching it exactly
\* while the second client waits in the worker's queue.
X == INSTANCE RpcConnection WITH
        Clients <- {a1, a2}, MsgCnt <- 2, MaxMsgCnt <- 2,
        HandlerInstalled <- TRUE,
        queue <- x_queue, wpc <- x_wpc, conn <- x_conn, msgi <- x_msgi,
        body <- x_body, sep <- x_sep, cache <- x_cache, freed <- x_freed,
        uaf <- x_uaf, c2s <- x_c2s, s2c <- x_s2c, cpc <- x_cpc,
        csent <- x_csent, cresp <- x_cresp, cfail <- x_cfail, gone <- x_gone

Init == which \in Parts /\ D!Init /\ X!Init

Next ==
    \/ which = "dispatch" /\ D!Next /\ UNCHANGED <<which, connection_vars>>
    \/ which = "connection" /\ X!Next /\ UNCHANGED <<which, dispatch_vars>>

\* RpcConnection's fairness, for the behaviours that exercise it (in those
\* only the connection half's variables change).
ConnectionFairness ==
    /\ WF_connection_vars(which = "connection" /\ X!WorkerTake)
    /\ WF_connection_vars(which = "connection" /\ X!WorkerRecv)
    /\ WF_connection_vars(which = "connection" /\ X!WorkerRecvDone)
    /\ WF_connection_vars(which = "connection" /\ X!WorkerRecvFail)
    /\ WF_connection_vars(which = "connection" /\ X!WorkerRespond)
    /\ WF_connection_vars(which = "connection" /\ X!WorkerSendDone)
    /\ \A c \in {a1, a2} :
          /\ WF_connection_vars(which = "connection" /\ X!ClientConnect(c))
          /\ WF_connection_vars(which = "connection" /\ X!ClientSend(c))
          /\ WF_connection_vars(which = "connection" /\ X!ClientRecv(c))
          /\ WF_connection_vars(which = "connection" /\ X!ClientDeinit(c))

Spec == Init /\ [][Next]_all_vars /\ ConnectionFairness

-----------------------------------------------------------------------------
(* The properties of each half, as its module states them.                *)

DispatchTypeOK == D!TypeOK
\* accept_cb and rpc_server_run both increment request_cnt; the ids that
\* accept_cb hands out must still be distinct (they form the cache key),
\* whatever allocation fails (RpcDispatch!IdsUnique).
IdsUnique == D!IdsUnique

ConnectionTypeOK == X!TypeOK
\* Every answer a client receives is the reply to its own request of the
\* same position (RpcConnection!ResponsesMatchRequests).
ResponsesMatchRequests == X!ResponsesMatchRequests
\* Every client's calls return and it reaches rpc_client_deinit
\* (RpcConnection!ClientsFinish), in the behaviours that serve clients.
ClientsFinish ==
    \A c \in {a1, a2} : <>(which = "dispatch" \/ x_cpc[c] = "done")
=============================================================================
