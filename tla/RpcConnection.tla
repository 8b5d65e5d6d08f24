---------------------------- MODULE RpcConnection ----------------------------
(***************************************************************************)
(* One server worker thread serving the connections handed to it, and the  *)
(* clients at the other end (src/rpc/rpc_server.c, rpc_tcp_protocol.c,    *)
(* rpc_client.c).                                                          *)
(*                                                                         *)
(* Worker, per connection (rpc_server_thread_func): put the connection in  *)
(* connection_cache, create a data worker and a server endpoint whose      *)
(* error handler is rpc_server_tcp_err_cb(connection); on failure go back  *)
(* to sem_wait; else loop at most max_msg_cnt times: receive one request   *)
(* (rpc_tcp_recv), answer it (rpc_server_do_response: the handler's reply, *)
(* or the request itself when none is installed, sent with rpc_tcp_send),  *)
(* and stop at the first receive that fails.  The send's result is         *)
(* ignored.  rpc_wait_complete spins on ucp_worker_progress of the         *)
(* connection's own data worker, so the error handler runs only there,     *)
(* inside a pending receive or send; it force-closes the endpoint and      *)
(* frees the connection, but leaves its cache entry.                       *)
(*                                                                         *)
(* Client (rpc_client_thread_func): connect, then MsgCnt times send a      *)
(* request and receive the answer, then rpc_client_deinit force-closes     *)
(* the endpoint.  A client may also vanish at any point.                   *)
(*                                                                         *)
(* The hand-off of connections to this worker is the FIFO queue that      *)
(* RpcDispatch examines; here it is assumed to work.  A stream carries     *)
(* whole fixed-size messages (UCP_STREAM_RECV_FLAG_WAITALL of a            *)
(* RPC_BODY_MSG_MAX_CAP buffer), so a channel is a sequence of messages.   *)
(***************************************************************************)
EXTENDS Integers, Sequences, SequencesExt

CONSTANTS
    Clients,           \* client threads, one connection each (model values)
    MsgCnt,            \* requests each client sends (thd->cnt)
    MaxMsgCnt,         \* max_msg_cnt of the worker loop (1024 in the code)
    HandlerInstalled,  \* rpc_server_set_msg_handle was called before run
    NULL

ASSUME MsgCnt \in Nat \ {0} /\ MaxMsgCnt \in Nat \ {0}
ASSUME HandlerInstalled \in BOOLEAN

\* The k-th request of client c; the body rpc_body_init(NULL) zero-fills.
Request(c, k) == <<c, k>>
Zero == <<NULL, 0>>
\* The installed handler's transformation (the demo upper-cases).
Handle(m) == <<m[1], -m[2]>>
\* rpc_server_do_response: the handler's output, or the request echoed.
Reply(m) == IF HandlerInstalled THEN Handle(m) ELSE m

VARIABLES
    queue,    \* connections handed to this worker, not yet taken
    wpc,      \* worker: "wait", "recv", "recv_wait", "respond", "send_wait"
    conn,     \* the connection the worker is serving
    msgi,     \* i, the loop counter
    body,     \* the request buffer of the current iteration
    sep,      \* sep[c]: server endpoint: "none", "open" or "closed"
    cache,    \* connection_cache: connections with an entry
    freed,    \* connection records released by the error handler
    uaf,      \* history: the worker read a freed connection record
    c2s,      \* c2s[c]: requests in the stream to the server
    s2c,      \* s2c[c]: answers in the stream to the client
    cpc,      \* client: "idle", "send", "recv", "deinit", "done"
    csent,    \* requests the client has sent
    cresp,    \* answers the client has received, in order
    cfail,    \* the client's endpoint has failed
    gone      \* the client's side of the connection is closed

vars == <<queue, wpc, conn, msgi, body, sep, cache, freed, uaf,
          c2s, s2c, cpc, csent, cresp, cfail, gone>>
worker == <<queue, wpc, conn, msgi, body, sep, cache, freed, uaf>>

Msgs == {Request(c, k) : c \in Clients, k \in 1 .. MsgCnt}
        \cup {Handle(Request(c, k)) : c \in Clients, k \in 1 .. MsgCnt}

TypeOK ==
    /\ queue \in Seq(Clients)
    /\ wpc \in {"wait", "recv", "recv_wait", "respond", "send_wait"}
    /\ conn \in Clients \cup {NULL}
    /\ msgi \in 0 .. MaxMsgCnt
    /\ body \in Msgs \cup {Zero}
    /\ sep \in [Clients -> {"none", "open", "closed"}]
    /\ cache \subseteq Clients /\ freed \subseteq Clients
    /\ uaf \in BOOLEAN
    /\ c2s \in [Clients -> Seq(Msgs)] /\ s2c \in [Clients -> Seq(Msgs)]
    /\ cpc \in [Clients -> {"idle", "send", "recv", "deinit", "done"}]
    /\ csent \in [Clients -> 0 .. MsgCnt]
    /\ cresp \in [Clients -> Seq(Msgs)]
    /\ cfail \in [Clients -> BOOLEAN] /\ gone \in [Clients -> BOOLEAN]

Init ==
    /\ queue = <<>> /\ wpc = "wait" /\ conn = NULL /\ msgi = 0 /\ body = Zero
    /\ sep = [c \in Clients |-> "none"]
    /\ cache = {} /\ freed = {} /\ uaf = FALSE
    /\ c2s = [c \in Clients |-> <<>>] /\ s2c = [c \in Clients |-> <<>>]
    /\ cpc = [c \in Clients |-> "idle"] /\ csent = [c \in Clients |-> 0]
    /\ cresp = [c \in Clients |-> <<>>]
    /\ cfail = [c \in Clients |-> FALSE] /\ gone = [c \in Clients |-> FALSE]

-----------------------------------------------------------------------------
(* The worker thread.                                                      *)

\* The end of one do-while iteration: i++ and the test i < max_msg_cnt.
NextIteration ==
    /\ msgi' = msgi + 1
    /\ wpc' = IF msgi + 1 < MaxMsgCnt THEN "recv" ELSE "wait"

\* rpc_server_traverse_cache_handle: build the key, stl_dict_get it (the
\* entry stays), force-close the endpoint and free the connection.
rpc_server_traverse_cache_handle(c) ==
    /\ sep' = [sep EXCEPT ![c] = "closed"]
    /\ freed' = freed \cup {c}

\* rpc_server_tcp_err_cb: the handler above on its argument, then a log line.
rpc_server_tcp_err_cb(c) == rpc_server_traverse_cache_handle(c)

\* sem_wait and del_first, then: set connection->thread, stl_dict_put the
\* connection, rpc_init_worker, rpc_create_server_endpoint.  If the
\* endpoint cannot be created the thread goes back to sem_wait: the
\* connection stays cached and its request is never answered, which the
\* client's transport reports as a failed connection.
WorkerTake ==
    LET c == Head(queue) IN
    /\ wpc = "wait"
    /\ queue # <<>>
    /\ queue' = Tail(queue)
    /\ conn' = c
    /\ cache' = cache \cup {c}
    /\ \/ /\ sep' = [sep EXCEPT ![c] = "open"]
          /\ wpc' = "recv" /\ msgi' = 0
          /\ UNCHANGED cfail
       \/ /\ cfail' = [cfail EXCEPT ![c] = TRUE]
          /\ UNCHANGED <<sep, wpc, msgi>>
    /\ UNCHANGED <<body, freed, uaf, c2s, s2c, cpc, csent, cresp, gone>>

\* Mutant of WorkerRecv: a pending receive not waited for, the zero-filled
\* body answered at once.
WorkerRecvNoWait ==
    /\ wpc = "recv"
    /\ uaf' = (uaf \/ conn \in freed)
    /\ \/ /\ sep[conn] = "closed"
          /\ wpc' = "wait"
          /\ UNCHANGED <<body, c2s>>
       \/ /\ sep[conn] = "open" /\ c2s[conn] # <<>>
          /\ body' = Head(c2s[conn])
          /\ c2s' = [c2s EXCEPT ![conn] = Tail(@)]
          /\ wpc' = "respond"
       \/ /\ sep[conn] = "open" /\ c2s[conn] = <<>>
          /\ body' = Zero
          /\ wpc' = "respond"
          /\ UNCHANGED c2s
    /\ UNCHANGED <<queue, conn, msgi, sep, cache, freed, s2c, cpc, csent,
                   cresp, cfail, gone>>

\* rpc_server_do_request -> tcp_server_recv: rpc_body_init zero-fills the
\* body, ucp_stream_recv_nbx on connection->server_ep.  It completes at
\* once when a whole request is buffered, fails at once on an endpoint
\* the error handler closed, and otherwise returns a pending request.
\* Reading connection->ucp_data_worker and ->server_ep is a use of the
\* record even when the error handler has freed it.
WorkerRecv ==
    /\ wpc = "recv"
    /\ uaf' = (uaf \/ conn \in freed)
    /\ \/ /\ sep[conn] = "closed"
          /\ wpc' = "wait"
          /\ UNCHANGED <<body, c2s>>
       \/ /\ sep[conn] = "open" /\ c2s[conn] # <<>>
          /\ body' = Head(c2s[conn])
          /\ c2s' = [c2s EXCEPT ![conn] = Tail(@)]
          /\ wpc' = "respond"
       \/ /\ sep[conn] = "open" /\ c2s[conn] = <<>>
          /\ body' = Zero
          /\ wpc' = "recv_wait"
          /\ UNCHANGED c2s
    /\ UNCHANGED <<queue, conn, msgi, sep, cache, freed, s2c, cpc, csent,
                   cresp, cfail, gone>>

\* rpc_wait_complete spinning on ucp_worker_progress: the request arrives,
\* rpc_server_tcp_recv_cb sets complete, the status is UCS_OK.
WorkerRecvDone ==
    /\ wpc = "recv_wait"
    /\ c2s[conn] # <<>>
    /\ body' = Head(c2s[conn])
    /\ c2s' = [c2s EXCEPT ![conn] = Tail(@)]
    /\ wpc' = "respond"
    /\ UNCHANGED <<queue, conn, msgi, sep, cache, freed, uaf, s2c, cpc,
                   csent, cresp, cfail, gone>>

\* Mutant of WorkerRecvFail: the failed receive's status ignored and the
\* loop receiving again.
WorkerRecvFailIgnored ==
    /\ wpc = "recv_wait"
    /\ gone[conn] /\ c2s[conn] = <<>>
    /\ \/ rpc_server_tcp_err_cb(conn)
       \/ UNCHANGED <<sep, freed>>
    /\ wpc' = "recv"
    /\ UNCHANGED <<queue, conn, msgi, body, cache, uaf, c2s, s2c, cpc, csent,
                   cresp, cfail, gone>>

\* The same spin when the client has gone: progress detects the failure;
\* the error handler may run (the server endpoint is created without an
\* error-handling mode, so UCX need not call it) and the request ends in
\* error.  tcp_server_recv returns it, the loop breaks.
WorkerRecvFail ==
    /\ wpc = "recv_wait"
    /\ gone[conn] /\ c2s[conn] = <<>>
    /\ \/ rpc_server_tcp_err_cb(conn)
       \/ UNCHANGED <<sep, freed>>
    /\ wpc' = "wait"
    /\ UNCHANGED <<queue, conn, msgi, body, cache, uaf, c2s, s2c, cpc, csent,
                   cresp, cfail, gone>>

\* rpc_server_do_response: out is the handler's reply or the body itself;
\* rpc_tcp_send either completes at once (the bytes are in the transport,
\* lost if the client has gone) or returns a pending request.  Its result
\* is dropped and do_response returns 0, so an immediate send ends the
\* iteration successfully.
WorkerRespond ==
    /\ wpc = "respond"
    /\ \/ /\ s2c' = IF gone[conn] THEN s2c
                    ELSE [s2c EXCEPT ![conn] = Append(@, Reply(body))]
          /\ NextIteration
       \/ /\ wpc' = "send_wait"
          /\ UNCHANGED <<s2c, msgi>>
    /\ UNCHANGED <<queue, conn, body, sep, cache, freed, uaf, c2s, cpc, csent,
                   cresp, cfail, gone>>

\* The send's rpc_wait_complete: the answer is delivered, or the client
\* has gone and the request fails, the error handler possibly freeing the
\* connection on the way.  Either way the iteration counts as a success.
WorkerSendDone ==
    /\ wpc = "send_wait"
    /\ \/ /\ ~gone[conn]
          /\ s2c' = [s2c EXCEPT ![conn] = Append(@, Reply(body))]
          /\ UNCHANGED <<sep, freed>>
       \/ /\ gone[conn]
          /\ \/ rpc_server_tcp_err_cb(conn)
             \/ UNCHANGED <<sep, freed>>
          /\ UNCHANGED s2c
    /\ NextIteration
    /\ UNCHANGED <<queue, conn, body, cache, uaf, c2s, cpc, csent, cresp,
                   cfail, gone>>

-----------------------------------------------------------------------------
(* A client thread.                                                        *)

\* rpc_client_init succeeds; the server's accept callback and dispatch
\* hand the connection to this worker.
ClientConnect(c) ==
    /\ cpc[c] = "idle"
    /\ cpc' = [cpc EXCEPT ![c] = "send"]
    /\ queue' = Append(queue, c)
    /\ UNCHANGED <<wpc, conn, msgi, body, sep, cache, freed, uaf, c2s, s2c,
                   csent, cresp, cfail, gone>>

\* rpc_client_send of the next request; on a failed endpoint it returns
\* -1, which the demo ignores before receiving anyway.
ClientSend(c) ==
    /\ cpc[c] = "send"
    /\ csent' = [csent EXCEPT ![c] = @ + 1]
    /\ c2s' = IF cfail[c] THEN c2s
              ELSE [c2s EXCEPT ![c] = Append(@, Request(c, csent[c] + 1))]
    /\ cpc' = [cpc EXCEPT ![c] = "recv"]
    /\ UNCHANGED <<worker, s2c, cresp, cfail, gone>>

\* Mutant of ClientRecv: the demo's loop bound off by one (i <= cnt).
ClientRecvOffByOne(c) ==
    /\ cpc[c] = "recv"
    /\ \/ /\ s2c[c] # <<>>
          /\ cresp' = [cresp EXCEPT ![c] = Append(@, Head(s2c[c]))]
          /\ s2c' = [s2c EXCEPT ![c] = Tail(@)]
       \/ /\ cfail[c] /\ s2c[c] = <<>>
          /\ UNCHANGED <<cresp, s2c>>
    /\ cpc' = [cpc EXCEPT ![c] = IF csent[c] <= MsgCnt THEN "send" ELSE "deinit"]
    /\ UNCHANGED <<worker, c2s, csent, cfail, gone>>

\* rpc_client_recv: an answer arrives, or the endpoint has failed.
ClientRecv(c) ==
    /\ cpc[c] = "recv"
    /\ \/ /\ s2c[c] # <<>>
          /\ cresp' = [cresp EXCEPT ![c] = Append(@, Head(s2c[c]))]
          /\ s2c' = [s2c EXCEPT ![c] = Tail(@)]
       \/ /\ cfail[c] /\ s2c[c] = <<>>
          /\ UNCHANGED <<cresp, s2c>>
    /\ cpc' = [cpc EXCEPT ![c] = IF csent[c] < MsgCnt THEN "send" ELSE "deinit"]
    /\ UNCHANGED <<worker, c2s, csent, cfail, gone>>

\* rpc_client_deinit: force-close the endpoint, destroy the worker.
ClientDeinit(c) ==
    /\ cpc[c] = "deinit"
    /\ cpc' = [cpc EXCEPT ![c] = "done"]
    /\ gone' = [gone EXCEPT ![c] = TRUE]
    /\ UNCHANGED <<worker, c2s, s2c, csent, cresp, cfail>>

\* The client process dies while connected (the environment, not code of
\* the repository: the demo client never exits early).
ClientCrash(c) ==
    /\ cpc[c] \in {"send", "recv", "deinit"}
    /\ cpc' = [cpc EXCEPT ![c] = "done"]
    /\ gone' = [gone EXCEPT ![c] = TRUE]
    /\ UNCHANGED <<worker, c2s, s2c, csent, cresp, cfail>>

Next ==
    \/ WorkerTake \/ WorkerRecv \/ WorkerRecvDone \/ WorkerRecvFail
    \/ WorkerRespond \/ WorkerSendDone
    \/ \E c \in Clients :
          \/ ClientConnect(c) \/ ClientSend(c) \/ ClientRecv(c)
          \/ ClientDeinit(c) \/ ClientCrash(c)

\* The worker thread and the client threads run whenever they can; the
\* transport eventually completes or fails a pending request.  Crashes
\* need not happen.
Fairness ==
    /\ WF_vars(WorkerTake) /\ WF_vars(WorkerRecv) /\ WF_vars(WorkerRecvDone)
    /\ WF_vars(WorkerRecvFail) /\ WF_vars(WorkerRespond)
    /\ WF_vars(WorkerSendDone)
    /\ \A c \in Clients :
          /\ WF_vars(ClientConnect(c)) /\ WF_vars(ClientSend(c))
          /\ WF_vars(ClientRecv(c)) /\ WF_vars(ClientDeinit(c))

Spec == Init /\ [][Next]_vars /\ Fairness

-----------------------------------------------------------------------------
(* Properties.                                                             *)

\* Spec testable properties 1 and 2: every answer a client receives is the
\* reply to its own request of the same position (the request echoed, or
\* the handler's transformation of it), never another client's bytes and
\* never a buffer read before the request arrived.
ResponsesMatchRequests ==
    \A c \in Clients :
        IsPrefix(cresp[c], [k \in 1 .. csent[c] |-> Reply(Request(c, k))])

\* Every client finishes: each of its calls returns, with an answer or an
\* error, and it gets to rpc_client_deinit.
ClientsFinish == \A c \in Clients : <>(cpc[c] = "done")

\* The worker never reads a connection record the error handler freed.
NoUseAfterFree == ~uaf

\* Spec testable property 4: once the error handler has run for a
\* connection, looking it up in the owner's cache finds nothing.
CacheCleanupOnError == \A c \in freed : c \notin cache
=============================================================================
