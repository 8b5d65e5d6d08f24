----------------------------- MODULE RpcDispatch -----------------------------
(***************************************************************************)
(* The server's connection hand-off, src/rpc/rpc_server.c:                 *)
(*                                                                         *)
(*  - rpc_server_accept_cb runs inside ucp_worker_progress on the thread   *)
(*    that called rpc_server_run, once per connection request pending on   *)
(*    the listener; it numbers the connection with ++request_cnt and       *)
(*    appends it to dispatch_connection_queue.                             *)
(*  - rpc_server_run, while that queue is empty, calls ucp_worker_progress *)
(*    and then ucp_worker_wait, which blocks until a new event arrives;    *)
(*    otherwise it pops one connection, computes                           *)
(*    idx = ++request_cnt % worker_num, appends the connection to          *)
(*    thd_request_queue of worker idx and posts that worker's semaphore.   *)
(*  - each worker thread (rpc_server_thread_func) waits on its semaphore,  *)
(*    pops the first connection of its queue WITHOUT taking the lock, and  *)
(*    serves it.                                                           *)
(*                                                                         *)
(* The dispatch queue is touched by one thread only and is a sequence and  *)
(* a capacity here (StlQueue shows the ring behaves as one).  A worker     *)
(* queue is shared by the run thread and its worker, so it is modelled as  *)
(* the memory it is: every header stl_queue has allocated for it (a        *)
(* block), the pointer thd_request_queue to the current one, and the       *)
(* blocks freed by a realloc that moved the ring.  The worker's            *)
(* stl_queue_del_first is two steps, a load of the header and a store of   *)
(* first, because a concurrent expand in the run thread can fall between   *)
(* them.                                                                   *)
(* Serving a connection is a single step here; RpcConnection models it.    *)
(* With AllocMayFail, every allocation on these paths may fail as the code *)
(* lets it: the add_last results are ignored, a failed init leaves a NULL  *)
(* queue, and a NULL dereference crashes the process.                      *)
(***************************************************************************)
EXTENDS Naturals, Sequences, SequencesExt

CONSTANTS
    Conns,        \* connection requests that clients will make (model values)
    WorkerNum,    \* rserver->ucp_worker_num
    NULL,         \* an unwritten queue slot
    MaxCap,       \* bound on the capacity a worker queue may reach
    AllocMayFail  \* whether calloc, stl_queue_init and realloc may fail

ASSUME WorkerNum \in Nat \ {0} /\ MaxCap \in {4, 8, 16}
ASSUME AllocMayFail \in BOOLEAN

Workers == 0 .. WorkerNum - 1
Slots == 0 .. MaxCap - 1

\* qptr[w] = NullPtr: thd_request_queue set to NULL by a failed stl_queue_init.
NullPtr == 0

VARIABLES
    pending,      \* connection requests on the listener not yet delivered
    request_cnt,  \* rserver->request_cnt
    magic,        \* magic[c]: the id accept_cb gave c (0: not accepted)
    dqueue,       \* dispatch_connection_queue: its elements ...
    dcap,         \* ... and capacity (1: sc_empty, 0: NULL after a failed init)
    rpc_pc,       \* run thread: "progress", "wait", "dispatch", "expand", "crashed"
    rpc_conn,     \* run thread: the connection being appended, its worker
    rpc_idx,
    mem,          \* mem[w]: every header allocated for worker w's queue
    qptr,         \* qptr[w]: index in mem[w] of the current header, or NullPtr
    freed,        \* freed[w]: headers released by a moving realloc
    sem,          \* sem[w]: the worker's semaphore count
    wpc,          \* worker: "wait", "deq", "serve" or "crashed"
    wread,        \* worker: the header values loaded by inc_first
    accepted,     \* history: connections in the order queued by accept_cb
    dispatched,   \* history: <<c, w>> for each append to w's queue, in order
    taken         \* history: taken[w], values w's del_first returned

vars == <<pending, request_cnt, magic, dqueue, dcap, rpc_pc, rpc_conn, rpc_idx,
          mem, qptr, freed, sem, wpc, wread, accepted, dispatched, taken>>

Block == [cap : {1, 4, 8, 16}, first : Slots, last : Slots,
          elems : [Slots -> Conns \cup {NULL}]]

\* The ring-buffer arithmetic of stl_queue, applied to one header.
Ring(b) == INSTANCE StlQueue WITH Values <- Conns, cap <- b.cap,
             first <- b.first, last <- b.last, elems <- b.elems, out <- NULL

\* The static sc_empty header every queue created with capacity 0 shares.
ScEmpty == [cap |-> 1, first |-> 0, last |-> 0,
            elems |-> [i \in Slots |-> NULL]]

Cur(w) == mem[w][qptr[w]]

TypeOK ==
    /\ pending \in Seq(Conns)
    /\ request_cnt \in Nat
    /\ magic \in [Conns -> Nat]
    /\ dqueue \in Seq(Conns)
    /\ dcap \in {0, 1, 4, 8, 16} /\ (dcap > 0 => Len(dqueue) < dcap)
    /\ rpc_pc \in {"progress", "wait", "dispatch", "expand", "crashed"}
    /\ rpc_conn \in Conns \cup {NULL} /\ rpc_idx \in Workers
    /\ mem \in [Workers -> Seq(Block)]
    /\ \A w \in Workers : qptr[w] \in {NullPtr} \cup DOMAIN mem[w]
    /\ freed \in [Workers -> SUBSET Nat]
    /\ sem \in [Workers -> Nat]
    /\ wpc \in [Workers -> {"wait", "deq", "serve", "crashed"}]
    /\ wread \in [Workers -> [gen : Nat, first : Slots, cap : Nat]]
    /\ accepted \in Seq(Conns)
    /\ dispatched \in Seq(Conns \X Workers)
    /\ taken \in [Workers -> Seq(Conns \cup {NULL})]

\* rpc_server_init: counter 0, the dispatch queue and every worker queue
\* created with capacity 0 (sc_empty, which cannot fail) and every
\* semaphore 0; then rpc_server_run finds the dispatch queue empty.
Init ==
    /\ pending = <<>>
    /\ request_cnt = 0
    /\ magic = [c \in Conns |-> 0]
    /\ dqueue = <<>> /\ dcap = 1
    /\ rpc_pc = "progress" /\ rpc_conn = NULL /\ rpc_idx = 0
    /\ mem = [w \in Workers |-> <<ScEmpty>>]
    /\ qptr = [w \in Workers |-> 1]
    /\ freed = [w \in Workers |-> {}]
    /\ sem = [w \in Workers |-> 0]
    /\ wpc = [w \in Workers |-> "wait"]
    /\ wread = [w \in Workers |-> [gen |-> 1, first |-> 0, cap |-> 1]]
    /\ accepted = <<>>
    /\ dispatched = <<>>
    /\ taken = [w \in Workers |-> <<>>]

\* A NULL dereference (a failed calloc, a queue pointer a failed
\* stl_queue_init set to NULL, a NULL slot) ends the process: every thread.
Crash ==
    /\ rpc_pc' = "crashed"
    /\ wpc' = [w \in Workers |-> "crashed"]
    /\ UNCHANGED <<pending, request_cnt, magic, dqueue, dcap, rpc_conn, rpc_idx,
                   mem, qptr, freed, sem, wread, accepted, dispatched, taken>>

-----------------------------------------------------------------------------
(* A client and the run thread.                                            *)

\* A client's ucp_ep_create to the listener: a connection request the
\* listener worker will deliver on a later progress call.
ClientConnect(c) ==
    /\ magic[c] = 0 /\ ~\E i \in DOMAIN pending : pending[i] = c
    /\ pending' = Append(pending, c)
    /\ UNCHANGED <<request_cnt, magic, dqueue, dcap, rpc_pc, rpc_conn, rpc_idx,
                   mem, qptr, freed, sem, wpc, wread, accepted, dispatched, taken>>

\* Mutant of rpc_server_accept_cb: the id computed as request_cnt + 1 but
\* the counter not stored back.
AcceptCbNoStore ==
    LET c == Head(pending)
        Queued(cap) == /\ dqueue' = Append(dqueue, c) /\ dcap' = cap
                       /\ accepted' = Append(accepted, c)
        Lost(cap) == /\ AllocMayFail /\ dcap' = cap
                     /\ UNCHANGED <<dqueue, accepted>>
    IN
    /\ rpc_pc = "progress" /\ pending # <<>>
    /\ \/ /\ AllocMayFail \/ dcap = 0
          /\ Crash
       \/ /\ dcap > 0
          /\ pending' = Tail(pending)
          /\ magic' = [magic EXCEPT ![c] = request_cnt + 1]
          /\ \/ Len(dqueue) < dcap - 1 /\ Queued(dcap)
             \/ dcap = 1 /\ (Queued(4) \/ Lost(0))
             \/ dcap > 1 /\ Len(dqueue) = dcap - 1 /\ (Queued(2 * dcap) \/ Lost(dcap))
          /\ UNCHANGED <<request_cnt, rpc_pc, rpc_conn, rpc_idx, mem, qptr,
                         freed, sem, wpc, wread, dispatched, taken>>

\* rpc_server_accept_cb, called by ucp_worker_progress of the listener
\* worker for the oldest request: calloc the connection (unchecked),
\* magic = ++request_cnt, stl_queue_add_last on the dispatch queue, whose
\* false return (a failed init or realloc in stl_queue_expand) is ignored
\* and loses the connection.  A NULL queue from an earlier failed init is
\* dereferenced.
rpc_server_accept_cb ==
    LET c == Head(pending)
        Queued(cap) == /\ dqueue' = Append(dqueue, c) /\ dcap' = cap
                       /\ accepted' = Append(accepted, c)
        Lost(cap) == /\ AllocMayFail /\ dcap' = cap
                     /\ UNCHANGED <<dqueue, accepted>>
    IN
    /\ rpc_pc = "progress" /\ pending # <<>>
    /\ \/ /\ AllocMayFail \/ dcap = 0
          /\ Crash
       \/ /\ dcap > 0
          /\ pending' = Tail(pending)
          /\ request_cnt' = request_cnt + 1
          /\ magic' = [magic EXCEPT ![c] = request_cnt + 1]
          /\ \/ Len(dqueue) < dcap - 1 /\ Queued(dcap)
             \/ dcap = 1 /\ (Queued(4) \/ Lost(0))
             \/ dcap > 1 /\ Len(dqueue) = dcap - 1 /\ (Queued(2 * dcap) \/ Lost(dcap))
          /\ UNCHANGED <<rpc_pc, rpc_conn, rpc_idx, mem, qptr, freed, sem, wpc,
                         wread, dispatched, taken>>

\* ucp_worker_progress returns once it has delivered every request that
\* had arrived; the loop goes on to ucp_worker_wait whatever it delivered.
rpc_server_progress_done ==
    /\ rpc_pc = "progress" /\ pending = <<>>
    /\ rpc_pc' = "wait"
    /\ UNCHANGED <<pending, request_cnt, magic, dqueue, dcap, rpc_conn, rpc_idx,
                   mem, qptr, freed, sem, wpc, wread, accepted, dispatched, taken>>

\* The loop's next test of stl_queue_empty on the dispatch queue.
NextRound(dq) == IF dq = <<>> THEN "progress" ELSE "dispatch"

\* ucp_worker_wait returns once a new request is pending on the listener,
\* not for one a progress call has already delivered; then the loop tests
\* stl_queue_empty, which dereferences a NULL dispatch queue.
rpc_server_wait ==
    /\ rpc_pc = "wait" /\ pending # <<>>
    /\ \/ dcap = 0 /\ Crash
       \/ /\ dcap > 0
          /\ rpc_pc' = NextRound(dqueue)
          /\ UNCHANGED <<pending, request_cnt, magic, dqueue, dcap, rpc_conn,
                         rpc_idx, mem, qptr, freed, sem, wpc, wread, accepted,
                         dispatched, taken>>

\* Store header blk at index g of worker w's list of headers.
SetBlock(s, g, blk) == IF g = Len(s) + 1 THEN Append(s, blk) ELSE [s EXCEPT ![g] = blk]

\* Appending c to the ring b, held at index g of worker w's headers, and
\* posting w's semaphore: the last step of one rpc_server_run iteration.
PostTo(w, c, b, g) ==
    /\ dispatched' = Append(dispatched, <<c, w>>)
    /\ sem' = [sem EXCEPT ![w] = @ + 1]
    /\ qptr' = [qptr EXCEPT ![w] = g]
    /\ LET put == [b EXCEPT !.elems[b.last] = c, !.last = (b.last + 1) % b.cap]
       IN  mem' = [mem EXCEPT ![w] = SetBlock(@, g, put)]

\* add_last returned false unchecked: sem_post for a connection that was
\* never queued.
PostOnly(w) ==
    /\ sem' = [sem EXCEPT ![w] = @ + 1]
    /\ UNCHANGED <<mem, dispatched>>

\* One rpc_server_run iteration, from stl_queue_del_first on the dispatch
\* queue to sem_post, unless stl_queue_expand reallocs.  expand compares
\* last + 1 with first, which the worker may be writing; on a NULL queue
\* it dereferences NULL.
rpc_server_run ==
    LET c == Head(dqueue)
        w == (request_cnt + 1) % WorkerNum
        b == Cur(w)
    IN
    /\ rpc_pc = "dispatch"
    /\ \/ qptr[w] = NullPtr /\ Crash
       \/ /\ qptr[w] # NullPtr
          /\ dqueue' = Tail(dqueue)
          /\ request_cnt' = request_cnt + 1
          /\ \/ /\ ~Ring(b)!Full
                /\ PostTo(w, c, b, qptr[w])
                /\ rpc_pc' = NextRound(Tail(dqueue))
                /\ UNCHANGED <<rpc_conn, rpc_idx>>
             \/ /\ Ring(b)!Full /\ Ring(b)!IsStaticEmpty
                \* stl_queue_init(ptr, 4): a fresh header replaces sc_empty,
                \* or the allocation fails and the pointer becomes NULL
                /\ \/ PostTo(w, c, [ScEmpty EXCEPT !.cap = Ring(b)!AllocCap(4)],
                             Len(mem[w]) + 1)
                   \/ /\ AllocMayFail /\ PostOnly(w)
                      /\ qptr' = [qptr EXCEPT ![w] = NullPtr]
                /\ rpc_pc' = NextRound(Tail(dqueue))
                /\ UNCHANGED <<rpc_conn, rpc_idx>>
             \/ /\ Ring(b)!Full /\ ~Ring(b)!IsStaticEmpty
                /\ Ring(b)!AllocCap(2 * b.cap) <= MaxCap
                /\ rpc_pc' = "expand" /\ rpc_conn' = c /\ rpc_idx' = w
                /\ UNCHANGED <<mem, qptr, sem, dispatched>>
          /\ UNCHANGED <<pending, magic, dcap, freed, wpc, wread, accepted, taken>>

\* The rest of stl_queue_expand, then the append and sem_post: realloc
\* copies the header as it is now, the ring is rotated so first = 0 and
\* the capacity doubled.  realloc grows the block where it is, moves it
\* and frees the old one, or fails and leaves the queue as it was.
rpc_server_run_expand ==
    LET w == rpc_idx
        b == Cur(w)
        grown == [cap |-> Ring(b)!AllocCap(2 * b.cap), first |-> 0,
                  last |-> b.cap - 1, elems |-> Ring(b)!Rotated]
    IN
    /\ rpc_pc = "expand"
    /\ \/ /\ PostTo(w, rpc_conn, grown, qptr[w])
          /\ UNCHANGED freed
       \/ /\ PostTo(w, rpc_conn, grown, Len(mem[w]) + 1)
          /\ freed' = [freed EXCEPT ![w] = @ \cup {qptr[w]}]
       \/ /\ AllocMayFail /\ PostOnly(w)
          /\ UNCHANGED <<qptr, freed>>
    /\ rpc_pc' = NextRound(dqueue)
    /\ rpc_conn' = NULL
    /\ UNCHANGED <<pending, request_cnt, magic, dqueue, dcap, rpc_idx, wpc,
                   wread, accepted, taken>>

-----------------------------------------------------------------------------
(* A worker thread, rpc_server_thread_func.                                *)

\* Mutant of WorkerTake: the semaphore's count not checked (a sem_wait
\* whose EINTR return is taken for success).
WorkerTakeNoWait(w) ==
    /\ wpc[w] = "wait" /\ qptr[w] # NullPtr
    /\ sem' = [sem EXCEPT ![w] = @ - 1]
    /\ wread' = [wread EXCEPT ![w] = [gen |-> qptr[w], first |-> Cur(w).first,
                                      cap |-> Cur(w).cap]]
    /\ wpc' = [wpc EXCEPT ![w] = "deq"]
    /\ UNCHANGED <<pending, request_cnt, magic, dqueue, dcap, rpc_pc, rpc_conn,
                   rpc_idx, mem, qptr, freed, accepted, dispatched, taken>>

\* sem_wait, then stl_queue_size and inc_first load the header through
\* thd_request_queue, which a failed stl_queue_init left NULL.
WorkerTake(w) ==
    /\ wpc[w] = "wait"
    /\ sem[w] > 0
    /\ \/ qptr[w] = NullPtr /\ Crash
       \/ /\ qptr[w] # NullPtr
          /\ sem' = [sem EXCEPT ![w] = @ - 1]
          /\ wread' = [wread EXCEPT ![w] = [gen |-> qptr[w], first |-> Cur(w).first,
                                            cap |-> Cur(w).cap]]
          /\ wpc' = [wpc EXCEPT ![w] = "deq"]
          /\ UNCHANGED <<pending, request_cnt, magic, dqueue, dcap, rpc_pc,
                         rpc_conn, rpc_idx, mem, qptr, freed, accepted,
                         dispatched, taken>>

\* inc_first stores first + 1 through the header it loaded, and the slot
\* at the old first is the connection.  If a realloc moved the ring in
\* between, both the store and the load hit the freed block.  On a ring
\* with nothing queued (a post whose add_last failed) the slot is stale:
\* a connection served before, or NULL, whose ->thread store crashes.
WorkerDeq(w) ==
    LET r == wread[w]
        conn == mem[w][r.gen].elems[r.first]
    IN
    /\ wpc[w] = "deq"
    /\ \/ conn = NULL /\ Crash
       \/ /\ conn # NULL
          /\ mem' = [mem EXCEPT ![w][r.gen].first = (r.first + 1) % r.cap]
          /\ taken' = [taken EXCEPT ![w] = Append(@, conn)]
          /\ wpc' = [wpc EXCEPT ![w] = "serve"]
          /\ UNCHANGED <<pending, request_cnt, magic, dqueue, dcap, rpc_pc,
                         rpc_conn, rpc_idx, qptr, freed, sem, wread, accepted,
                         dispatched>>

\* Serving the connection (cache, endpoint, message loop) until the loop
\* ends and the thread returns to sem_wait; see RpcConnection.
WorkerServe(w) ==
    /\ wpc[w] = "serve"
    /\ wpc' = [wpc EXCEPT ![w] = "wait"]
    /\ UNCHANGED <<pending, request_cnt, magic, dqueue, dcap, rpc_pc, rpc_conn,
                   rpc_idx, mem, qptr, freed, sem, wread, accepted, dispatched,
                   taken>>

Next ==
    \/ \E c \in Conns : ClientConnect(c)
    \/ rpc_server_accept_cb
    \/ rpc_server_progress_done
    \/ rpc_server_wait
    \/ rpc_server_run
    \/ rpc_server_run_expand
    \/ \E w \in Workers : WorkerTake(w) \/ WorkerDeq(w) \/ WorkerServe(w)

\* The run thread and every worker thread run forever, and ucp_worker_wait
\* returns once a request is pending; clients connect when they like, so
\* their connects carry no fairness.
Fairness ==
    /\ WF_vars(rpc_server_accept_cb)
    /\ WF_vars(rpc_server_progress_done)
    /\ WF_vars(rpc_server_wait)
    /\ WF_vars(rpc_server_run)
    /\ WF_vars(rpc_server_run_expand)
    /\ \A w \in Workers :
          WF_vars(WorkerTake(w)) /\ WF_vars(WorkerDeq(w)) /\ WF_vars(WorkerServe(w))

Spec == Init /\ [][Next]_vars /\ Fairness

-----------------------------------------------------------------------------
(* Properties.                                                             *)

\* The connections appended to worker w's queue, in order.
SentTo(w) ==
    LET s == SelectSeq(dispatched, LAMBDA p : p[2] = w)
    IN  [i \in 1 .. Len(s) |-> s[i][1]]

\* accept_cb and rpc_server_run both increment request_cnt; the ids that
\* accept_cb hands out must still be distinct (they form the cache key).
IdsUnique ==
    \A c, d \in Conns : c # d /\ magic[c] > 0 => magic[c] # magic[d]

\* Spec, dispatch loop: the run thread pumps the listener while the
\* dispatch queue is empty and waits only when idle, so every accepted
\* connection is eventually appended to some worker's queue.
EventuallyDispatched ==
    \A c \in Conns :
        (magic[c] > 0) ~> (\E i \in DOMAIN dispatched : dispatched[i][1] = c)

\* Spec, testable property 3: the k-th accepted connection goes to worker
\* (k - 1) mod worker_num, counted from the first accept.
RoundRobin ==
    \A i \in DOMAIN dispatched :
        dispatched[i][2] = (magic[dispatched[i][1]] - 1) % WorkerNum

\* Spec section 5: a worker's private queue needs no lock because the
\* semaphore carries the synchronisation; so each worker takes exactly the
\* connections the run thread appended to its queue, in that order.
HandoffInOrder == \A w \in Workers : IsPrefix(taken[w], SentTo(w))
=============================================================================
