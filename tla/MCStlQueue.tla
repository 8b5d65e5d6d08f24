----------------------------- MODULE MCStlQueue -----------------------------
(***************************************************************************)
(* The ring-buffer queue of src/stl/stl_queue.c and the shared logger of   *)
(* src/stl/stl_log.c and a caller's loop over src/stl/stl_list.h,        *)
(* checked in one model in the way of MCStlContainers:  *)
(* Init picks which component the behaviour exercises, and the other keeps *)
(* its initial state.                                                      *)
(***************************************************************************)
EXTENDS Integers, TLC

CONSTANTS v1, v2, NULL, t1, t2, n1, n2, m1, None, a1, x1, x2, x3

VARIABLES
    which,
    cap, first, last, elems, out,
    l_pc, l_call, l_rc, l_mtx, l_level, l_to_stdout, l_cb, l_fp, l_fpOpen,
    l_cur, l_prev, l_file_size, l_disk, l_tail, l_latest,
    ll_next, ll_prev, ll_ret, ll_num, ll_empty, ll_last,
    ll_it, ll_tmp, ll_lst, ll_dir, ll_start, ll_seen

queue_vars == <<cap, first, last, elems, out>>
log_vars == <<l_pc, l_call, l_rc, l_mtx, l_level, l_to_stdout, l_cb, l_fp,
              l_fpOpen, l_cur, l_prev, l_file_size, l_disk, l_tail, l_latest>>
loop_vars == <<ll_next, ll_prev, ll_ret, ll_num, ll_empty, ll_last,
               ll_it, ll_tmp, ll_lst, ll_dir, ll_start, ll_seen>>
all_vars == <<which, queue_vars, log_vars, loop_vars>>

Parts == {"queue", "log", "loop"}

\* stl_queue: two element values, capacity up to 8, so that the ring wraps,
\* expands from sc_empty to 4 and from 4 to 8 with first at every offset.
Q == INSTANCE StlQueue WITH Values <- {v1, v2}, MaxCap <- 8

\* stl_log: two threads, two file paths, one message of 2 bytes after a
\* header of 1 byte, and STL_LOG_FILE_SIZE = 2, so that a file rotates
\* after two lines (file_size 4 > 2), and after one when the newline of
\* set_file has already been counted.  Calls at DEBUG (filtered at INFO),
\* INFO (stdout) and ERROR (stderr); set_level to DEBUG, OFF and an
\* unknown name.  fopen and fprintf on a log file may fail.
L == INSTANCE StlLog WITH
        Threads <- {t1, t2}, Names <- {n1, n2}, Msgs <- {m1},
        MsgSize <- (m1 :> 2), HdrSize <- 1, FileSizeMax <- 2,
        CallLevels <- {1, 3}, SetLevels <- {1, 4, -1}, FileMayFail <- TRUE,
        pc <- l_pc, call <- l_call, rc <- l_rc, mtx <- l_mtx, level <- l_level,
        to_stdout <- l_to_stdout, cb <- l_cb, fp <- l_fp, fpOpen <- l_fpOpen,
        cur <- l_cur, prev <- l_prev, file_size <- l_file_size, disk <- l_disk,
        tail <- l_tail, latest <- l_latest

\* The safe iterators: one list and three elements, so that a loop deletes
\* a first, a middle and a last element, and visits lists of 0 to 3.
LL == INSTANCE StlListLoop WITH
        Lists <- {a1}, Nodes <- {x1, x2, x3},
        next <- ll_next, prev <- ll_prev, ret <- ll_ret, num <- ll_num,
        empty <- ll_empty, last <- ll_last, it <- ll_it, tmp <- ll_tmp,
        lst <- ll_lst, dir <- ll_dir, start <- ll_start, seen <- ll_seen

Init == which \in Parts /\ Q!Init /\ L!Init /\ LL!Init

Next ==
    \/ which = "queue" /\ Q!Next /\ UNCHANGED <<which, log_vars, loop_vars>>
    \/ which = "log" /\ L!Next /\ UNCHANGED <<which, queue_vars, loop_vars>>
    \/ which = "loop" /\ LL!Next /\ UNCHANGED <<which, queue_vars, log_vars>>

Spec == Init /\ [][Next]_all_vars

TypeOK == Q!TypeOK
\* stl_queue implements the deque StlDeque (StlQueue!DequeRefinement).
DequeRefinement ==
    /\ Q!Deque!Init
    /\ [][which = "queue" => [Q!Deque!Next]_<<Q!Contents, out>>]_all_vars

LogTypeOK == L!LogTypeOK
LinesWhole == L!LinesWhole
NoWriteToClosed == L!NoWriteToClosed
LatestInFiles == L!LatestInFiles
SizeBounded == L!SizeBounded
LoopVisitsEach == LL!LoopVisitsEach

\* The two logging threads are interchangeable, and so are the two file
\* paths: nothing in stl_log.c or in the properties names one of them.
Symm == Permutations({t1, t2}) \cup Permutations({n1, n2})
=============================================================================
