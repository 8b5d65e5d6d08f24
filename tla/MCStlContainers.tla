--------------------------- MODULE MCStlContainers --------------------------
(***************************************************************************)
(* Sequential containers of src/stl that share no state: stl_heap,         *)
(* stl_ringbuffer and stl_list, each as its own module, checked in one     *)
(* model.  Init picks which container the behaviour exercises; the  *)
(* others keep their initial state, so the state space is the sum of the   *)
(* parts, and every property of a container holds of the behaviours of    *)
(* the others by stuttering.                                               *)
(***************************************************************************)
EXTENDS Integers, TLC

CONSTANTS d1, d2, b1, b2, L1, L2, n1, n2, n3, NULL

VARIABLES
    which,
    h_cap, h_size, h_elems, h_out, h_ok, h_last,
    r_buffer, r_mask, r_tail, r_head, r_byte, r_arr, r_ret, r_last,
    l_next, l_prev, l_ret, l_num, l_empty, l_last

heap_vars == <<h_cap, h_size, h_elems, h_out, h_ok, h_last>>
ring_vars == <<r_buffer, r_mask, r_tail, r_head, r_byte, r_arr, r_ret, r_last>>
list_vars == <<l_next, l_prev, l_ret, l_num, l_empty, l_last>>

Parts == {"heap", "ring", "list"}

\* stl_heap: keys 1..3 and two data pointers, initial capacity 0 or 2, up
\* to five pairs, so that the array grows twice and pop sifts two levels;
\* realloc succeeds (the failing case is MCStlHeapOOM.cfg).
H == INSTANCE StlHeap WITH
        Keys <- {1, 2, 3}, Datas <- {d1, d2}, InitCaps <- {0, 2}, MaxSize <- 5,
        AllocMayFail <- FALSE,
        cap <- h_cap, size <- h_size, elems <- h_elems, out <- h_out,
        ok <- h_ok, last <- h_last

\* stl_ringbuffer: a four-byte buffer (three bytes held), two byte values,
\* arrays of up to three bytes, so that queue_arr wraps the indices and
\* overwrites more than one old byte in one call.
R == INSTANCE StlRingBuffer WITH
        Bytes <- {b1, b2}, BufSize <- 4, MaxArr <- 3,
        buffer <- r_buffer, buffer_mask <- r_mask, tail_index <- r_tail,
        head_index <- r_head, byte <- r_byte, arr <- r_arr, ret <- r_ret,
        last <- r_last

\* stl_list: two lists and three elements, so that an element can move
\* between lists and be anchored on an element of the other list.
L == INSTANCE StlList WITH
        Lists <- {L1, L2}, Nodes <- {n1, n2, n3},
        next <- l_next, prev <- l_prev, ret <- l_ret, num <- l_num,
        empty <- l_empty, last <- l_last

Init ==
    /\ which \in Parts
    /\ H!Init /\ (which # "heap" => h_cap = 0)
    /\ R!Init /\ L!Init

Next ==
    \/ which = "heap" /\ H!Next /\ UNCHANGED <<which, ring_vars, list_vars>>
    \/ which = "ring" /\ R!Next /\ UNCHANGED <<which, heap_vars, list_vars>>
    \/ which = "list" /\ L!Next /\ UNCHANGED <<which, heap_vars, ring_vars>>

Spec == Init /\ [][Next]_<<which, heap_vars, ring_vars, list_vars>>

\* The properties of each container, as its module states them.  A
\* refinement is stated for the behaviours that exercise the container:
\* in the others its variables never change, which the abstract
\* specification allows as stuttering.
all_vars == <<which, heap_vars, ring_vars, list_vars>>

HeapTypeOK == H!TypeOK
HeapOrdered == H!HeapOrdered
\* stl_heap implements StlHeapSpec (StlHeap!HeapRefinement).
HeapRefinement ==
    /\ H!PQ!Init
    /\ [][which = "heap" => [H!PQ!Next]_(H!PQ!vars)]_all_vars

RingTypeOK == R!TypeOK
\* stl_ringbuffer implements StlRingBufferSpec (StlRingBuffer!RingRefinement).
RingRefinement ==
    /\ R!Abs!Init
    /\ [][which = "ring" => [R!Abs!Next]_(R!Abs!vars)]_all_vars

ListTypeOK == L!TypeOK
ListShape == L!ListShape
\* stl_list implements StlListSpec (StlList!ListRefinement).
ListRefinement ==
    /\ L!Abs!Init
    /\ [][which = "list" => [L!Abs!Next]_(L!Abs!vars)]_all_vars
=============================================================================
