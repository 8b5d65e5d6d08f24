------------------------------ MODULE StlHeap ------------------------------
(***************************************************************************)
(* src/stl/stl_heap.c: a binary min-heap of (key, data) pairs in a         *)
(* 1-based array elems[1..size] with capacity cap.  add increments size,   *)
(* grows the array when size reaches cap and sifts the new pair up; pop    *)
(* takes elems[1], moves elems[size] to the root and sifts it down.        *)
(* Slots above size keep what was last written there (pop and clear do     *)
(* not erase); slots never written are NULL here.                          *)
(***************************************************************************)
EXTENDS Integers, Sequences, SequencesExt

CONSTANTS
    Keys, Datas,   \* the keys and data pointers callers pass
    InitCaps,      \* the capacities stl_heap_init may be called with
    MaxSize,       \* bound on size, so that the state space is finite
    AllocMayFail,  \* whether stl_heap_realloc may return NULL
    NULL

Elem == [key : Keys, data : Datas]

VARIABLES cap, size, elems, out, ok, last

vars == <<cap, size, elems, out, ok, last>>

\* size indexes a slot inside the array: 1 .. cap - 1 once one is allocated.
TypeOK ==
    /\ cap \in Nat /\ size \in 0 .. MaxSize
    /\ size > 0 => size < cap
    /\ elems \in [1 .. MaxSize -> Elem \union {NULL}]
    /\ out \in Elem \union {NULL} /\ ok \in BOOLEAN

\* stl_heap_init: a zeroed header, then the array of cap slots if cap > 0.
Init ==
    /\ cap \in InitCaps /\ size = 0
    /\ elems = [i \in 1 .. MaxSize |-> NULL]
    /\ out = NULL /\ ok = TRUE /\ last = <<"init">>

\* Growth without the cap != 0 test.
GrownCapNoZeroCheck == cap * 2

\* The capacity stl_heap_add grows to.
GrownCap == IF cap # 0 THEN cap * 2 ELSE 4

\* A sift-up that only compares with the parent once.
SiftUpOnce(e, i, x) ==
    IF i # 1 /\ x.key < e[i \div 2].key
    THEN [e EXCEPT ![i] = e[i \div 2], ![i \div 2] = x]
    ELSE [e EXCEPT ![i] = x]

\* The while loop of stl_heap_add: parents larger than x move down a level.
RECURSIVE SiftUp(_, _, _)
SiftUp(e, i, x) ==
    IF i # 1 /\ x.key < e[i \div 2].key
    THEN SiftUp([e EXCEPT ![i] = e[i \div 2]], i \div 2, x)
    ELSE [e EXCEPT ![i] = x]

\* After a failed realloc, slot size holds whatever memory held there: a
\* stale pair, or (never written, or past the allocation) any pair.
Garbage(n) == IF elems[n] # NULL THEN {elems[n]} ELSE Elem

\* stl_heap_add.  ++size happens before the capacity check, and the
\* out-of-memory return leaves it incremented.  With cap = 0 a failed add
\* leaves elems NULL and the next peek or pop dereferences NULL; that crash
\* is not modelled, so the failure branch needs an allocated array.
stl_heap_add(k, d) ==
    LET e == [key |-> k, data |-> d]
        n == size + 1
    IN /\ size < MaxSize
       /\ last' = <<"add", e>>
       /\ size' = n
       /\ \/ n < cap /\ ok' = TRUE /\ elems' = SiftUp(elems, n, e)
             /\ UNCHANGED cap
          \/ n >= cap /\ ok' = TRUE /\ elems' = SiftUp(elems, n, e)
             /\ cap' = GrownCap
          \/ n >= cap /\ AllocMayFail /\ cap > 0 /\ ok' = FALSE
             /\ \E g \in Garbage(n) : elems' = [elems EXCEPT ![n] = g]
             /\ UNCHANGED cap
       /\ UNCHANGED out

stl_heap_peek ==
    /\ last' = <<"peek">>
    /\ \/ size = 0 /\ ok' = FALSE /\ UNCHANGED out
       \/ size > 0 /\ ok' = TRUE /\ out' = elems[1]
    /\ UNCHANGED <<cap, size, elems>>

RECURSIVE SiftDown(_, _, _, _)

\* A sift-down that never compares the two children: x always sinks to
\* the left one.
SiftDownLeft(e, n, i, x) ==
    IF 2 * i <= n /\ x.key > e[2 * i].key
    THEN SiftDown([e EXCEPT ![i] = e[2 * i]], n, 2 * i, x)
    ELSE [e EXCEPT ![i] = x]

\* The while loop of stl_heap_pop: x = last sinks from slot i past every
\* smaller child among elems[1..n].
SiftDown(e, n, i, x) ==
    LET c0 == 2 * i
        c  == IF c0 < n /\ e[c0].key > e[c0 + 1].key THEN c0 + 1 ELSE c0
    IN IF c0 <= n /\ x.key > e[c].key
       THEN SiftDown([e EXCEPT ![i] = e[c]], n, c, x)
       ELSE [e EXCEPT ![i] = x]

\* pop that takes last = elems[--size] instead of elems[size--].
PopPreDecrement ==
    /\ last' = <<"pop">>
    /\ \/ size = 0 /\ ok' = FALSE /\ UNCHANGED <<size, elems, out>>
       \/ size > 0 /\ ok' = TRUE /\ out' = elems[1] /\ size' = size - 1
          /\ elems' = IF size > 1 THEN SiftDown(elems, size - 1, 1, elems[size - 1])
                      ELSE elems
    /\ UNCHANGED cap

stl_heap_pop ==
    /\ last' = <<"pop">>
    /\ \/ size = 0 /\ ok' = FALSE /\ UNCHANGED <<size, elems, out>>
       \/ size > 0 /\ ok' = TRUE /\ out' = elems[1] /\ size' = size - 1
          /\ elems' = SiftDown(elems, size - 1, 1, elems[size])
    /\ UNCHANGED cap

stl_heap_clear ==
    /\ last' = <<"clear">>
    /\ size' = 0
    /\ UNCHANGED <<cap, elems, out, ok>>

Next ==
    \/ \E k \in Keys, d \in Datas : stl_heap_add(k, d)
    \/ stl_heap_peek
    \/ stl_heap_pop
    \/ stl_heap_clear

Spec == Init /\ [][Next]_vars

-----------------------------------------------------------------------------
\* The pairs stored: elems[1..size] as a multiset.
Stored == ToBag(SubSeq(elems, 1, size))

PQ == INSTANCE StlHeapSpec WITH heap <- Stored

\* Every sequence of add, peek, pop and clear behaves as a priority queue:
\* pop and peek return a pair of least key, pop removes exactly it, and an
\* add that returns false leaves the stored pairs as they were.
HeapRefinement == PQ!Spec

\* The heap order the sift loops of add and pop maintain between calls: no
\* parent among elems[1..size] has a larger key than its children.
HeapOrdered == \A i \in 2 .. size : elems[i \div 2].key <= elems[i].key
=============================================================================
