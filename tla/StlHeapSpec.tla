---------------------------- MODULE StlHeapSpec -----------------------------
(***************************************************************************)
(* What stl_heap promises its callers (src/stl/stl_heap.h): a priority     *)
(* queue of (key, data) pairs.  add inserts a pair, or returns false on    *)
(* out of memory; peek reads and pop removes a pair of least key, both     *)
(* returning false when the heap is empty; clear empties it.               *)
(***************************************************************************)
EXTENDS Integers, Bags, BagsExt

CONSTANTS Keys, Datas, NULL

Elem == [key : Keys, data : Datas]

VARIABLES
    heap,   \* the bag of stored pairs
    out,    \* the pair the last successful peek or pop wrote to *key/*data
    ok,     \* the boolean the last add, peek or pop returned
    last    \* the last call (and the pair added)

vars == <<heap, out, ok, last>>

\* The pairs of least key: any of them may be on top.
Top == {e \in BagToSet(heap) : \A f \in BagToSet(heap) : e.key <= f.key}

Init == heap = EmptyBag /\ out = NULL /\ ok = TRUE /\ last = <<"init">>

Add(e) ==
    /\ last' = <<"add", e>>
    /\ \/ heap' = BagAdd(heap, e) /\ ok' = TRUE
       \/ ok' = FALSE /\ UNCHANGED heap          \* out of memory
    /\ UNCHANGED out

Peek ==
    /\ last' = <<"peek">>
    /\ \/ heap = EmptyBag /\ ok' = FALSE /\ UNCHANGED out
       \/ heap # EmptyBag /\ ok' = TRUE /\ out' \in Top
    /\ UNCHANGED heap

Pop ==
    /\ last' = <<"pop">>
    /\ \/ heap = EmptyBag /\ ok' = FALSE /\ UNCHANGED <<out, heap>>
       \/ heap # EmptyBag /\ ok' = TRUE /\ out' \in Top
          /\ heap' = BagRemove(heap, out')

Clear ==
    /\ last' = <<"clear">>
    /\ heap' = EmptyBag
    /\ UNCHANGED <<out, ok>>

Next == (\E e \in Elem : Add(e)) \/ Peek \/ Pop \/ Clear

Spec == Init /\ [][Next]_vars
=============================================================================
