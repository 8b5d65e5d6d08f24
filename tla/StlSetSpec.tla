------------------------------ MODULE StlSetSpec ----------------------------
(***************************************************************************)
(* What stl_set promises (src/stl/stl_set.h, stl_set.c comments): a set of *)
(* data pointers per handle.  insert returns 1 when it added the value and *)
(* 0 when the value was already there or memory ran out; remove and query  *)
(* return 1 iff the value was there; to_array lists every value once (or   *)
(* NULL when out of memory); union and intersection make a new set (or     *)
(* NULL); free releases a set.                                             *)
(***************************************************************************)
EXTENDS Integers, Sequences, FiniteSets, Functions

CONSTANTS Handles, Data, NULL

VARIABLES
    alive,   \* alive[h]: handle h holds a set
    elems,   \* elems[h]: its values
    ret,     \* the int (or non-NULL / NULL as 1 / 0) the last call returned
    arr,     \* the array the last call returned if it was to_array, else NULL
    last     \* the last call and its arguments

vars == <<alive, elems, ret, arr, last>>

Init == alive = [h \in Handles |-> FALSE] /\ elems = [h \in Handles |-> {}]
        /\ ret = 0 /\ arr = NULL /\ last = <<"init">>

\* stl_set_new into a free handle: a set, or NULL when out of memory.
New(h) ==
    /\ last' = <<"new", h>>
    /\ ~alive[h]
    /\ \/ alive' = [alive EXCEPT ![h] = TRUE] /\ ret' = 1
       \/ ret' = 0 /\ UNCHANGED alive
    /\ arr' = NULL /\ UNCHANGED elems

Free(h) ==
    /\ last' = <<"free", h>>
    /\ alive[h] /\ alive' = [alive EXCEPT ![h] = FALSE]
    /\ elems' = [elems EXCEPT ![h] = {}]
    /\ arr' = NULL /\ UNCHANGED ret

Insert(h, d) ==
    /\ last' = <<"insert", h, d>>
    /\ alive[h]
    /\ \/ d \notin elems[h] /\ elems' = [elems EXCEPT ![h] = @ \cup {d}] /\ ret' = 1
       \/ ret' = 0 /\ UNCHANGED elems    \* present, or out of memory
    /\ d \in elems[h] => ret' = 0
    /\ arr' = NULL /\ UNCHANGED alive

Remove(h, d) ==
    /\ last' = <<"remove", h, d>>
    /\ alive[h]
    /\ elems' = [elems EXCEPT ![h] = @ \ {d}]
    /\ ret' = IF d \in elems[h] THEN 1 ELSE 0
    /\ arr' = NULL /\ UNCHANGED alive

Query(h, d) ==
    /\ last' = <<"query", h, d>>
    /\ alive[h] /\ ret' = IF d \in elems[h] THEN 1 ELSE 0
    /\ arr' = NULL /\ UNCHANGED <<alive, elems>>

ToArray(h) ==
    /\ last' = <<"to_array", h>>
    /\ alive[h]
    /\ \/ arr' = NULL
       \/ \E f \in Bijection(1 .. Len(arr'), elems[h]) :
                \A i \in 1 .. Len(arr') : arr'[i] = f[i]
    /\ UNCHANGED <<alive, elems, ret>>

\* A new set, holding val, stored in handle r (a set r held before is
\* dropped by the caller), or NULL with every handle as it was.
Combine(name, a, b, r, val) ==
    /\ last' = <<name, a, b, r>>
    /\ alive[a] /\ alive[b]
    /\ \/ alive' = [alive EXCEPT ![r] = TRUE] /\ elems' = [elems EXCEPT ![r] = val]
          /\ ret' = 1
       \/ ret' = 0 /\ UNCHANGED <<alive, elems>>
    /\ arr' = NULL

Union(a, b, r) == Combine("union", a, b, r, elems[a] \cup elems[b])

Intersection(a, b, r) == Combine("intersection", a, b, r, elems[a] \cap elems[b])

Next ==
    \/ \E h \in Handles : New(h) \/ Free(h) \/ ToArray(h)
    \/ \E h \in Handles, d \in Data : Insert(h, d) \/ Remove(h, d) \/ Query(h, d)
    \/ \E a, b, r \in Handles : Union(a, b, r) \/ Intersection(a, b, r)

Spec == Init /\ [][Next]_vars
=============================================================================
