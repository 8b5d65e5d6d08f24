-------------------------- MODULE StlBloomFilterSpec --------------------------
(***************************************************************************)
(* What a bloom filter promises (src/stl/stl_bloom_filter.c): a query      *)
(* answers 1 for every value inserted, and may answer 1 for others too.   *)
(* The intersection of two filters made with the same table size, number   *)
(* of functions and hash function answers 1 for every value both answer   *)
(* 1 for by insertion; of two others it is NULL.  conf is the triple a     *)
(* filter was made with; in[h] the values a query of h must find.          *)
(***************************************************************************)
EXTENDS Integers

CONSTANTS Handles, Data, Confs, NULL

VARIABLES alive, conf, in, ret, last

vars == <<alive, conf, in, ret, last>>

Init ==
    /\ alive = [h \in Handles |-> FALSE] /\ conf = [h \in Handles |-> NULL]
    /\ in = [h \in Handles |-> {}] /\ ret = 0 /\ last = <<"init">>

\* new: a filter with no values, or NULL (too many functions, no memory).
New(h, c) ==
    /\ ~alive[h] /\ last' = <<"new", h, c>>
    /\ \/ alive' = [alive EXCEPT ![h] = TRUE] /\ conf' = [conf EXCEPT ![h] = c]
          /\ ret' = 1
       \/ ret' = 0 /\ UNCHANGED <<alive, conf>>
    /\ UNCHANGED in

Free(h) ==
    /\ alive[h] /\ last' = <<"free", h>>
    /\ alive' = [alive EXCEPT ![h] = FALSE] /\ conf' = [conf EXCEPT ![h] = NULL]
    /\ in' = [in EXCEPT ![h] = {}] /\ ret' = 0

Insert(h, v) ==
    /\ alive[h] /\ last' = <<"insert", h, v>>
    /\ in' = [in EXCEPT ![h] = @ \cup {v}] /\ ret' = 0
    /\ UNCHANGED <<alive, conf>>

\* query: 1 for an inserted value; either answer for any other.
Query(h, v) ==
    /\ alive[h] /\ last' = <<"query", h, v>>
    /\ ret' \in IF v \in in[h] THEN {1} ELSE {0, 1}
    /\ UNCHANGED <<alive, conf, in>>

\* intersection of h1 and h2, stored by the caller in the free handle h.
Intersection(h1, h2, h) ==
    /\ alive[h1] /\ alive[h2] /\ ~alive[h]
    /\ last' = <<"intersection", h1, h2, h>>
    /\ \/ conf[h1] = conf[h2] /\ ret' = 1
          /\ alive' = [alive EXCEPT ![h] = TRUE]
          /\ conf' = [conf EXCEPT ![h] = conf[h1]]
          /\ in' = [in EXCEPT ![h] = in[h1] \cap in[h2]]
       \/ ret' = 0 /\ UNCHANGED <<alive, conf, in>>

Next ==
    \/ \E h \in Handles, c \in Confs : New(h, c)
    \/ \E h \in Handles : Free(h)
    \/ \E h \in Handles, v \in Data : Insert(h, v) \/ Query(h, v)
    \/ \E h1, h2, h \in Handles : Intersection(h1, h2, h)

Spec == Init /\ [][Next]_vars
=============================================================================
