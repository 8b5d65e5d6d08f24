---------------------------- MODULE StlDictSpec ----------------------------
(***************************************************************************)
(* What stl_dict promises its callers (src/stl/stl_dict.h): a map from     *)
(* string keys to values.  put adds a key that is absent and refuses one   *)
(* that is present; get returns the value or NULL; del removes the key     *)
(* and returns 0, or -1 when it is absent; traverse hands every stored     *)
(* value to the handler exactly once, in some order, and does nothing     *)
(* while no handler is installed.                                          *)
(***************************************************************************)
EXTENDS Integers, Sequences, Functions

CONSTANTS Keys, Vals, NULL

VARIABLES
    map,      \* map[k]: the value stored under k, or NULL
    ret,      \* the result of the last put or get
    status,   \* the result of the last del
    visited,  \* the values the last traverse handed to the handler
    last,     \* the last call and its key
    handler   \* whether a traversal handler is installed

vars == <<map, ret, status, visited, last, handler>>

Present == {k \in Keys : map[k] # NULL}

Init == map = [k \in Keys |-> NULL] /\ ret = NULL /\ status = 0 /\ visited = <<>>
        /\ last = <<"init">> /\ handler = FALSE

Put(k, v) ==
    /\ last' = <<"put", k>>
    /\ \/ map[k] # NULL /\ ret' = NULL /\ UNCHANGED map
       \/ map[k] = NULL /\ map' = [map EXCEPT ![k] = v] /\ ret' = "ptr"
    /\ UNCHANGED <<status, visited, handler>>

Get(k) ==
    /\ last' = <<"get", k>>
    /\ ret' = map[k]
    /\ UNCHANGED <<map, status, visited, handler>>

Del(k) ==
    /\ last' = <<"del", k>>
    /\ \/ map[k] # NULL /\ map' = [map EXCEPT ![k] = NULL] /\ status' = 0
       \/ map[k] = NULL /\ status' = -1 /\ UNCHANGED map
    /\ UNCHANGED <<ret, visited, handler>>

\* A handler is installed or cleared.
SetHandler(h) ==
    /\ handler' = h
    /\ UNCHANGED <<map, ret, status, visited, last>>

\* visited' lists the stored values, each key's value once; nothing is
\* visited without a handler.
Traverse ==
    /\ last' = <<"traverse">>
    /\ IF handler
       THEN \E f \in Bijection(1 .. Len(visited'), Present) :
               \A i \in 1 .. Len(visited') : visited'[i] = map[f[i]]
       ELSE visited' = <<>>
    /\ UNCHANGED <<map, ret, status, handler>>

\* The dictionary is freed; afterwards it holds nothing.
Destroy ==
    /\ last' = <<"destroy">>
    /\ map' = [k \in Keys |-> NULL]
    /\ UNCHANGED <<ret, status, visited, handler>>

Next ==
    \/ \E k \in Keys, v \in Vals : Put(k, v)
    \/ \E k \in Keys : Get(k) \/ Del(k)
    \/ \E h \in BOOLEAN : SetHandler(h)
    \/ Traverse
    \/ Destroy

Spec == Init /\ [][Next]_vars
=============================================================================
