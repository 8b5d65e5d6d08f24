----------------------------- MODULE StlTrieSpec -----------------------------
(***************************************************************************)
(* What stl_trie promises its callers (src/stl/stl_trie.h): a map from     *)
(* keys (C strings, or byte strings with a length) to values that are not  *)
(* NULL.  insert of NULL returns 0; insert of a present key replaces its   *)
(* value; insert of an absent key adds it or, out of memory, returns 0    *)
(* and leaves the map as it was.  lookup returns the value or NULL, remove *)
(* returns 1 iff the key was present, num_entries counts the keys.        *)
(***************************************************************************)
EXTENDS Integers, FiniteSets

CONSTANTS Keys, Vals, NULL

VARIABLES
    alive,  \* the trie has been created and not freed
    map,    \* map[k]: the value stored under k, or NULL
    ret,    \* the int the last call returned (0 for calls returning none)
    out,    \* the value the last lookup returned; NULL after other calls
    last    \* the last call and its arguments

vars == <<alive, map, ret, out, last>>

Empty == [k \in Keys |-> NULL]

Init == alive = FALSE /\ map = Empty /\ ret = 0 /\ out = NULL /\ last = <<"init">>

New ==
    /\ ~alive /\ last' = <<"new">> /\ out' = NULL
    /\ \/ alive' = TRUE /\ ret' = 1
       \/ ret' = 0 /\ UNCHANGED alive
    /\ UNCHANGED map

Free ==
    /\ alive /\ last' = <<"free">>
    /\ alive' = FALSE /\ map' = Empty /\ ret' = 0 /\ out' = NULL

Insert(name, k, v) ==
    /\ alive /\ last' = <<name, k, v>> /\ out' = NULL
    /\ \/ v = NULL /\ ret' = 0 /\ UNCHANGED map
       \/ v # NULL /\ map' = [map EXCEPT ![k] = v] /\ ret' = 1
       \/ v # NULL /\ map[k] = NULL /\ ret' = 0 /\ UNCHANGED map
    /\ UNCHANGED alive

Remove(name, k) ==
    /\ alive /\ last' = <<name, k>> /\ out' = NULL
    /\ ret' = IF map[k] # NULL THEN 1 ELSE 0
    /\ map' = [map EXCEPT ![k] = NULL]
    /\ UNCHANGED alive

Lookup(name, k) ==
    /\ alive /\ last' = <<name, k>>
    /\ out' = map[k] /\ ret' = 0
    /\ UNCHANGED <<alive, map>>

NumEntries ==
    /\ alive /\ last' = <<"num_entries">> /\ out' = NULL
    /\ ret' = Cardinality({k \in Keys : map[k] # NULL})
    /\ UNCHANGED <<alive, map>>

Next ==
    \/ New \/ Free \/ NumEntries
    \/ \E k \in Keys, v \in Vals \cup {NULL} :
          Insert("insert", k, v) \/ Insert("insert_binary", k, v)
    \/ \E k \in Keys :
          \/ Remove("remove", k) \/ Remove("remove_binary", k)
          \/ Lookup("lookup", k) \/ Lookup("lookup_binary", k)

Spec == Init /\ [][Next]_vars
=============================================================================
