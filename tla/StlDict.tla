------------------------------ MODULE StlDict ------------------------------
(***************************************************************************)
(* The chained hash table of src/stl/stl_dict.c.                           *)
(*                                                                         *)
(* max_count buckets, each a singly linked chain of entries {key, val}     *)
(* with new entries pushed at the head; member_count[i] counts chain i     *)
(* and count counts them all.  A key is a C string, here a sequence of     *)
(* characters.  The bucket of a key is stl_dict_jump_consistent of         *)
(* stl_dict_default_hash_fn: a fixed function of the key, which Init       *)
(* chooses among all functions from keys to buckets, so every way the     *)
(* hash can place the keys is checked.                                     *)
(*                                                                         *)
(* stl_dict_search compares with strncmp(cur->key, key, strlen(key)):      *)
(* that is equality of the first strlen(key) characters, so it matches an *)
(* entry whose key merely starts with the key looked for.                  *)
(***************************************************************************)
EXTENDS Integers, Sequences, SequencesExt

CONSTANTS
    Keys,       \* the keys callers use (sequences of characters)
    Vals,       \* the values stored (model values)
    MaxCount,   \* max_count, the number of buckets
    NULL

ASSUME MaxCount \in Nat \ {0}

Buckets == 0 .. MaxCount - 1

VARIABLES
    bucket_of,     \* the bucket each key hashes to (fixed)
    members,       \* members[i]: chain i, head first, of [key, val]
    member_count,  \* d->member_count
    count,         \* d->count
    ret,           \* the result of the last put or get
    status,        \* the result of the last del
    visited,       \* the values the last traverse handed to handle_fn
    last,          \* history: the last call and its key
    alive,         \* FALSE once stl_dict_destroy has freed the table
    handle_fn      \* d->handle_fn # NULL: a traversal handler is installed

vars == <<bucket_of, members, member_count, count, ret, status, visited, last,
          alive, handle_fn>>

Entry == [key : Keys, val : Vals]

TypeOK ==
    /\ bucket_of \in [Keys -> Buckets]
    /\ members \in [Buckets -> Seq(Entry)]
    /\ member_count \in [Buckets -> Nat] /\ count \in Nat
    /\ alive \in BOOLEAN /\ handle_fn \in BOOLEAN

\* stl_dict_create -> stl_dict_init: calloc'ed, empty buckets and counters,
\* and no handler (calloc leaves handle_fn NULL).
Init ==
    /\ bucket_of \in [Keys -> Buckets]
    /\ members = [i \in Buckets |-> <<>>]
    /\ member_count = [i \in Buckets |-> 0]
    /\ count = 0
    /\ ret = NULL /\ status = 0 /\ visited = <<>> /\ last = <<"init">>
    /\ alive = TRUE
    /\ handle_fn = FALSE

\* strncmp(cur->key, key, strlen(key)) == 0
KeyMatches(stored, k) == IsPrefix(k, stored)

\* Mutant of Search: the loop stops after the chain's head.
SearchHeadOnly(k) ==
    LET chain == members[bucket_of[k]] IN
    IF member_count[bucket_of[k]] > 0 /\ KeyMatches(chain[1].key, k) THEN 1 ELSE 0

\* stl_dict_search: the position in k's chain of the first entry that
\* matches, or 0.  The chain is only walked when member_count > 0.
Search(k) ==
    LET chain == members[bucket_of[k]]
        hits  == {i \in 1 .. Len(chain) : KeyMatches(chain[i].key, k)}
    IN  IF member_count[bucket_of[k]] > 0 /\ hits # {}
        THEN CHOOSE i \in hits : \A j \in hits : i <= j
        ELSE 0

\* Mutant of stl_dict_put: the __sync_fetch_and_add of d->count missing.
PutNoCount(k, v) ==
    LET i == bucket_of[k] IN
    /\ alive
    /\ last' = <<"put", k>>
    /\ \/ /\ Search(k) # 0
          /\ ret' = NULL
          /\ UNCHANGED <<members, member_count, count>>
       \/ /\ Search(k) = 0
          /\ members' = [members EXCEPT ![i] = <<[key |-> k, val |-> v]>> \o @]
          /\ member_count' = [member_count EXCEPT ![i] = @ + 1]
          /\ ret' = "ptr"
          /\ UNCHANGED count
    /\ UNCHANGED <<bucket_of, status, visited, alive, handle_fn>>

\* stl_dict_put: refuse a key search finds; otherwise allocate the entry,
\* push it at the head of its chain and bump both counters.
stl_dict_put(k, v) ==
    LET i == bucket_of[k] IN
    /\ alive
    /\ last' = <<"put", k>>
    /\ \/ /\ Search(k) # 0
          /\ ret' = NULL
          /\ UNCHANGED <<members, member_count, count>>
       \/ /\ Search(k) = 0
          /\ members' = [members EXCEPT ![i] = <<[key |-> k, val |-> v]>> \o @]
          /\ member_count' = [member_count EXCEPT ![i] = @ + 1]
          /\ count' = count + 1
          /\ ret' = "ptr"
    /\ UNCHANGED <<bucket_of, status, visited, alive, handle_fn>>

\* stl_dict_get: the value of the entry search finds, or NULL.
stl_dict_get(k) ==
    /\ alive
    /\ last' = <<"get", k>>
    /\ ret' = IF Search(k) = 0 THEN NULL
              ELSE members[bucket_of[k]][Search(k)].val
    /\ UNCHANGED <<bucket_of, members, member_count, count, status, visited, alive, handle_fn>>

\* Mutant of stl_dict_del: the counters decremented before the check that
\* the key was found.
DelCountFirst(k) ==
    LET i == bucket_of[k] IN
    /\ alive
    /\ last' = <<"del", k>>
    /\ member_count' = [member_count EXCEPT ![i] = @ - 1]
    /\ count' = count - 1
    /\ \/ /\ Search(k) # 0
          /\ members' = [members EXCEPT ![i] = RemoveAt(@, Search(k))]
          /\ status' = 0
       \/ /\ Search(k) = 0
          /\ status' = -1
          /\ UNCHANGED members
    /\ UNCHANGED <<bucket_of, ret, visited, alive, handle_fn>>

\* stl_dict_del: unlink the entry search finds (through prev, or the
\* bucket head), free it, decrement both counters.
stl_dict_del(k) ==
    LET i == bucket_of[k] IN
    /\ alive
    /\ last' = <<"del", k>>
    /\ \/ /\ Search(k) # 0
          /\ members' = [members EXCEPT ![i] = RemoveAt(@, Search(k))]
          /\ member_count' = [member_count EXCEPT ![i] = @ - 1]
          /\ count' = count - 1
          /\ status' = 0
       \/ /\ Search(k) = 0
          /\ status' = -1
          /\ UNCHANGED <<members, member_count, count>>
    /\ UNCHANGED <<bucket_of, ret, visited, alive, handle_fn>>

\* The values of chain i in the order the traversal visits them.
ChainVals(i) == [j \in 1 .. Len(members[i]) |-> members[i][j].val]

\* stl_dict_entry_handle_fn (stl_dict.h): install a handler, or clear it
\* with NULL.
stl_dict_entry_handle_fn(h) ==
    /\ alive
    /\ handle_fn' = h
    /\ UNCHANGED <<bucket_of, members, member_count, count, ret, status,
                   visited, last, alive>>

\* stl_dict_traverse: nothing without a handler; otherwise bucket by
\* bucket, the buckets with member_count > 0, each chain from its head;
\* the handler gets every value.
stl_dict_traverse ==
    /\ alive
    /\ last' = <<"traverse">>
    /\ visited' = IF ~handle_fn THEN <<>>
                  ELSE FlattenSeq([j \in 1 .. MaxCount |->
                 IF member_count[j - 1] > 0 THEN ChainVals(j - 1) ELSE <<>>])
    /\ UNCHANGED <<bucket_of, members, member_count, count, ret, status, alive, handle_fn>>

\* stl_dict_destroy: stl_dict_deinit frees every entry of the buckets with
\* member_count > 0 (when count > 0), decrementing the counters, and the
\* table is freed.
stl_dict_destroy ==
    /\ alive
    /\ last' = <<"destroy">>
    /\ alive' = FALSE
    /\ member_count' = [i \in Buckets |-> 0]
    /\ count' = 0
    /\ UNCHANGED <<bucket_of, members, ret, status, visited, handle_fn>>

Next ==
    \/ \E k \in Keys, v \in Vals : stl_dict_put(k, v)
    \/ \E k \in Keys : stl_dict_get(k) \/ stl_dict_del(k)
    \/ \E h \in BOOLEAN : stl_dict_entry_handle_fn(h)
    \/ stl_dict_traverse
    \/ stl_dict_destroy

Spec == Init /\ [][Next]_vars

-----------------------------------------------------------------------------
\* The map the table represents: a key's value is that of the entry whose
\* key equals it exactly.
StoredVal(k) ==
    LET hits == {e \in ToSet(members[bucket_of[k]]) : e.key = k}
    IN  IF alive /\ hits # {} THEN (CHOOSE e \in hits : TRUE).val ELSE NULL

Dict == INSTANCE StlDictSpec WITH map <- [k \in Keys |-> StoredVal(k)],
                                  handler <- handle_fn

\* Refinement: every put/get/del/traverse/destroy behaves as the abstract
\* map of StlDictSpec: a key is stored at most once, get returns its own
\* value and del removes exactly that key.
DictRefinement == Dict!Spec

\* The counters put and del keep beside the chains agree with them:
\* member_count[i] is the length of chain i and count their sum, which is
\* what the member_count > 0 shortcut of search and traverse relies on.
CountsMatchChains ==
    alive =>
        /\ \A i \in Buckets : member_count[i] = Len(members[i])
        /\ count = FoldFunction(LAMBDA x, y : x + y, 0, member_count)
=============================================================================
