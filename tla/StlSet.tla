------------------------------- MODULE StlSet ------------------------------
(***************************************************************************)
(* src/stl/stl_set.c: a chained hash set.  A set is a table of chains      *)
(* (chain i holds the values whose hash % table_size is i, newest first),  *)
(* the entry count and the index of the current size in set_primes.  A     *)
(* table is a sequence of chains here, chain i at position i + 1.          *)
(* Values are data pointers compared with equal_func, modelled as model    *)
(* values compared with =.  The sets share one hash_func, Hash.            *)
(*                                                                         *)
(* set_primes starts at 193, so no test grows a table; Primes is a         *)
(* scaled-down list of sizes with the same control: a table grows when     *)
(* entries * 3 / table_size > 0 and takes entries * 10 slots once the      *)
(* list is used up.                                                        *)
(***************************************************************************)
EXTENDS Integers, Sequences, SequencesExt

CONSTANTS
    Handles,       \* the sets a caller may hold
    Data,          \* the data pointers callers store
    Hash,          \* Hash[d]: hash_func(d)
    Primes,        \* the table sizes, as set_primes
    AllocMayFail,  \* whether malloc/calloc may return NULL
    NULL

VARIABLES alive, sets, ret, arr, last

vars == <<alive, sets, ret, arr, last>>

EmptyTable(n) == [i \in 1 .. n |-> <<>>]

\* A freed handle's memory is gone; it is kept as this record.
NoSet == [table |-> <<>>, entries |-> 0, prime_index |-> 0]

TypeOK ==
    /\ alive \in [Handles -> BOOLEAN]
    /\ \A h \in Handles :
         /\ sets[h].entries \in 0 .. Cardinality(Data)
         /\ sets[h].table \in Seq(Seq(Data))
    /\ ret \in {0, 1}

Init ==
    /\ alive = [h \in Handles |-> FALSE] /\ sets = [h \in Handles |-> NoSet]
    /\ ret = 0 /\ arr = NULL /\ last = <<"init">>

\* The outcomes of a malloc or calloc.
Allocs == IF AllocMayFail THEN {TRUE, FALSE} ELSE {TRUE}

\* stl_set_allocate_table: the size for prime_index pi.
TableSize(pi, entries) == IF pi < Len(Primes) THEN Primes[pi + 1] ELSE entries * 10

\* hash_func(d) % table_size, as a position in table t.
Slot(t, d) == (Hash[d] % Len(t)) + 1

\* stl_set_iterate and stl_set_iter_next: chain by chain from chain 1,
\* head first, skipping empty chains.
RECURSIVE IterFrom(_, _)
IterFrom(t, chain) == IF chain > Len(t) THEN <<>> ELSE t[chain] \o IterFrom(t, chain + 1)

\* An enlarge loop that hooks each entry in place of its new chain.
RehookDropChain(t, ds) ==
    IF ds = <<>> THEN t
    ELSE [t EXCEPT ![Slot(t, Head(ds))] = <<Head(ds)>>]

\* The loops of stl_set_enlarge: each entry of the old table, chain by
\* chain and head first, is pushed on the head of its chain in t.
RECURSIVE Rehook(_, _)
Rehook(t, ds) ==
    IF ds = <<>> THEN t
    ELSE Rehook([t EXCEPT ![Slot(t, Head(ds))] = <<Head(ds)>> \o @], Tail(ds))

\* stl_set_enlarge when the new table was allocated.
Enlarged(s) ==
    LET pi == s.prime_index + 1
    IN [table |-> Rehook(EmptyTable(TableSize(pi, s.entries)), IterFrom(s.table, 1)),
        entries |-> s.entries, prime_index |-> pi]

\* The chain walk of stl_set_query (and of insert's duplicate check).
ChainHas(s, d) == \E k \in DOMAIN s.table[Slot(s.table, d)] :
                     s.table[Slot(s.table, d)][k] = d

\* An insert that links the value without walking its chain first.
InsertNoDupCheck(s, d, tab, ent) ==
    LET grow == (s.entries * 3) \div Len(s.table) > 0
        s2   == IF grow THEN Enlarged(s) ELSE s
    IN IF grow /\ ~tab THEN <<s, 0>>
       ELSE IF ~ent THEN <<s2, 0>>
       ELSE <<[s2 EXCEPT !.table[Slot(s2.table, d)] = <<d>> \o @,
                         !.entries = @ + 1], 1>>

\* stl_set_insert on set s, given whether the table calloc of an enlarge
\* (tab) and the entry malloc (ent) succeed: <<new set, return value>>.
\* The checks come in the code's order: grow, duplicate, entry.
Insert(s, d, tab, ent) ==
    LET grow == (s.entries * 3) \div Len(s.table) > 0
        s2   == IF grow THEN Enlarged(s) ELSE s
    IN IF grow /\ ~tab THEN <<s, 0>>
       ELSE IF ChainHas(s2, d) THEN <<s2, 0>>
       ELSE IF ~ent THEN <<s2, 0>>
       ELSE <<[s2 EXCEPT !.table[Slot(s2.table, d)] = <<d>> \o @,
                         !.entries = @ + 1], 1>>

\* A remove that decrements entries whether or not it found the value.
RemoveAlwaysCount(s, d) ==
    LET c == s.table[Slot(s.table, d)] IN
    [s EXCEPT !.table[Slot(s.table, d)] = Remove(c, d), !.entries = @ - 1]

\* stl_set_remove: unlink the entry from its chain and count it out.
RemoveEntry(s, d) ==
    LET c == s.table[Slot(s.table, d)] IN
    IF ChainHas(s, d)
    THEN [s EXCEPT !.table[Slot(s.table, d)] = Remove(c, d), !.entries = @ - 1]
    ELSE s

\* The loop of union over set1 (and of intersection over the shared
\* values): every value is inserted; each insert succeeds.
RECURSIVE InsertEach(_, _)
InsertEach(s, ds) ==
    IF ds = <<>> THEN s ELSE InsertEach(Insert(s, Head(ds), TRUE, TRUE)[1], Tail(ds))

\* The loop of union over set2: a value stl_set_query finds in the new set
\* is skipped, the others are inserted.
RECURSIVE InsertMissing(_, _)
InsertMissing(s, ds) ==
    IF ds = <<>> THEN s
    ELSE InsertMissing(IF ChainHas(s, Head(ds)) THEN s
                       ELSE Insert(s, Head(ds), TRUE, TRUE)[1], Tail(ds))

\* stl_set_new's set, with the table of allocate_table at prime_index 0.
NewSet == [table |-> EmptyTable(TableSize(0, 0)), entries |-> 0, prime_index |-> 0]

\* stl_set_new into a free handle h; NULL when a malloc fails.
stl_set_new(h) ==
    /\ last' = <<"new", h>>
    /\ ~alive[h]
    /\ \E ok \in Allocs :
          \/ ok /\ alive' = [alive EXCEPT ![h] = TRUE]
             /\ sets' = [sets EXCEPT ![h] = NewSet] /\ ret' = 1
          \/ ~ok /\ ret' = 0 /\ UNCHANGED <<alive, sets>>
    /\ arr' = NULL

\* stl_set_free: every entry, the table and the set are freed.
stl_set_free(h) ==
    /\ last' = <<"free", h>>
    /\ alive[h]
    /\ alive' = [alive EXCEPT ![h] = FALSE] /\ sets' = [sets EXCEPT ![h] = NoSet]
    /\ arr' = NULL /\ UNCHANGED ret

stl_set_insert(h, d) ==
    /\ last' = <<"insert", h, d>>
    /\ alive[h]
    /\ \E tab, ent \in Allocs :
          LET r == Insert(sets[h], d, tab, ent)
          IN sets' = [sets EXCEPT ![h] = r[1]] /\ ret' = r[2]
    /\ arr' = NULL /\ UNCHANGED alive

stl_set_remove(h, d) ==
    /\ last' = <<"remove", h, d>>
    /\ alive[h]
    /\ sets' = [sets EXCEPT ![h] = RemoveEntry(@, d)]
    /\ ret' = IF ChainHas(sets[h], d) THEN 1 ELSE 0
    /\ arr' = NULL /\ UNCHANGED alive

stl_set_query(h, d) ==
    /\ last' = <<"query", h, d>>
    /\ alive[h] /\ ret' = IF ChainHas(sets[h], d) THEN 1 ELSE 0
    /\ arr' = NULL /\ UNCHANGED <<alive, sets>>

\* stl_set_to_array: malloc(entries pointers), then the values chain by
\* chain.
stl_set_to_array(h) ==
    /\ last' = <<"to_array", h>>
    /\ alive[h]
    /\ \E ok \in Allocs : arr' = IF ok THEN IterFrom(sets[h].table, 1) ELSE NULL
    /\ UNCHANGED <<alive, sets, ret>>

\* r = stl_set_union(a, b): a new set, set1's values, then set2's values
\* the new set lacks.  The caller stores it in handle r, dropping the set
\* r held (as in s1 = stl_set_union(s1, s2)).  Any failed allocation
\* frees the new set and returns NULL; the model's caller then keeps its
\* handles.
stl_set_union(a, b, r) ==
    /\ last' = <<"union", a, b, r>>
    /\ alive[a] /\ alive[b]
    /\ \E ok \in Allocs :
          \/ ok /\ alive' = [alive EXCEPT ![r] = TRUE] /\ ret' = 1
             /\ sets' = [sets EXCEPT ![r] =
                  InsertMissing(InsertEach(NewSet, IterFrom(sets[a].table, 1)),
                                IterFrom(sets[b].table, 1))]
          \/ ~ok /\ ret' = 0 /\ UNCHANGED <<alive, sets>>
    /\ arr' = NULL

\* r = stl_set_intersection(a, b): set1's values that stl_set_query finds
\* in set2.
stl_set_intersection(a, b, r) ==
    /\ last' = <<"intersection", a, b, r>>
    /\ alive[a] /\ alive[b]
    /\ \E ok \in Allocs :
          \/ ok /\ alive' = [alive EXCEPT ![r] = TRUE] /\ ret' = 1
             /\ sets' = [sets EXCEPT ![r] =
                  InsertEach(NewSet, SelectSeq(IterFrom(sets[a].table, 1),
                                               LAMBDA d : ChainHas(sets[b], d)))]
          \/ ~ok /\ ret' = 0 /\ UNCHANGED <<alive, sets>>
    /\ arr' = NULL

Next ==
    \/ \E h \in Handles : stl_set_new(h) \/ stl_set_free(h) \/ stl_set_to_array(h)
    \/ \E h \in Handles, d \in Data :
          stl_set_insert(h, d) \/ stl_set_remove(h, d) \/ stl_set_query(h, d)
    \/ \E a, b, r \in Handles :
          stl_set_union(a, b, r) \/ stl_set_intersection(a, b, r)

Spec == Init /\ [][Next]_vars

-----------------------------------------------------------------------------
\* The values of each live set.
Values(h) == IF alive[h] THEN UNION {ToSet(c) : c \in ToSet(sets[h].table)} ELSE {}

Abs == INSTANCE StlSetSpec WITH elems <- [h \in Handles |-> Values(h)]

\* Every sequence of new, insert (with or without memory), remove, query,
\* to_array, union, intersection and free behaves as sets of values: an
\* insert of a present value returns 0 and adds nothing, remove and query
\* answer for the value itself, and the combined sets hold the union and
\* intersection.
SetRefinement == Abs!Spec

\* The table shape every lookup relies on, across growth and failed
\* allocations: each value sits in the chain its hash selects in the
\* current table, at most once, and entries counts the values.
TableWellFormed ==
    \A h \in Handles : alive[h] =>
      LET t == sets[h].table IN
      /\ \A i \in DOMAIN t : \A k \in DOMAIN t[i] : Slot(t, t[i][k]) = i
      /\ sets[h].entries = Cardinality(Values(h))
      /\ sets[h].entries = Cardinality(UNION {{<<i, k>> : k \in DOMAIN t[i]} : i \in DOMAIN t})
=============================================================================
