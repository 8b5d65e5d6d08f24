---------------------------- MODULE StlBloomFilter ----------------------------
(***************************************************************************)
(* src/stl/stl_bloom_filter.c: filters on a few handles.  A filter is its  *)
(* table_size, num_functions, hash_func (a name in HashFns) and its table  *)
(* of (table_size + 7) / 8 bytes.  Function i of a value is bit            *)
(* (hash ^ salts[i]) % table_size of the table, bit index % 8 of byte      *)
(* index / 8, with the salts of the code.  added[h] is a history variable: *)
(* the values inserted into h, or into both filters an intersection was    *)
(* made from.                                                              *)
(***************************************************************************)
EXTENDS Integers, Sequences, Bitwise

CONSTANTS
    Handles,       \* the filter pointers a caller holds
    Data,          \* the values inserted and queried
    HashFns,       \* hash function name -> [Data -> hash]
    Sizes,         \* table sizes passed to new
    NumFns,        \* numbers of functions passed to new
    Salts,         \* salts[0..] of the code, as far as NumFns needs
    SaltCount,     \* sizeof(salts) / sizeof(*salts)
    AllocMayFail,  \* whether malloc and calloc may return NULL
    NULL

VARIABLES alive, filt, added, ret, last

vars == <<alive, filt, added, ret, last>>

Bytes(size) == (size + 7) \div 8

TypeOK ==
    /\ alive \in [Handles -> BOOLEAN] /\ added \in [Handles -> SUBSET Data]
    /\ \A h \in Handles : alive[h] =>
         /\ filt[h].table_size \in Sizes /\ filt[h].hf \in DOMAIN HashFns
         /\ filt[h].num_functions \in NumFns
         /\ filt[h].table \in [0 .. Bytes(filt[h].table_size) - 1 -> 0 .. 255]
    /\ ret \in {0, 1}

Init ==
    /\ alive = [h \in Handles |-> FALSE] /\ filt = [h \in Handles |-> NULL]
    /\ added = [h \in Handles |-> {}] /\ ret = 0 /\ last = <<"init">>

Fail == IF AllocMayFail THEN {TRUE, FALSE} ELSE {FALSE}

\* subhash = hash ^ salts[i], for every hash function, value and salt.
SubHash == [f \in DOMAIN HashFns |->
              [v \in Data |-> [i \in DOMAIN Salts |-> HashFns[f][v] ^^ Salts[i]]]]

\* The index of function i (from 0) of value v in filter f.
Index(f, v, i) == SubHash[f.hf][v][i + 1] % f.table_size

\* stl_bloom_filter_new, when both allocations succeed: a zeroed table.
NewFilter(size, hf, n) ==
    [table_size |-> size, hf |-> hf, num_functions |-> n,
     table |-> [b \in 0 .. Bytes(size) - 1 |-> 0]]

\* stl_bloom_filter_new into the free handle h.  NULL when n passes the
\* salts, when malloc fails, or when calloc fails (the struct is freed).
stl_bloom_filter_new(h, size, hf, n) ==
    /\ ~alive[h]
    /\ last' = <<"new", h, <<size, n, hf>>>>
    /\ \E f1, f2 \in Fail :
         IF n > SaltCount \/ f1 \/ f2
         THEN ret' = 0 /\ UNCHANGED <<alive, filt>>
         ELSE /\ ret' = 1 /\ alive' = [alive EXCEPT ![h] = TRUE]
              /\ filt' = [filt EXCEPT ![h] = NewFilter(size, hf, n)]
    /\ UNCHANGED added

stl_bloom_filter_free(h) ==
    /\ alive[h] /\ last' = <<"free", h>> /\ ret' = 0
    /\ alive' = [alive EXCEPT ![h] = FALSE] /\ filt' = [filt EXCEPT ![h] = NULL]
    /\ added' = [added EXCEPT ![h] = {}]

\* An insert that sets the whole 1 << index instead of a bit of the byte.
SetBitUnreduced(f, v, i) ==
    LET x == Index(f, v, i) IN
    [f EXCEPT !.table[x \div 8] = @ | 2 ^ x]

\* table[index / 8] |= 1 << (index % 8) for function i.
SetBit(f, v, i) ==
    LET x == Index(f, v, i) IN
    [f EXCEPT !.table[x \div 8] = @ | 2 ^ (x % 8)]

RECURSIVE InsertFrom(_, _, _)

\* An insert loop that stops one function early.
InsertFromShort(f, v, i) ==
    IF i < f.num_functions - 1 THEN InsertFrom(SetBit(f, v, i), v, i + 1) ELSE f

\* The loop of stl_bloom_filter_insert from function i on.
InsertFrom(f, v, i) ==
    IF i < f.num_functions THEN InsertFrom(SetBit(f, v, i), v, i + 1) ELSE f

stl_bloom_filter_insert(h, v) ==
    /\ alive[h] /\ last' = <<"insert", h, v>> /\ ret' = 0
    /\ filt' = [filt EXCEPT ![h] = InsertFrom(@, v, 0)]
    /\ added' = [added EXCEPT ![h] = @ \cup {v}]
    /\ UNCHANGED alive

\* The loop of stl_bloom_filter_query: 0 at the first bit not set.
RECURSIVE QueryFrom(_, _, _)
QueryFrom(f, v, i) ==
    IF i >= f.num_functions THEN 1
    ELSE LET x == Index(f, v, i) IN
         IF (f.table[x \div 8] & 2 ^ (x % 8)) = 0 THEN 0
         ELSE QueryFrom(f, v, i + 1)

stl_bloom_filter_query(h, v) ==
    /\ alive[h] /\ last' = <<"query", h, v>>
    /\ ret' = QueryFrom(filt[h], v, 0)
    /\ UNCHANGED <<alive, filt, added>>

\* stl_bloom_filter_intersection into the free handle h: NULL unless the
\* sizes, function counts and hash functions agree, or if the new filter
\* cannot be allocated; else the bytes of the two tables and-ed.
stl_bloom_filter_intersection(h1, h2, h) ==
    /\ alive[h1] /\ alive[h2] /\ ~alive[h]
    /\ last' = <<"intersection", h1, h2, h>>
    /\ LET a == filt[h1]
           b == filt[h2]
       IN IF a.table_size # b.table_size \/ a.num_functions # b.num_functions
             \/ a.hf # b.hf
          THEN ret' = 0 /\ UNCHANGED <<alive, filt, added>>
          ELSE \E f1, f2 \in Fail :
                 IF f1 \/ f2 THEN ret' = 0 /\ UNCHANGED <<alive, filt, added>>
                 ELSE /\ ret' = 1 /\ alive' = [alive EXCEPT ![h] = TRUE]
                      /\ filt' = [filt EXCEPT ![h] =
                           [a EXCEPT !.table = [i \in DOMAIN a.table |->
                                                  a.table[i] & b.table[i]]]]
                      /\ added' = [added EXCEPT ![h] = added[h1] \cap added[h2]]

Next ==
    \/ \E h \in Handles, size \in Sizes, hf \in DOMAIN HashFns, n \in NumFns :
          stl_bloom_filter_new(h, size, hf, n)
    \/ \E h \in Handles : stl_bloom_filter_free(h)
    \/ \E h \in Handles, v \in Data :
          stl_bloom_filter_insert(h, v) \/ stl_bloom_filter_query(h, v)
    \/ \E h1, h2, h \in Handles : stl_bloom_filter_intersection(h1, h2, h)

Spec == Init /\ [][Next]_vars

-----------------------------------------------------------------------------
Abs == INSTANCE StlBloomFilterSpec
         WITH conf <- [h \in Handles |-> IF alive[h]
                         THEN <<filt[h].table_size, filt[h].num_functions, filt[h].hf>>
                         ELSE NULL],
              in <- added,
              Confs <- {<<s, n, f>> : s \in Sizes, n \in NumFns, f \in DOMAIN HashFns}

\* Every sequence of new, insert, query, intersection and free behaves as a
\* bloom filter: a query finds every value inserted into the filter, and
\* every value inserted into both filters an intersection was made from;
\* an intersection of filters made differently is NULL.
BloomRefinement == Abs!Spec
=============================================================================
