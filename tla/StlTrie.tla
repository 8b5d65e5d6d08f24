------------------------------- MODULE StlTrie -------------------------------
(***************************************************************************)
(* src/stl/stl_trie.c: a trie of nodes {data, use_count, next[256]}.  A   *)
(* key's value sits in the node reached from root_node by following one    *)
(* next pointer per byte; use_count counts the stored keys whose path      *)
(* passes through the node.  insert creates the missing nodes with calloc  *)
(* and rolls back when one fails; remove decrements the path and frees     *)
(* the nodes whose count reaches 0; free releases every node.              *)
(*                                                                         *)
(* Memory is a pool of node addresses, the set of those allocated, and    *)
(* each node's fields.  A freed node is shown zeroed, as calloc leaves it  *)
(* before any reuse; a pointer that still leads to it is what TrieShape    *)
(* rules out.  A byte is a member of Alpha, NUL the terminator of C    *)
(* strings; the string functions take keys without NUL and read one NUL    *)
(* past the end, the binary ones take any bytes and a length.              *)
(***************************************************************************)
EXTENDS Integers, Sequences, FiniteSets

CONSTANTS
    Alpha,         \* the bytes keys are made of
    NUL,           \* the byte '\0', in Alpha
    StrKeys,       \* the C strings passed to the string functions
    BinKeys,       \* the byte strings passed to the *_binary functions
    Vals,          \* the non-NULL values callers insert
    MaxNodes,      \* the node addresses calloc can return
    AllocMayFail,  \* whether malloc/calloc may return NULL
    NULL

Nodes == 1 .. MaxNodes

Keys == StrKeys \cup BinKeys

NodeRec == [data : Vals \cup {NULL}, use_count : Nat,
            next : [Alpha -> Nodes \cup {NULL}]]

VARIABLES
    alive,  \* stl_trie_new returned the trie and stl_trie_free has not run
    trie,   \* [root_node, alloc (the allocated nodes), node (their memory)]
    ret,    \* the int the last call returned (0 for calls returning none)
    out,    \* the value the last lookup returned; NULL after other calls
    last    \* the last call and its arguments

vars == <<alive, trie, ret, out, last>>

TypeOK ==
    /\ alive \in BOOLEAN
    /\ trie.root_node \in Nodes \cup {NULL} /\ trie.alloc \subseteq Nodes
    /\ trie.node \in [Nodes -> NodeRec]
    /\ ret \in Int /\ out \in Vals \cup {NULL}

\* A node as calloc returns it.
Zeroed == [data |-> NULL, use_count |-> 0, next |-> [c \in Alpha |-> NULL]]

\* Before stl_trie_new: no node allocated.
Init ==
    /\ alive = FALSE
    /\ trie = [root_node |-> NULL, alloc |-> {},
               node |-> [n \in Nodes |-> Zeroed]]
    /\ ret = 0 /\ out = NULL /\ last = <<"init">>

\* A pointer to a node pointer: &trie->root_node, or &node->next[c].
Deref(T, r) == IF r = "root" THEN T.root_node ELSE T.node[r[1]].next[r[2]]
Store(T, r, m) == IF r = "root" THEN [T EXCEPT !.root_node = m]
                  ELSE [T EXCEPT !.node[r[1]].next[r[2]] = m]

\* free(node): the address returns to the pool.
FreeNode(T, n) == [T EXCEPT !.alloc = @ \ {n}, !.node[n] = Zeroed]

\* The byte at position i of key k, with the NUL read one past the end.
Char(k, i) == IF i <= Len(k) THEN k[i] ELSE NUL

RECURSIVE FindFrom(_, _, _, _)

\* A find_end whose loop stops one byte short of the end of the key.
FindFromShort(T, n, k, i) ==
    IF i >= Len(k) THEN n
    ELSE IF n = NULL THEN NULL
    ELSE FindFrom(T, T.node[n].next[k[i]], k, i + 1)

\* stl_trie_find_end / _find_end_binary: follow one pointer per byte,
\* returning NULL as soon as a node is missing.
FindFrom(T, n, k, i) ==
    IF i > Len(k) THEN n
    ELSE IF n = NULL THEN NULL
    ELSE FindFrom(T, T.node[n].next[k[i]], k, i + 1)

FindEnd(T, k) == FindFrom(T, T.root_node, k, 1)

RECURSIVE RollbackFrom(_, _, _, _, _)

\* A rollback that frees the nodes without clearing the pointer to them.
RollbackNoUnlink(T, n, prev, k, i) ==
    IF n = NULL THEN T
    ELSE LET nref  == <<n, Char(k, i)>>
             T1    == [T EXCEPT !.node[n].use_count = @ - 1]
             freed == T1.node[n].use_count = 0
         IN RollbackFrom(IF freed THEN FreeNode(T1, n) ELSE T1, Deref(T, nref),
                         IF freed THEN NULL ELSE nref, k, i + 1)

\* stl_trie_insert_rollback from node n, whose pointer is at prev (NULL
\* once a node has been freed): decrement each node of k's path, free the
\* ones that reach 0 and clear the pointer to the first of them.
RollbackFrom(T, n, prev, k, i) ==
    IF n = NULL THEN T
    ELSE LET nref  == <<n, Char(k, i)>>
             nn    == Deref(T, nref)
             T1    == [T EXCEPT !.node[n].use_count = @ - 1]
             freed == T1.node[n].use_count = 0
             T2    == IF ~freed THEN T1
                      ELSE IF prev # NULL THEN Store(FreeNode(T1, n), prev, NULL)
                      ELSE FreeNode(T1, n)
         IN RollbackFrom(T2, nn, IF freed THEN NULL ELSE nref, k, i + 1)

\* The address calloc returns: the lowest free one.
Fresh(T) == Nodes \ T.alloc
Calloc(T) == CHOOSE m \in Fresh(T) : \A x \in Fresh(T) : m <= x

RECURSIVE InsertFrom(_, _, _, _, _, _)

\* An insert loop that counts only the nodes it creates.
InsertCountNew(T, r, k, i, v, f) ==
    LET n == Deref(T, r) IN
    IF n = NULL /\ (f = 1 \/ Fresh(T) = {})
    THEN <<RollbackFrom(T, T.root_node, "root", k, 1), 0>>
    ELSE LET m  == IF n = NULL THEN Calloc(T) ELSE n
             T1 == IF n # NULL THEN T
                   ELSE [Store([T EXCEPT !.alloc = @ \cup {m}, !.node[m] = Zeroed], r, m)
                         EXCEPT !.node[m].use_count = 1]
         IN IF i > Len(k) THEN <<[T1 EXCEPT !.node[m].data = v], 1>>
            ELSE InsertFrom(T1, <<m, k[i]>>, k, i + 1, v,
                            IF n = NULL /\ f > 1 THEN f - 1 ELSE f)

\* The loop of stl_trie_insert from the pointer at r, at byte i of k.
\* f says which calloc fails: the f-th from here, or none when f = 0.
\* Returns <<memory, return value>>.
InsertFrom(T, r, k, i, v, f) ==
    LET n == Deref(T, r) IN
    IF n = NULL /\ (f = 1 \/ Fresh(T) = {})
    THEN <<RollbackFrom(T, T.root_node, "root", k, 1), 0>>
    ELSE LET m  == IF n = NULL THEN Calloc(T) ELSE n
             T1 == IF n # NULL THEN T
                   ELSE Store([T EXCEPT !.alloc = @ \cup {m},
                                        !.node[m] = Zeroed],
                              r, m)
             T2 == [T1 EXCEPT !.node[m].use_count = @ + 1]
         IN IF i > Len(k) THEN <<[T2 EXCEPT !.node[m].data = v], 1>>
            ELSE InsertFrom(T2, <<m, k[i]>>, k, i + 1, v,
                            IF n = NULL /\ f > 1 THEN f - 1 ELSE f)

\* stl_trie_insert: NULL values are refused; a key whose end node holds a
\* value has it replaced; otherwise the walk creates the path.
Insert(T, k, v, f) ==
    LET e == FindEnd(T, k) IN
    IF v = NULL THEN <<T, 0>>
    ELSE IF e # NULL /\ T.node[e].data # NULL THEN <<[T EXCEPT !.node[e].data = v], 1>>
    ELSE InsertFrom(T, "root", k, 1, v, f)

\* The loop of stl_trie_remove from node n; lastref is the pointer to
\* clear if n is freed (NULL after the first unlink).
RECURSIVE RemoveFrom(_, _, _, _, _)
RemoveFrom(T, n, lastref, k, i) ==
    LET c     == Char(k, i)
        nx    == T.node[n].next[c]
        T1    == [T EXCEPT !.node[n].use_count = @ - 1]
        freed == T1.node[n].use_count <= 0
        T2    == IF ~freed THEN T1
                 ELSE IF lastref # NULL THEN Store(FreeNode(T1, n), lastref, NULL)
                 ELSE FreeNode(T1, n)
        lr    == IF freed \/ lastref = NULL THEN NULL ELSE <<n, c>>
    IN IF i > Len(k) THEN T2 ELSE RemoveFrom(T2, nx, lr, k, i + 1)

\* stl_trie_remove: 0 unless k holds a value; then its data is cleared
\* and the path decremented from the root.
Remove(T, k) ==
    LET e == FindEnd(T, k) IN
    IF e = NULL \/ T.node[e].data = NULL THEN <<T, 0>>
    ELSE <<RemoveFrom([T EXCEPT !.node[e].data = NULL], T.root_node, "root", k, 1), 1>>

\* The nodes stl_trie_free's free list visits: root_node and every node
\* a next pointer of a visited node leads to.
RECURSIVE ReachFrom(_, _, _)
ReachFrom(T, S, d) ==
    IF d = 0 THEN S
    ELSE ReachFrom(T, (S \cup {T.node[n].next[c] : n \in S, c \in Alpha}) \ {NULL}, d - 1)

Reachable(T) == IF T.root_node = NULL THEN {} ELSE ReachFrom(T, {T.root_node}, MaxNodes)

Allocs == IF AllocMayFail THEN {TRUE, FALSE} ELSE {TRUE}

stl_trie_new ==
    /\ ~alive /\ last' = <<"new">> /\ out' = NULL
    /\ \E ok \in Allocs :
          \/ ok /\ alive' = TRUE /\ trie' = [trie EXCEPT !.root_node = NULL] /\ ret' = 1
          \/ ~ok /\ ret' = 0 /\ UNCHANGED <<alive, trie>>

stl_trie_free ==
    /\ alive /\ last' = <<"free">>
    /\ alive' = FALSE
    /\ trie' = [trie EXCEPT !.alloc = @ \ Reachable(trie),
                            !.node = [n \in Nodes |-> IF n \in Reachable(trie) THEN Zeroed ELSE @[n]]]
    /\ ret' = 0 /\ out' = NULL

\* The positions at which a calloc of an insert of k may fail.
Fails(k) == IF AllocMayFail THEN 0 .. Len(k) + 1 ELSE {0}

DoInsert(name, k, v) ==
    /\ alive /\ last' = <<name, k, v>> /\ out' = NULL
    /\ \E f \in Fails(k) :
          LET r == Insert(trie, k, v, f) IN trie' = r[1] /\ ret' = r[2]
    /\ UNCHANGED alive

stl_trie_insert(k, v) == DoInsert("insert", k, v)

stl_trie_insert_binary(k, v) == DoInsert("insert_binary", k, v)

DoRemove(name, k) ==
    /\ alive /\ last' = <<name, k>> /\ out' = NULL
    /\ LET r == Remove(trie, k) IN trie' = r[1] /\ ret' = r[2]
    /\ UNCHANGED alive

stl_trie_remove(k) == DoRemove("remove", k)

stl_trie_remove_binary(k) == DoRemove("remove_binary", k)

\* A lookup that returns the end node rather than its data.
LookupNode(name, k) ==
    /\ alive /\ last' = <<name, k>> /\ ret' = 0
    /\ out' = FindEnd(trie, k)
    /\ UNCHANGED <<alive, trie>>

DoLookup(name, k) ==
    /\ alive /\ last' = <<name, k>> /\ ret' = 0
    /\ out' = LET e == FindEnd(trie, k) IN IF e = NULL THEN NULL ELSE trie.node[e].data
    /\ UNCHANGED <<alive, trie>>

stl_trie_lookup(k) == DoLookup("lookup", k)

stl_trie_lookup_binary(k) == DoLookup("lookup_binary", k)

stl_trie_num_entries ==
    /\ alive /\ last' = <<"num_entries">> /\ out' = NULL
    /\ ret' = IF trie.root_node = NULL THEN 0 ELSE trie.node[trie.root_node].use_count
    /\ UNCHANGED <<alive, trie>>

Next ==
    \/ stl_trie_new \/ stl_trie_free \/ stl_trie_num_entries
    \/ \E k \in StrKeys, v \in Vals \cup {NULL} : stl_trie_insert(k, v)
    \/ \E k \in BinKeys, v \in Vals \cup {NULL} : stl_trie_insert_binary(k, v)
    \/ \E k \in StrKeys : stl_trie_remove(k) \/ stl_trie_lookup(k)
    \/ \E k \in BinKeys : stl_trie_remove_binary(k) \/ stl_trie_lookup_binary(k)

Spec == Init /\ [][Next]_vars

-----------------------------------------------------------------------------
\* The value lookup finds under k.
Found(k) == LET e == FindEnd(trie, k) IN IF e = NULL THEN NULL ELSE trie.node[e].data

Abs == INSTANCE StlTrieSpec WITH map <- [k \in Keys |-> IF alive THEN Found(k) ELSE NULL]

\* Every sequence of string and binary inserts, removes, lookups and
\* num_entries, with callocs failing anywhere along an insert's path and
\* the rollback undoing it, behaves as a map; a failed insert changes no
\* key's value.
TrieRefinement == Abs!Spec

\* The prefixes of the keys callers use: the only paths a node can be on.
Prefixes == UNION {{SubSeq(k, 1, j) : j \in 0 .. Len(k)} : k \in Keys}

\* The memory shape that insert, rollback, remove and free keep: the nodes
\* reached through the prefixes are allocated, distinct, and exactly the
\* allocated nodes (none dangling, none leaked); each counts the stored
\* keys below it, and none counts zero.  A freed trie holds no node.
TrieShape ==
    /\ ~alive => trie.alloc = {}
    /\ alive =>
         LET P      == {p \in Prefixes : FindEnd(trie, p) # NULL}
             Stored == {p \in P : trie.node[FindEnd(trie, p)].data # NULL}
         IN /\ {FindEnd(trie, p) : p \in P} = trie.alloc
            /\ Cardinality(trie.alloc) = Cardinality(P)
            /\ \A p \in P :
                 trie.node[FindEnd(trie, p)].use_count
                   = Cardinality({s \in Stored : Len(p) <= Len(s) /\ SubSeq(s, 1, Len(p)) = p})
            /\ \A p \in P : trie.node[FindEnd(trie, p)].use_count > 0
=============================================================================
