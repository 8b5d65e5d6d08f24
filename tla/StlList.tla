------------------------------- MODULE StlList ------------------------------
(***************************************************************************)
(* src/stl/stl_list.c: an intrusive circular doubly linked list.  A list   *)
(* head and every element are a {next, prev} pair; an empty list and a    *)
(* detached element point at themselves.  Lists are the heads, Nodes the   *)
(* elements; every element starts as stl_list_init leaves it.  The list   *)
(* argument of add_after, add_before and del is unused by the code and     *)
(* left out.                                                               *)
(***************************************************************************)
EXTENDS Integers, Sequences, SequencesExt

CONSTANTS Lists, Nodes, NULL

All == Lists \cup Nodes

VARIABLES next, prev, ret, num, empty, last

vars == <<next, prev, ret, num, empty, last>>

TypeOK ==
    /\ next \in [All -> All] /\ prev \in [All -> All]
    /\ ret \in Nodes \cup {NULL}
    /\ num \in 0 .. Cardinality(Nodes)
    /\ empty \in BOOLEAN

\* stl_list_init on every head and element.
Init ==
    /\ next = [x \in All |-> x] /\ prev = [x \in All |-> x]
    /\ ret = NULL /\ num = 0 /\ empty = TRUE /\ last = <<"init">>

\* The pointers as one record, so that a call can chain the steps it makes.
Ptrs == [next |-> next, prev |-> prev]

SetPtrs(P) == next' = P.next /\ prev' = P.prev

\* A del that leaves elem's own pointers as they were.
UnlinkNoSelf(P, e) ==
    [next |-> [P.next EXCEPT ![P.prev[e]] = P.next[e]],
     prev |-> [P.prev EXCEPT ![P.next[e]] = P.prev[e]]]

\* stl_list_del: the neighbours are joined, then elem points at itself.
Unlink(P, e) ==
    LET n == P.next[e]
        p == P.prev[e]
    IN [next |-> [P.next EXCEPT ![p] = n, ![e] = e],
        prev |-> [P.prev EXCEPT ![n] = p, ![e] = e]]

\* The body of stl_list_add_after (and of add_head, with p the list):
\* e goes between p and p's next.
LinkAfter(P, p, e) ==
    LET n == P.next[p]
    IN [next |-> [P.next EXCEPT ![p] = e, ![e] = n],
        prev |-> [P.prev EXCEPT ![e] = p, ![n] = e]]

\* The body of stl_list_add_before (and of add_tail, with n the list):
\* e goes between n's prev and n.
LinkBefore(P, n, e) ==
    LET p == P.prev[n]
    IN [next |-> [P.next EXCEPT ![e] = n, ![p] = e],
        prev |-> [P.prev EXCEPT ![n] = e, ![e] = p]]

Done(c) == last' = c

stl_list_add_head(l, e) ==
    /\ Done(<<"add_head", l, e>>) /\ SetPtrs(LinkAfter(Unlink(Ptrs, e), l, e))
    /\ UNCHANGED <<ret, num, empty>>

stl_list_add_tail(l, e) ==
    /\ Done(<<"add_tail", l, e>>) /\ SetPtrs(LinkBefore(Unlink(Ptrs, e), l, e))
    /\ UNCHANGED <<ret, num, empty>>

stl_list_add_after(p, e) ==
    /\ Done(<<"add_after", p, e>>) /\ SetPtrs(LinkAfter(Unlink(Ptrs, e), p, e))
    /\ UNCHANGED <<ret, num, empty>>

stl_list_add_before(n, e) ==
    /\ Done(<<"add_before", n, e>>) /\ SetPtrs(LinkBefore(Unlink(Ptrs, e), n, e))
    /\ UNCHANGED <<ret, num, empty>>

stl_list_del(e) ==
    /\ Done(<<"del", e>>) /\ SetPtrs(Unlink(Ptrs, e))
    /\ UNCHANGED <<ret, num, empty>>

stl_list_is_empty(l) ==
    /\ Done(<<"is_empty", l>>) /\ empty' = (next[l] = l)
    /\ UNCHANGED <<next, prev, ret, num>>

\* pop_head without the emptiness test.
PopHeadNoCheck(l) ==
    /\ Done(<<"pop_head", l>>)
    /\ ret' = next[l] /\ SetPtrs(Unlink(Ptrs, next[l]))
    /\ UNCHANGED <<num, empty>>

\* stl_list_pop_head: head is read before the test and the del.
stl_list_pop_head(l) ==
    /\ Done(<<"pop_head", l>>)
    /\ \/ next[l] = l /\ ret' = NULL /\ UNCHANGED <<next, prev>>
       \/ next[l] # l /\ ret' = next[l] /\ SetPtrs(Unlink(Ptrs, next[l]))
    /\ UNCHANGED <<num, empty>>

\* pop_tail that reads list->prev after the del instead of before it.
PopTailReadAfter(l) ==
    LET P == Unlink(Ptrs, prev[l]) IN
    /\ Done(<<"pop_tail", l>>)
    /\ \/ next[l] = l /\ ret' = NULL /\ UNCHANGED <<next, prev>>
       \/ next[l] # l /\ SetPtrs(P)
          /\ ret' = IF P.prev[l] = l THEN NULL ELSE P.prev[l]
    /\ UNCHANGED <<num, empty>>

stl_list_pop_tail(l) ==
    /\ Done(<<"pop_tail", l>>)
    /\ \/ next[l] = l /\ ret' = NULL /\ UNCHANGED <<next, prev>>
       \/ next[l] # l /\ ret' = prev[l] /\ SetPtrs(Unlink(Ptrs, prev[l]))
    /\ UNCHANGED <<num, empty>>

stl_list_head(l) ==
    /\ Done(<<"head", l>>) /\ ret' = IF next[l] # l THEN next[l] ELSE NULL
    /\ UNCHANGED <<next, prev, num, empty>>

stl_list_tail(l) ==
    /\ Done(<<"tail", l>>) /\ ret' = IF prev[l] # l THEN prev[l] ELSE NULL
    /\ UNCHANGED <<next, prev, num, empty>>

\* The stl_list_foreach loop of stl_list_count, from x back round to l.  A
\* ring that does not return to l within |All| steps would never end the
\* C loop; the walk is cut there and the count comes out too large.
RECURSIVE CountFrom(_, _, _)
CountFrom(x, l, c) ==
    IF x = l \/ c > Cardinality(All) THEN c ELSE CountFrom(next[x], l, c + 1)

stl_list_count(l) ==
    /\ Done(<<"count", l>>) /\ num' = CountFrom(next[l], l, 0)
    /\ UNCHANGED <<next, prev, ret, empty>>

\* The stl_list_foreach_safe loop of stl_list_clear: x's successor is read
\* before x is deleted; k bounds the walk as above.
RECURSIVE ClearFrom(_, _, _, _)
ClearFrom(P, x, l, k) ==
    IF x = l \/ k = 0 THEN P
    ELSE ClearFrom(Unlink(P, x), P.next[x], l, k - 1)

stl_list_clear(l) ==
    /\ Done(<<"clear", l>>) /\ SetPtrs(ClearFrom(Ptrs, next[l], l, Cardinality(All)))
    /\ UNCHANGED <<ret, num, empty>>

\* The elements linked somewhere: add_after and add_before are given one of
\* them or a list head as the anchor, never elem itself.
Anchors == Lists \cup {x \in Nodes : next[x] # x}

Next ==
    \/ \E l \in Lists, e \in Nodes :
          stl_list_add_head(l, e) \/ stl_list_add_tail(l, e)
    \/ \E e \in Nodes : \E a \in Anchors \ {e} :
          stl_list_add_after(a, e) \/ stl_list_add_before(a, e)
    \/ \E e \in Nodes : stl_list_del(e)
    \/ \E l \in Lists :
          \/ stl_list_pop_head(l) \/ stl_list_pop_tail(l) \/ stl_list_clear(l)
          \/ stl_list_head(l) \/ stl_list_tail(l) \/ stl_list_count(l)
          \/ stl_list_is_empty(l)

Spec == Init /\ [][Next]_vars

-----------------------------------------------------------------------------
\* The elements met following next from l's successor back to l, at most
\* k of them.
RECURSIVE Walk(_, _, _)
Walk(x, l, k) == IF x = l \/ k = 0 THEN <<>> ELSE <<x>> \o Walk(next[x], l, k - 1)

Contents(l) == Walk(next[l], l, Cardinality(All))

Abs == INSTANCE StlListSpec WITH seqs <- [l \in Lists |-> Contents(l)]

\* Every sequence of calls behaves as lists of elements, each element in
\* at most one list, where an add first takes the element out of its list.
ListRefinement == Abs!Spec

\* The pointer shape every call must preserve, since the next call trusts
\* it (del follows elem's pointers without checking them): prev undoes
\* next everywhere, and every element either points at itself or lies on
\* the ring of exactly one list head.
ListShape ==
    /\ \A x \in All : next[prev[x]] = x /\ prev[next[x]] = x
    /\ \A l \in Lists : ToSet(Contents(l)) \subseteq Nodes
                        /\ Len(Contents(l)) < Cardinality(All)
    /\ \A x \in Nodes : next[x] = x \/ \E l \in Lists : x \in ToSet(Contents(l))
=============================================================================
