----------------------------- MODULE StlListSpec ----------------------------
(***************************************************************************)
(* What stl_list promises (src/stl/stl_list.h): each list is a sequence of *)
(* elements, and an element is in at most one list; every add first takes  *)
(* the element out of wherever it was ("to prevent adding same item        *)
(* twice").  The results of the read-only calls are recorded so that a     *)
(* wrong answer is visible.                                                *)
(***************************************************************************)
EXTENDS Integers, Sequences, SequencesExt

CONSTANTS Lists, Nodes, NULL

VARIABLES
    seqs,   \* seqs[l]: the elements of list l, head first
    ret,    \* the element (or NULL) the last head/tail/pop returned
    num,    \* what the last stl_list_count returned
    empty,  \* what the last stl_list_is_empty returned
    last    \* the last call and its arguments

vars == <<seqs, ret, num, empty, last>>

Init == seqs = [l \in Lists |-> <<>>] /\ ret = NULL /\ num = 0 /\ empty = TRUE
        /\ last = <<"init">>

\* The lists with e taken out.
Without(e) == [l \in Lists |-> Remove(seqs[l], e)]

Call(c) == last' = c

AddHead(l, e) == Call(<<"add_head", l, e>>) /\ seqs' = [Without(e) EXCEPT ![l] = <<e>> \o @]
                 /\ UNCHANGED <<ret, num, empty>>

AddTail(l, e) == Call(<<"add_tail", l, e>>) /\ seqs' = [Without(e) EXCEPT ![l] = Append(@, e)]
                 /\ UNCHANGED <<ret, num, empty>>

\* After p: a list head p means the front of p; an element p the place
\* behind it in its list (once e is out).
AddAfter(p, e) ==
    LET w == Without(e) IN
    /\ Call(<<"add_after", p, e>>)
    /\ \/ p \in Lists /\ seqs' = [w EXCEPT ![p] = <<e>> \o @]
       \/ \E l \in Lists : \E i \in DOMAIN w[l] :
             w[l][i] = p /\ seqs' = [w EXCEPT ![l] = InsertAt(@, i + 1, e)]
    /\ UNCHANGED <<ret, num, empty>>

\* Before n: a list head n means the back of n.
AddBefore(n, e) ==
    LET w == Without(e) IN
    /\ Call(<<"add_before", n, e>>)
    /\ \/ n \in Lists /\ seqs' = [w EXCEPT ![n] = Append(@, e)]
       \/ \E l \in Lists : \E i \in DOMAIN w[l] :
             w[l][i] = n /\ seqs' = [w EXCEPT ![l] = InsertAt(@, i, e)]
    /\ UNCHANGED <<ret, num, empty>>

PopHead(l) ==
    /\ Call(<<"pop_head", l>>)
    /\ \/ seqs[l] = <<>> /\ ret' = NULL /\ UNCHANGED seqs
       \/ seqs[l] # <<>> /\ ret' = Head(seqs[l]) /\ seqs' = [seqs EXCEPT ![l] = Tail(@)]
    /\ UNCHANGED <<num, empty>>

PopTail(l) ==
    /\ Call(<<"pop_tail", l>>)
    /\ \/ seqs[l] = <<>> /\ ret' = NULL /\ UNCHANGED seqs
       \/ seqs[l] # <<>> /\ ret' = Last(seqs[l])
          /\ seqs' = [seqs EXCEPT ![l] = Front(@)]
    /\ UNCHANGED <<num, empty>>

Del(e) == Call(<<"del", e>>) /\ seqs' = Without(e) /\ UNCHANGED <<ret, num, empty>>

Clear(l) == Call(<<"clear", l>>) /\ seqs' = [seqs EXCEPT ![l] = <<>>]
            /\ UNCHANGED <<ret, num, empty>>

ReadHead(l) == Call(<<"head", l>>) /\ ret' = (IF seqs[l] = <<>> THEN NULL ELSE Head(seqs[l]))
               /\ UNCHANGED <<seqs, num, empty>>

ReadTail(l) == Call(<<"tail", l>>) /\ ret' = (IF seqs[l] = <<>> THEN NULL ELSE Last(seqs[l]))
               /\ UNCHANGED <<seqs, num, empty>>

Count(l) == Call(<<"count", l>>) /\ num' = Len(seqs[l]) /\ UNCHANGED <<seqs, ret, empty>>

IsEmpty(l) == Call(<<"is_empty", l>>) /\ empty' = (seqs[l] = <<>>)
              /\ UNCHANGED <<seqs, ret, num>>

Next ==
    \/ \E l \in Lists, e \in Nodes : AddHead(l, e) \/ AddTail(l, e)
    \/ \E p \in Lists \cup Nodes, e \in Nodes : AddAfter(p, e) \/ AddBefore(p, e)
    \/ \E e \in Nodes : Del(e)
    \/ \E l \in Lists : \/ PopHead(l) \/ PopTail(l) \/ Clear(l)
                        \/ ReadHead(l) \/ ReadTail(l) \/ Count(l) \/ IsEmpty(l)

Spec == Init /\ [][Next]_vars
=============================================================================
