----------------------------- MODULE StlListLoop -----------------------------
(***************************************************************************)
(* The iterators of src/stl/stl_list.h used as the header shows: a caller  *)
(* walks a list with stl_list_foreach_safe or stl_list_foreach_safe_r, and *)
(* the loop body may stl_list_del the element it is at ("It is safe to     *)
(* delete items from the list while using this iterator").  Between loops  *)
(* the list is built with the calls of StlList.  it and tmp are the        *)
(* macro's elem and n, lst the list walked, dir the direction; start (the  *)
(* list when the loop began, in the loop's direction) and seen (the        *)
(* elements the body was run on) are history variables.                    *)
(***************************************************************************)
EXTENDS Integers, Sequences, SequencesExt

CONSTANTS Lists, Nodes, NULL

VARIABLES next, prev, ret, num, empty, last, it, tmp, lst, dir, start, seen

list_vars == <<next, prev, ret, num, empty, last>>
loop_vars == <<it, tmp, lst, dir, start, seen>>
vars == <<list_vars, loop_vars>>

L == INSTANCE StlList

Init ==
    /\ L!Init
    /\ it = NULL /\ tmp = NULL /\ lst = NULL /\ dir = "fwd"
    /\ start = <<>> /\ seen = <<>>

\* The link the macros follow: ->next for stl_list_foreach_safe.
Fwd(P) == P.next

\* ->prev for stl_list_foreach_safe_r.
Bwd(P) == P.prev

Link(P, d) == IF d = "fwd" THEN Fwd(P) ELSE Bwd(P)

\* Calls on the lists outside a loop.
ListCall == it = NULL /\ L!Next /\ UNCHANGED loop_vars

\* The loop's first clause: elem = list->next (->prev), n = elem->next.
LoopBegin(l, d) ==
    LET first == Link(L!Ptrs, d)[l] IN
    /\ it = NULL /\ it' = first /\ tmp' = Link(L!Ptrs, d)[first]
    /\ lst' = l /\ dir' = d
    /\ start' = IF d = "fwd" THEN L!Contents(l) ELSE Reverse(L!Contents(l))
    /\ seen' = <<>>
    /\ UNCHANGED list_vars

\* An advance that re-reads elem->next after the body, as stl_list_foreach
\* does.
StepNoSave(P, d, x, n) == <<Link(P, d)[x], Link(P, d)[Link(P, d)[x]]>>

\* The advance of the safe macros: elem = n, n = elem->next, read from the
\* pointers the body left.
Step(P, d, x, n) == <<n, Link(P, d)[n]>>

\* One pass of the body on elem (elem != list), deleting elem or not, then
\* the advance.
LoopBody(del) ==
    LET P == IF del THEN L!Unlink(L!Ptrs, it) ELSE L!Ptrs
        s == Step(P, dir, it, tmp)
    IN /\ it # NULL /\ it # lst
       /\ seen' = Append(seen, it) /\ it' = s[1] /\ tmp' = s[2]
       /\ L!SetPtrs(P) /\ last' = IF del THEN <<"del", it>> ELSE last
       /\ UNCHANGED <<ret, num, empty, lst, dir, start>>

\* The test elem != list fails: the loop is over.
LoopEnd ==
    /\ it # NULL /\ it = lst /\ it' = NULL /\ tmp' = NULL /\ lst' = NULL
    /\ UNCHANGED <<list_vars, dir, start, seen>>

Next ==
    \/ ListCall
    \/ \E l \in Lists, d \in {"fwd", "rev"} : LoopBegin(l, d)
    \/ \E del \in BOOLEAN : LoopBody(del)
    \/ LoopEnd

Spec == Init /\ [][Next]_vars
-----------------------------------------------------------------------------
\* A safe loop whose body deletes the element it is at runs the body once on
\* each element the list held when the loop began, in the loop's direction,
\* never on one twice, and reaches the list head after the last of them.
LoopVisitsEach ==
    it # NULL =>
      /\ IsPrefix(seen, start)
      /\ (it = lst => seen = start)
=============================================================================
