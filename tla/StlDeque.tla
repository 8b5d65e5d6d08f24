------------------------------ MODULE StlDeque ------------------------------
(***************************************************************************)
(* What stl_queue promises its callers: a double-ended FIFO of elements.   *)
(* An add may fail (out of memory) and then leaves the contents alone;     *)
(* a delete returns the element it removes, in out; deleting from an empty *)
(* queue is undefined and therefore not offered.                           *)
(***************************************************************************)
EXTENDS Naturals, Sequences

CONSTANTS Values, NULL

VARIABLES items, out

TypeOK == items \in Seq(Values) /\ out \in Values \cup {NULL}

Init == items = <<>> /\ out = NULL

AddLast(v)  == items' = Append(items, v) /\ UNCHANGED out
AddFirst(v) == items' = <<v>> \o items /\ UNCHANGED out
DelFirst    == items # <<>> /\ items' = Tail(items) /\ out' = Head(items)
DelLast     == /\ items # <<>>
               /\ items' = SubSeq(items, 1, Len(items) - 1)
               /\ out' = items[Len(items)]

Next ==
    \/ \E v \in Values : AddLast(v) \/ AddFirst(v)
    \/ DelFirst
    \/ DelLast

Spec == Init /\ [][Next]_<<items, out>>
=============================================================================
