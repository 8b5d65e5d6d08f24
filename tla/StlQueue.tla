------------------------------ MODULE StlQueue ------------------------------
(***************************************************************************)
(* The ring buffer of src/stl/stl_queue.{h,c}, used single-threaded.       *)
(*                                                                         *)
(* A queue is a pointer to the elems[] array of a header {cap, first,      *)
(* last}.  cap is a power of two and every index is masked with cap - 1;   *)
(* one slot is always left free, so (last - first) & (cap - 1) is the      *)
(* element count.  A queue created with capacity 0 points at the static    *)
(* header sc_empty (cap = 1).  Adding into a full ring first expands it:   *)
(* realloc to twice the capacity, then a memcpy/memmove/memcpy sequence    *)
(* that rotates the contents so that first = 0.                            *)
(*                                                                         *)
(* size_t arithmetic masked with cap - 1 equals TLA+ % cap: cap divides    *)
(* 2^64, so the wrap of first - 1 at 0 is kept.                            *)
(***************************************************************************)
EXTENDS Naturals

CONSTANTS
    Values,   \* the elements stored (model values)
    NULL,     \* contents of a slot never written
    MaxCap    \* bound on the capacity the model lets the queue reach

ASSUME MaxCap \in {4, 8, 16}

VARIABLES
    cap, first, last,   \* the stl_queue header the queue points at
    elems,              \* elems[0 .. MaxCap-1]; slots >= cap are unused
    out                 \* the value returned by the last del_first/del_last

vars == <<cap, first, last, elems, out>>

Slots == 0 .. MaxCap - 1

TypeOK ==
    /\ cap \in {1, 4, 8, 16}
    /\ first \in 0 .. cap - 1 /\ last \in 0 .. cap - 1
    /\ elems \in [Slots -> Values \cup {NULL}]
    /\ out \in Values \cup {NULL}

\* stl_queue_size
Size == (last - first) % cap

\* the static empty header sc_empty
IsStaticEmpty == cap = 1

\* queue_alloc: the next power of two of v, at least 4.
RECURSIVE Pow2From(_, _)
Pow2From(v, p) == IF p >= v THEN p ELSE Pow2From(v, 2 * p)
AllocCap(v) == Pow2From(v, 4)

\* stl_queue_create(q, 0)
Init ==
    /\ cap = 1 /\ first = 0 /\ last = 0
    /\ elems = [i \in Slots |-> NULL]
    /\ out = NULL

\* stl_queue_expand: pos == first means the ring is full.
Full == (last + 1) % cap = first

\* Mutant of Rotated: the expand without its middle memmove, so the
\* wrapped-around prefix e[0..first) is not moved up behind the tail.
RotatedNoMemmove ==
    LET count == cap - first IN
    [i \in Slots |->
        IF i < count THEN elems[first + i]
        ELSE IF i < cap + count /\ i >= cap THEN elems[first + i - cap]
        ELSE elems[i]]

\* The contents after realloc to capacity 2*cap followed by the three
\* copies: e[cap..cap+count) := e[first..cap); e[count..count+first) :=
\* e[0..first); e[0..count) := e[cap..cap+count), with count = cap - first.
Rotated ==
    LET count == cap - first IN
    [i \in Slots |->
        IF i < count THEN elems[first + i]
        ELSE IF i < cap THEN elems[i - count]
        ELSE IF i < cap + count THEN elems[first + i - cap]
        ELSE elems[i]]

\* stl_queue_expand: the header after a successful expand.  A ring with a
\* free slot is left alone; sc_empty is replaced by a fresh 4-slot header;
\* a full ring is doubled and rotated.
Expand ==
    CASE ~Full        -> [cap |-> cap, first |-> first, last |-> last, elems |-> elems]
      [] IsStaticEmpty -> [cap |-> AllocCap(4), first |-> 0, last |-> 0, elems |-> elems]
      [] OTHER        -> [cap |-> AllocCap(cap * 2), first |-> 0, last |-> cap - 1,
                          elems |-> Rotated]

\* The model only lets the ring grow up to MaxCap.  A failed realloc makes
\* the add return false with the queue untouched: a stuttering step, left
\* out of Next.
CanExpand == ~Full \/ IsStaticEmpty \/ AllocCap(cap * 2) <= MaxCap

\* q[inc_last(q)] = elem on the header h.
PutLast(v, h) ==
    /\ cap' = h.cap /\ first' = h.first
    /\ elems' = [h.elems EXCEPT ![h.last] = v]
    /\ last' = (h.last + 1) % h.cap

\* Mutant of PutFirst: dec_first without the mask, first - 1 at first = 0.
PutFirstUnmasked(v, h) ==
    /\ cap' = h.cap /\ last' = h.last
    /\ first' = h.first - 1
    /\ elems' = [h.elems EXCEPT ![(h.first - 1) % h.cap] = v]

\* q[dec_first(q)] = elem on the header h.
PutFirst(v, h) ==
    /\ cap' = h.cap /\ last' = h.last
    /\ first' = (h.first - 1) % h.cap
    /\ elems' = [h.elems EXCEPT ![(h.first - 1) % h.cap] = v]

\* stl_queue_add_last: expand, then q[inc_last(q)] = elem.
add_last(v) ==
    /\ CanExpand
    /\ PutLast(v, Expand)
    /\ UNCHANGED out

\* stl_queue_add_first: expand, then q[dec_first(q)] = elem.
add_first(v) ==
    /\ CanExpand
    /\ PutFirst(v, Expand)
    /\ UNCHANGED out

\* stl_queue_del_first: q[inc_first(q)]; undefined on an empty queue, so
\* callers only use it when the queue is known to hold an element.
del_first ==
    /\ Size > 0
    /\ out' = elems[first]
    /\ first' = (first + 1) % cap
    /\ UNCHANGED <<cap, last, elems>>

\* stl_queue_del_last: q[dec_last(q)].
del_last ==
    /\ Size > 0
    /\ last' = (last - 1) % cap
    /\ out' = elems[(last - 1) % cap]
    /\ UNCHANGED <<cap, first, elems>>

Next ==
    \/ \E v \in Values : add_last(v) \/ add_first(v)
    \/ del_first
    \/ del_last

Spec == Init /\ [][Next]_vars

-----------------------------------------------------------------------------
\* The queue's contents in order, read from first up to last.
Contents == [i \in 1 .. Size |-> elems[(first + i - 1) % cap]]

Deque == INSTANCE StlDeque WITH items <- Contents

\* Refinement: every sequence of add/del calls on the ring buffer, expands
\* included, behaves as the FIFO deque of StlDeque,
\* and every delete returns the element the deque says it removes.
DequeRefinement == Deque!Spec
=============================================================================
