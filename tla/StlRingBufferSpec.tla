------------------------- MODULE StlRingBufferSpec --------------------------
(***************************************************************************)
(* What stl_ringbuffer promises (src/stl/stl_ringbuffer.h): a FIFO of      *)
(* bytes holding at most BufSize - 1 of them, where queueing into a full   *)
(* buffer drops the oldest byte.  dequeue returns the oldest byte,         *)
(* dequeue_arr up to len oldest bytes, peek(i) the i-th oldest without     *)
(* removing it; each reports 0 when there is nothing to return.            *)
(***************************************************************************)
EXTENDS Integers, Sequences

CONSTANTS Bytes, BufSize, MaxArr, NULL

Capacity == BufSize - 1

VARIABLES
    q,      \* the bytes held, oldest first
    byte,   \* the byte the last dequeue or peek wrote to *data
    arr,    \* the bytes the last dequeue_arr wrote to data[]
    ret,    \* what the last dequeue, dequeue_arr or peek returned
    last    \* the last call and its argument

vars == <<q, byte, arr, ret, last>>

Init == q = <<>> /\ byte = NULL /\ arr = <<>> /\ ret = 0 /\ last = <<"init">>

\* One byte in: the oldest is dropped when the buffer is full.
Push(s, d) == IF Len(s) = Capacity THEN Append(Tail(s), d) ELSE Append(s, d)

RECURSIVE PushAll(_, _)
PushAll(s, ds) == IF ds = <<>> THEN s ELSE PushAll(Push(s, Head(ds)), Tail(ds))

Queue(d) ==
    /\ last' = <<"queue", d>>
    /\ q' = Push(q, d)
    /\ UNCHANGED <<byte, arr, ret>>

QueueArr(ds) ==
    /\ last' = <<"queue_arr", ds>>
    /\ q' = PushAll(q, ds)
    /\ UNCHANGED <<byte, arr, ret>>

Dequeue ==
    /\ last' = <<"dequeue">>
    /\ \/ q = <<>> /\ ret' = 0 /\ UNCHANGED <<q, byte>>
       \/ q # <<>> /\ ret' = 1 /\ byte' = Head(q) /\ q' = Tail(q)
    /\ UNCHANGED arr

DequeueArr(len) ==
    LET n == IF len < Len(q) THEN len ELSE Len(q)
    IN /\ last' = <<"dequeue_arr", len>>
       /\ ret' = n
       /\ arr' = SubSeq(q, 1, n)
       /\ q' = SubSeq(q, n + 1, Len(q))
       /\ UNCHANGED byte

Peek(i) ==
    /\ last' = <<"peek", i>>
    /\ \/ i >= Len(q) /\ ret' = 0 /\ UNCHANGED byte
       \/ i < Len(q) /\ ret' = 1 /\ byte' = q[i + 1]
    /\ UNCHANGED <<q, arr>>

Next ==
    \/ \E d \in Bytes : Queue(d)
    \/ \E n \in 0 .. MaxArr : \E ds \in [1 .. n -> Bytes] : QueueArr(ds)
    \/ Dequeue
    \/ \E len \in 0 .. BufSize : DequeueArr(len)
    \/ \E i \in 0 .. BufSize : Peek(i)

Spec == Init /\ [][Next]_vars
=============================================================================
