--------------------------- MODULE StlRingBuffer ----------------------------
(***************************************************************************)
(* src/stl/stl_ringbuffer.c/.h: a byte ring over buffer[0..BufSize-1]      *)
(* with a mask and free-running-but-masked tail and head indices.  The     *)
(* buffer is empty when head = tail and full when (head - tail) & mask =   *)
(* mask, so it holds BufSize - 1 bytes; queueing into a full buffer        *)
(* first advances tail past the oldest byte.  size_t subtraction wraps     *)
(* modulo 2^64, which BufSize (a power of two) divides, so the wrap is     *)
(* taken modulo BufSize before the mask.                                   *)
(***************************************************************************)
EXTENDS Integers, Sequences

CONSTANTS Bytes, BufSize, MaxArr, NULL

VARIABLES
    buffer,       \* buffer[i]: the byte in slot i, NULL if never written
    buffer_mask,
    tail_index,
    head_index,
    byte, arr, ret, last   \* results of the last call, as in the spec

vars == <<buffer, buffer_mask, tail_index, head_index, byte, arr, ret, last>>

Slots == 0 .. BufSize - 1

TypeOK ==
    /\ buffer \in [Slots -> Bytes \union {NULL}]
    /\ buffer_mask = BufSize - 1
    /\ tail_index \in Slots /\ head_index \in Slots
    /\ ret \in 0 .. BufSize

\* x & RING_BUFFER_MASK(rb), for x a size_t computed modulo 2^64.  With
\* buffer_mask = BufSize - 1 and BufSize a power of two, a & mask is
\* a % (mask + 1), the identity the header's RING_BUFFER_MASK comment uses.
Masked(x) == (x % BufSize) % (buffer_mask + 1)

ring_buffer_is_empty == head_index = tail_index

ring_buffer_is_full == Masked(head_index - tail_index) = buffer_mask

ring_buffer_num_items == Masked(head_index - tail_index)

\* ring_buffer_init on a caller's buffer of BufSize bytes (a power of two,
\* as the assertion requires); its contents are whatever the caller had.
Init ==
    /\ buffer = [i \in Slots |-> NULL]
    /\ buffer_mask = BufSize - 1
    /\ tail_index = 0 /\ head_index = 0
    /\ byte = NULL /\ arr = <<>> /\ ret = 0 /\ last = <<"init">>

\* The ring as a record, so that the loops below can thread it through.
Ring == [buf |-> buffer, tail |-> tail_index, head |-> head_index]

\* A queue that writes without checking for a full buffer.
QueueNoOverwrite(r, d) ==
    [buf |-> [r.buf EXCEPT ![r.head] = d], tail |-> r.tail,
     head |-> Masked(r.head + 1)]

\* ring_buffer_queue on ring r: advance tail past the oldest byte when
\* full, then place d at head and advance head.
QueueOne(r, d) ==
    LET t == IF Masked(r.head - r.tail) = buffer_mask
             THEN Masked(r.tail + 1) ELSE r.tail
    IN [buf |-> [r.buf EXCEPT ![r.head] = d], tail |-> t,
        head |-> Masked(r.head + 1)]

\* The for loop of ring_buffer_queue_arr.
RECURSIVE QueueAll(_, _)
QueueAll(r, ds) == IF ds = <<>> THEN r ELSE QueueAll(QueueOne(r, Head(ds)), Tail(ds))

SetRing(r) ==
    /\ buffer' = r.buf /\ tail_index' = r.tail /\ head_index' = r.head

ring_buffer_queue(d) ==
    /\ last' = <<"queue", d>>
    /\ SetRing(QueueOne(Ring, d))
    /\ UNCHANGED <<buffer_mask, byte, arr, ret>>

ring_buffer_queue_arr(ds) ==
    /\ last' = <<"queue_arr", ds>>
    /\ SetRing(QueueAll(Ring, ds))
    /\ UNCHANGED <<buffer_mask, byte, arr, ret>>

\* A dequeue that advances tail without the mask.
DequeueUnmasked ==
    /\ last' = <<"dequeue">>
    /\ \/ ring_buffer_is_empty /\ ret' = 0
          /\ UNCHANGED <<tail_index, byte>>
       \/ ~ring_buffer_is_empty /\ ret' = 1 /\ byte' = buffer[tail_index]
          /\ tail_index' = tail_index + 1
    /\ UNCHANGED <<buffer, buffer_mask, head_index, arr>>

ring_buffer_dequeue ==
    /\ last' = <<"dequeue">>
    /\ \/ ring_buffer_is_empty /\ ret' = 0
          /\ UNCHANGED <<tail_index, byte>>
       \/ ~ring_buffer_is_empty /\ ret' = 1 /\ byte' = buffer[tail_index]
          /\ tail_index' = Masked(tail_index + 1)
    /\ UNCHANGED <<buffer, buffer_mask, head_index, arr>>

\* The while loop of ring_buffer_dequeue_arr: ring_buffer_dequeue until
\* len bytes are out or the ring is empty; the result is <<ring, bytes>>.
RECURSIVE DequeueUpTo(_, _, _)
DequeueUpTo(r, len, got) ==
    IF Len(got) < len /\ r.head # r.tail
    THEN DequeueUpTo([r EXCEPT !.tail = Masked(r.tail + 1)], len,
                     Append(got, r.buf[r.tail]))
    ELSE <<r, got>>

ring_buffer_dequeue_arr(len) ==
    LET res == DequeueUpTo(Ring, len, <<>>)
    IN /\ last' = <<"dequeue_arr", len>>
       /\ \/ ring_buffer_is_empty /\ ret' = 0 /\ arr' = <<>>
             /\ UNCHANGED tail_index
          \/ ~ring_buffer_is_empty /\ ret' = Len(res[2]) /\ arr' = res[2]
             /\ tail_index' = res[1].tail
       /\ UNCHANGED <<buffer, buffer_mask, head_index, byte>>

ring_buffer_peek(i) ==
    /\ last' = <<"peek", i>>
    /\ \/ i >= ring_buffer_num_items /\ ret' = 0 /\ UNCHANGED byte
       \/ i < ring_buffer_num_items /\ ret' = 1
          /\ byte' = buffer[Masked(tail_index + i)]
    /\ UNCHANGED <<buffer, buffer_mask, tail_index, head_index, arr>>

Next ==
    \/ \E d \in Bytes : ring_buffer_queue(d)
    \/ \E n \in 0 .. MaxArr : \E ds \in [1 .. n -> Bytes] : ring_buffer_queue_arr(ds)
    \/ ring_buffer_dequeue
    \/ \E len \in 0 .. BufSize : ring_buffer_dequeue_arr(len)
    \/ \E i \in 0 .. BufSize : ring_buffer_peek(i)

Spec == Init /\ [][Next]_vars

-----------------------------------------------------------------------------
\* The bytes held, oldest first: the num_items slots from tail on.
Held == [k \in 1 .. ring_buffer_num_items |-> buffer[Masked(tail_index + k - 1)]]

Abs == INSTANCE StlRingBufferSpec WITH q <- Held

\* Every sequence of queue, queue_arr, dequeue, dequeue_arr and peek
\* behaves as a FIFO of at most BufSize - 1 bytes that drops its oldest
\* byte when a byte is queued into a full buffer.
RingRefinement == Abs!Spec
=============================================================================
