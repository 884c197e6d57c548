---------------------------- MODULE BoundedFifo ----------------------------
(***************************************************************************)
(* What the ring buffer of src/src/ringbuffer.c promises its users         *)
(* (ldal_memory.c, at.c): a queue of at most Capacity bytes.  ret is what  *)
(* the last call gave back: the bytes it delivered and the count returned. *)
(***************************************************************************)
EXTENDS Naturals, Sequences

CONSTANTS
  Capacity,   \* the size of the pool
  Byte,       \* the values of a byte
  MaxLength   \* the longest block a caller passes or asks for

VARIABLES queue, ret

Blocks == UNION {[1 .. n -> Byte] : n \in 0 .. MaxLength}

Least(m, n) == IF m < n THEN m ELSE n
Room == Capacity - Len(queue)
Newest(s, n) == SubSeq(s, Len(s) - n + 1, Len(s))
Returned(s, n) == ret' = [data |-> s, count |-> n]

Init == queue = << >> /\ ret = [data |-> << >>, count |-> 0]

\* The part of the block that fits is appended.
Write(s) ==
  LET n == Least(Len(s), Room) IN
    queue' = queue \o SubSeq(s, 1, n) /\ Returned(<< >>, n)

\* A block that fits is appended whole.  One that does not is accepted as far
\* as the pool is long, and what the queue keeps is the newest of all bytes:
\* nothing older than a byte that was dropped, nothing out of order.
WriteForced(s) ==
  /\ IF Len(s) <= Room
       THEN queue' = queue \o s
       ELSE \E n \in 0 .. Capacity : queue' = Newest(queue \o s, n)
  /\ Returned(<< >>, Least(Len(s), Capacity))

\* The oldest n bytes, or all there are, leave the queue.
Read(n) ==
  LET m == Least(n, Len(queue)) IN
    /\ queue' = SubSeq(queue, m + 1, Len(queue))
    /\ Returned(SubSeq(queue, 1, m), m)

\* Some of the oldest bytes leave, at least one unless the queue is empty.
ReadSome ==
  \E n \in 0 .. Len(queue) : (queue # << >> => n > 0) /\ Read(n)

Clear == queue' = << >> /\ Returned(<< >>, 0)

Next ==
  \/ \E s \in Blocks : Write(s) \/ WriteForced(s)
  \/ \E n \in 0 .. MaxLength : Read(n)
  \/ ReadSome
  \/ Clear

Spec == Init /\ [][Next]_<<queue, ret>>
=============================================================================
