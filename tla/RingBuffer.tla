----------------------------- MODULE RingBuffer -----------------------------
(***************************************************************************)
(* src/src/ringbuffer.c: a pool with a read and a write index, each with a *)
(* one-bit mirror that is flipped when the index wraps, so that full and   *)
(* empty differ when the indices agree.  ldal_memory.c calls it under      *)
(* device->mutex, so an operation is one action.  The index arithmetic is  *)
(* written without % so that it can be reasoned about.                     *)
(***************************************************************************)
EXTENDS Naturals, Sequences

CONSTANTS
  Size,        \* buffer_size: positive, a multiple of 4, below 2^15
  Byte, Zero,  \* the values of a byte; the one bzero stores
  MaxLength    \* the longest block a caller passes or asks for

ASSUME RingAssumption ==
  /\ Size \in Nat \ {0} /\ Size < 32768
  /\ Zero \in Byte
  /\ MaxLength \in Nat \ {0} /\ MaxLength < 65536

VARIABLES
  read_mirror, read_index, write_mirror, write_index,
  buffer,   \* the pool buffer_ptr points to
  ret       \* the last call's result: the bytes delivered, the count returned

vars == <<read_mirror, read_index, write_mirror, write_index, buffer, ret>>
readEnd == <<read_mirror, read_index>>
writeEnd == <<write_mirror, write_index>>

Slots == 0 .. Size - 1
Blocks == UNION {[1 .. n -> Byte] : n \in 0 .. MaxLength}
Least(m, n) == IF m < n THEN m ELSE n

Flip(m) == 1 - m   \* ~ on a field one bit wide

\* dg_ringbuffer_init on the pool that dg_ringbuffer_create has zeroed.
Init ==
  /\ read_mirror = 0 /\ read_index = 0
  /\ write_mirror = 0 /\ write_index = 0
  /\ buffer = [i \in Slots |-> Zero]
  /\ ret = [data |-> << >>, count |-> 0]

Empty == read_index = write_index /\ read_mirror = write_mirror
Full == read_index = write_index /\ read_mirror # write_mirror

DataLen ==
  CASE Empty -> 0
    [] Full -> Size
    [] read_index < write_index -> write_index - read_index
    [] OTHER -> Size - (read_index - write_index)

SpaceLen == Size - DataLen

-----------------------------------------------------------------------------
(* Moving an index by n <= Size positions, and copying through the wrap     *)

Wraps(i, n) == ~(Size - i > n)
Moved(i, n) == IF Wraps(i, n) THEN n - (Size - i) ELSE i + n
\* Seeded fault: an index that reaches the end keeps its mirror.
NeverFlips(m, i, n) == m

MovedMirror(m, i, n) == IF Wraps(i, n) THEN Flip(m) ELSE m

\* How far slot i lies after slot start, going round.
After(start, i) == IF i < start THEN i + Size - start ELSE i - start

\* The two memcpy's of put: s from write_index on, then from slot 0.
Stored(s) ==
  [i \in Slots |->
     IF After(write_index, i) < Len(s) THEN s[After(write_index, i) + 1]
                                       ELSE buffer[i]]

\* The two memcpy's of get: n bytes from read_index on, then from slot 0.
Fetched(n) == [k \in 1 .. n |-> buffer[IF read_index + k - 1 < Size
                                         THEN read_index + k - 1
                                         ELSE read_index + k - 1 - Size]]

Returned(s, n) == ret' = [data |-> s, count |-> n]

-----------------------------------------------------------------------------
(* Operations                                                               *)

Put(s) ==
  LET n == Least(Len(s), SpaceLen) IN
    /\ buffer' = Stored(SubSeq(s, 1, n))
    /\ write_index' = Moved(write_index, n)
    /\ write_mirror' = MovedMirror(write_mirror, write_index, n)
    /\ Returned(<< >>, n)
    /\ UNCHANGED readEnd

\* The newest Size bytes of the block are stored.  If they do not fit, the
\* read end is set to the write end, its mirror flipped when the write wrapped.
PutForce(s) ==
  LET n == Least(Len(s), Size)
      kept == SubSeq(s, Len(s) - n + 1, Len(s)) IN
    /\ buffer' = Stored(kept)
    /\ write_index' = Moved(write_index, n)
    /\ write_mirror' = MovedMirror(write_mirror, write_index, n)
    /\ IF n > SpaceLen
         THEN /\ read_index' = write_index'
              /\ read_mirror' = MovedMirror(read_mirror, write_index, n)
         ELSE UNCHANGED readEnd
    /\ Returned(<< >>, n)

Available(n) == Least(n, DataLen)

Get(len) ==
  LET n == Available(len) IN
    /\ Returned(Fetched(n), n)
    /\ read_index' = Moved(read_index, n)
    /\ read_mirror' = MovedMirror(read_mirror, read_index, n)
    /\ UNCHANGED <<writeEnd, buffer>>

\* Consumes and points at the bytes up to the end of the pool.
Peak ==
  LET n == Least(DataLen, Size - read_index) IN
    /\ Returned(Fetched(n), n)
    /\ read_index' = Moved(read_index, n)
    /\ read_mirror' = MovedMirror(read_mirror, read_index, n)
    /\ UNCHANGED <<writeEnd, buffer>>


AtEnd(i) == i = Size - 1
StepIndex(i) == IF AtEnd(i) THEN 0 ELSE i + 1
StepMirror(m, i) == IF AtEnd(i) THEN Flip(m) ELSE m

PutChar(c) ==
  \/ /\ SpaceLen = 0
     /\ Returned(<< >>, 0)
     /\ UNCHANGED <<readEnd, writeEnd, buffer>>
  \/ /\ SpaceLen # 0
     /\ buffer' = [buffer EXCEPT ![write_index] = c]
     /\ write_index' = StepIndex(write_index)
     /\ write_mirror' = StepMirror(write_mirror, write_index)
     /\ Returned(<< >>, 1)
     /\ UNCHANGED readEnd

\* Seeded fault: fullness is tested after the write end has moved.
FullAfterwards == read_index = StepIndex(write_index)

WasFull == Full

PutCharForce(c) ==
  /\ buffer' = [buffer EXCEPT ![write_index] = c]
  /\ write_index' = StepIndex(write_index)
  /\ write_mirror' = StepMirror(write_mirror, write_index)
  /\ IF WasFull
       THEN /\ read_index' = write_index'
            /\ read_mirror' = StepMirror(read_mirror, write_index)
       ELSE UNCHANGED readEnd
  /\ Returned(<< >>, 1)

GetChar ==
  \/ /\ DataLen = 0
     /\ Returned(<< >>, 0)
     /\ UNCHANGED <<readEnd, writeEnd, buffer>>
  \/ /\ DataLen # 0
     /\ Returned(<<buffer[read_index]>>, 1)
     /\ read_index' = StepIndex(read_index)
     /\ read_mirror' = StepMirror(read_mirror, read_index)
     /\ UNCHANGED <<writeEnd, buffer>>

Reset ==
  /\ read_mirror' = 0 /\ read_index' = 0
  /\ write_mirror' = 0 /\ write_index' = 0
  /\ Returned(<< >>, 0)
  /\ UNCHANGED buffer

Next ==
  \/ \E s \in Blocks : Put(s) \/ PutForce(s)
  \/ \E n \in 0 .. MaxLength : Get(n)
  \/ \E c \in Byte : PutChar(c) \/ PutCharForce(c)
  \/ GetChar
  \/ Peak
  \/ Reset

Spec == Init /\ [][Next]_vars

-----------------------------------------------------------------------------
(* Properties                                                               *)

\* Types; the widths of the bit fields bound the mirrors and the indices.
TypeOK ==
  /\ read_mirror \in 0 .. 1 /\ write_mirror \in 0 .. 1
  /\ read_index \in Slots /\ write_index \in Slots
  /\ buffer \in [Slots -> Byte]
  /\ ret.count \in 0 .. Size

\* The write end is never more than one pool ahead of the read end: the
\* mirrors agree when it has not wrapped past the read end, and differ when
\* it has (ringbuffer.h:35-51).  Without it data_len is meaningless.
MirrorsAgree ==
  /\ read_mirror = write_mirror => read_index <= write_index
  /\ read_mirror # write_mirror => write_index <= read_index

\* The bytes the buffer holds, the oldest first.
Contents == Fetched(DataLen)

Fifo == INSTANCE BoundedFifo WITH
  Capacity <- Size, queue <- Contents

\* Every operation does to the contents what the bounded queue promises.
ImplementsFifo == Fifo!Spec

\* The comment of put_force (ringbuffer.c:80): when the buffer is full the old
\* data is discarded, so what remains is the newest Size bytes.
ForceKeepsNewest ==
  [][\A s \in Blocks :
       PutForce(s) =>
         LET all == Contents \o s IN
           Contents' = Fifo!Newest(all, Least(Len(all), Size))]_vars
=============================================================================
