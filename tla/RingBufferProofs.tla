-------------------------- MODULE RingBufferProofs --------------------------
(***************************************************************************)
(* For every size of the pool and every length of the blocks: the indices  *)
(* stay inside the pool, the mirrors keep full and empty apart, and the    *)
(* ring buffer implements the bounded queue.  The argument for the last:   *)
(* Contents is a run of slots that starts at the read end and stops at the *)
(* write end; a write fills the slots behind it, a read drops slots at its *)
(* beginning.  The operations on one character are those on a block of     *)
(* length 1.                                                               *)
(***************************************************************************)
EXTENDS RingBuffer, SequenceTheorems, TLAPS

IInv == TypeOK /\ MirrorsAgree

\* The amount of data is at most the pool, as long as the mirrors agree.
LEMMA DataLenBound ==
  ASSUME IInv
  PROVE  /\ DataLen \in 0 .. Size
         /\ SpaceLen \in 0 .. Size
         /\ read_mirror = write_mirror => DataLen = write_index - read_index
         /\ read_mirror # write_mirror =>
              DataLen = Size - (read_index - write_index)
<1>1. /\ Size \in Nat \ {0} /\ read_index \in 0 .. Size - 1 /\ write_index \in 0 .. Size - 1
      /\ read_mirror = write_mirror => read_index <= write_index
      /\ read_mirror # write_mirror => write_index <= read_index
  BY RingAssumption DEF RingAssumption, IInv, TypeOK, MirrorsAgree, Slots
<1>2. CASE read_mirror = write_mirror
  <2>1. DataLen = write_index - read_index
    BY <1>1, <1>2 DEF DataLen, Empty, Full
  <2> QED
    BY <1>1, <1>2, <2>1 DEF SpaceLen
<1>3. CASE read_mirror # write_mirror
  <2>1. DataLen = Size - (read_index - write_index)
    BY <1>1, <1>3 DEF DataLen, Empty, Full
  <2> QED
    BY <1>1, <1>3, <2>1 DEF SpaceLen
<1> QED
  BY <1>2, <1>3

\* An index moved by at most a pool stays in the pool.
LEMMA MovedInSlots ==
  ASSUME NEW i \in Slots, NEW n \in 0 .. Size
  PROVE  Moved(i, n) \in Slots
  BY RingAssumption DEF RingAssumption, Slots, Moved, Wraps

LEMMA StoredType ==
  ASSUME TypeOK, NEW s \in Seq(Byte)
  PROVE  Stored(s) \in [Slots -> Byte]
<1>1. \A i \in Slots : After(write_index, i) \in Nat
  BY RingAssumption DEF RingAssumption, TypeOK, Slots, After
<1>2. \A i \in Slots : After(write_index, i) < Len(s) =>
        s[After(write_index, i) + 1] \in Byte
  BY <1>1
<1> QED
  BY <1>2 DEF Stored, TypeOK

LEMMA BlockType ==
  ASSUME NEW s \in Blocks
  PROVE  s \in Seq(Byte) /\ Len(s) \in Nat
<1>1. PICK n \in 0 .. MaxLength : s \in [1 .. n -> Byte]
  BY DEF Blocks
<1> QED
  BY <1>1, RingAssumption DEF RingAssumption

LEMMA InitIInv == Init => IInv
  BY RingAssumption
  DEF RingAssumption, Init, IInv, TypeOK, MirrorsAgree, Slots

\* What MirrorsAgree says of a read end rm, ri and a write end wm, wi, and the
\* number of bytes between them.
Agree(rm, ri, wm, wi) ==
  /\ rm = wm => ri <= wi
  /\ rm # wm => wi <= ri

Between(rm, ri, wm, wi) == IF rm = wm THEN wi - ri ELSE Size - (ri - wi)

LEMMA BetweenIsDataLen ==
  ASSUME IInv
  PROVE  /\ Agree(read_mirror, read_index, write_mirror, write_index)
         /\ DataLen = Between(read_mirror, read_index, write_mirror, write_index)
  BY DataLenBound DEF IInv, MirrorsAgree, Agree, Between

LEMMA MovedMirrorType ==
  ASSUME NEW m \in 0 .. 1, NEW i, NEW n
  PROVE  MovedMirror(m, i, n) \in 0 .. 1
  BY DEF MovedMirror, Flip

\* A write end moved by at most the free space does not pass the read end.
LEMMA WriteAgrees ==
  ASSUME NEW rm \in 0 .. 1, NEW ri \in Slots, NEW wm \in 0 .. 1, NEW wi \in Slots,
         Agree(rm, ri, wm, wi), NEW n \in 0 .. Size,
         n <= Size - Between(rm, ri, wm, wi)
  PROVE  Agree(rm, ri, MovedMirror(wm, wi, n), Moved(wi, n))
<1>1. ri \in Nat /\ wi \in Nat /\ Size \in Nat /\ ri < Size /\ wi < Size
  BY RingAssumption DEF RingAssumption, Slots
<1>2. CASE Wraps(wi, n)
  <2>1. MovedMirror(wm, wi, n) = 1 - wm /\ Moved(wi, n) = n - (Size - wi)
    BY <1>2 DEF MovedMirror, Moved, Flip
  <2>2. rm = wm
    BY <1>1, <1>2 DEF Wraps, Agree, Between
  <2>3. rm # 1 - wm
    BY <2>2
  <2>4. n - (Size - wi) <= ri
    BY <1>1, <2>2 DEF Between
  <2> QED
    BY <2>1, <2>3, <2>4 DEF Agree
<1>3. CASE ~Wraps(wi, n)
  <2>1. MovedMirror(wm, wi, n) = wm /\ Moved(wi, n) = wi + n
    BY <1>3 DEF MovedMirror, Moved
  <2>2. rm = wm => ri <= wi + n
    BY <1>1 DEF Agree
  <2>3. rm # wm => wi + n <= ri
    BY <1>1 DEF Between
  <2> QED
    BY <2>1, <2>2, <2>3 DEF Agree
<1> QED
  BY <1>2, <1>3

\* A read end moved by at most the data does not pass the write end.
LEMMA ReadAgrees ==
  ASSUME NEW rm \in 0 .. 1, NEW ri \in Slots, NEW wm \in 0 .. 1, NEW wi \in Slots,
         Agree(rm, ri, wm, wi), NEW n \in 0 .. Size,
         n <= Between(rm, ri, wm, wi)
  PROVE  Agree(MovedMirror(rm, ri, n), Moved(ri, n), wm, wi)
<1>1. ri \in Nat /\ wi \in Nat /\ Size \in Nat /\ ri < Size /\ wi < Size
  BY RingAssumption DEF RingAssumption, Slots
<1>2. CASE Wraps(ri, n)
  <2>1. MovedMirror(rm, ri, n) = 1 - rm /\ Moved(ri, n) = n - (Size - ri)
    BY <1>2 DEF MovedMirror, Moved, Flip
  <2>2. rm # wm
    BY <1>1, <1>2 DEF Wraps, Between
  <2>3. 1 - rm = wm
    BY <2>2
  <2>4. n - (Size - ri) <= wi
    BY <1>1, <2>2 DEF Between
  <2> QED
    BY <2>1, <2>3, <2>4 DEF Agree
<1>3. CASE ~Wraps(ri, n)
  <2>1. MovedMirror(rm, ri, n) = rm /\ Moved(ri, n) = ri + n
    BY <1>3 DEF MovedMirror, Moved
  <2>2. rm = wm => ri + n <= wi
    BY <1>1 DEF Between
  <2>3. rm # wm => wi <= ri + n
    BY <1>1 DEF Agree
  <2> QED
    BY <2>1, <2>2, <2>3 DEF Agree
<1> QED
  BY <1>2, <1>3

\* Two ends at the same index agree, empty or full.
LEMMA SameIndexAgrees ==
  ASSUME NEW rm, NEW wm, NEW i \in Slots
  PROVE  Agree(rm, i, wm, i)
  BY RingAssumption DEF RingAssumption, Slots, Agree

\* The single-byte operations move an end by one.
LEMMA StepIsMove ==
  ASSUME NEW i \in Slots, NEW m
  PROVE  /\ StepIndex(i) = Moved(i, 1)
         /\ StepMirror(m, i) = MovedMirror(m, i, 1)
         /\ 1 \in 0 .. Size
<1>1. Wraps(i, 1) <=> AtEnd(i)
  BY RingAssumption DEF RingAssumption, Slots, Wraps, AtEnd
<1>2. AtEnd(i) => 1 - (Size - i) = 0
  BY RingAssumption DEF RingAssumption, Slots, AtEnd
<1>3. 1 \in 0 .. Size
  BY RingAssumption DEF RingAssumption
<1> QED
  BY <1>1, <1>2, <1>3 DEF StepIndex, StepMirror, Moved, MovedMirror

\* The three ways a step treats the ends: it writes n bytes that fit, writes n
\* that take the read end along, or reads n.
LEMMA WroteFitting ==
  ASSUME IInv, NEW n \in 0 .. Size, n <= SpaceLen,
         write_index' = Moved(write_index, n),
         write_mirror' = MovedMirror(write_mirror, write_index, n),
         UNCHANGED readEnd
  PROVE  MirrorsAgree' /\ write_index' \in Slots /\ write_mirror' \in 0 .. 1
<1>1. write_index' \in Slots /\ write_mirror' \in 0 .. 1
  BY MovedInSlots, MovedMirrorType DEF IInv, TypeOK
<1>2. Agree(read_mirror, read_index, write_mirror', write_index')
  BY BetweenIsDataLen, WriteAgrees DEF IInv, TypeOK, SpaceLen
<1> QED
  BY <1>1, <1>2 DEF Agree, MirrorsAgree, readEnd

LEMMA WroteOver ==
  ASSUME IInv, NEW n \in 0 .. Size,
         write_index' = Moved(write_index, n),
         write_mirror' = MovedMirror(write_mirror, write_index, n),
         read_index' = write_index',
         read_mirror' = MovedMirror(read_mirror, write_index, n)
  PROVE  /\ MirrorsAgree' /\ write_index' \in Slots /\ write_mirror' \in 0 .. 1
         /\ read_index' \in Slots /\ read_mirror' \in 0 .. 1
<1>1. /\ write_index' \in Slots /\ write_mirror' \in 0 .. 1
      /\ read_mirror' \in 0 .. 1
  BY MovedInSlots, MovedMirrorType DEF IInv, TypeOK
<1>2. Agree(read_mirror', read_index', write_mirror', write_index')
  BY <1>1, SameIndexAgrees
<1> QED
  BY <1>1, <1>2 DEF Agree, MirrorsAgree

LEMMA ReadAvailable ==
  ASSUME IInv, NEW n \in 0 .. Size, n <= DataLen,
         read_index' = Moved(read_index, n),
         read_mirror' = MovedMirror(read_mirror, read_index, n),
         UNCHANGED writeEnd
  PROVE  MirrorsAgree' /\ read_index' \in Slots /\ read_mirror' \in 0 .. 1
<1>1. read_index' \in Slots /\ read_mirror' \in 0 .. 1
  BY MovedInSlots, MovedMirrorType DEF IInv, TypeOK
<1>2. Agree(read_mirror', read_index', write_mirror, write_index)
  BY BetweenIsDataLen, ReadAgrees DEF IInv, TypeOK
<1> QED
  BY <1>1, <1>2 DEF Agree, MirrorsAgree, writeEnd

\* put: a write of at most the free space.
LEMMA PutIInv ==
  ASSUME IInv, NEW s \in Blocks, Put(s)
  PROVE  IInv'
<1> DEFINE n == Least(Len(s), SpaceLen)
<1>1. n \in 0 .. Size /\ n \in 0 .. Len(s) /\ n <= SpaceLen
  BY BlockType, DataLenBound, RingAssumption DEF Least, RingAssumption
<1>2. SubSeq(s, 1, n) \in Seq(Byte)
  BY <1>1, BlockType, SubSeqProperties
<1>3. buffer' \in [Slots -> Byte]
  BY <1>2, StoredType DEF Put, IInv
<1>4. /\ write_index' = Moved(write_index, n)
      /\ write_mirror' = MovedMirror(write_mirror, write_index, n)
      /\ UNCHANGED readEnd /\ ret'.count = n
  BY DEF Put, Returned
<1> HIDE DEF n
<1>5. MirrorsAgree' /\ write_index' \in Slots /\ write_mirror' \in 0 .. 1
  BY <1>1, <1>4, WroteFitting
<1> QED
  BY <1>1, <1>3, <1>4, <1>5 DEF IInv, TypeOK, readEnd

\* put_force: a write that passes the read end takes it along.
LEMMA PutForceIInv ==
  ASSUME IInv, NEW s \in Blocks, PutForce(s)
  PROVE  IInv'
<1> DEFINE n == Least(Len(s), Size)
           kept == SubSeq(s, Len(s) - n + 1, Len(s))
<1>1. n \in 0 .. Size /\ n \in 0 .. Len(s)
  BY BlockType, RingAssumption DEF Least, RingAssumption
<1>2. kept \in Seq(Byte)
  <2>1. \A i \in (Len(s) - n + 1) .. Len(s) : s[i] \in Byte
    BY <1>1, BlockType
  <2>2. Len(s) - n + 1 \in Int /\ Len(s) \in Int
    BY <1>1, BlockType
  <2> HIDE DEF n
  <2> QED
    BY <2>1, <2>2, SubSeqProperties
<1>3. buffer' \in [Slots -> Byte]
  BY <1>2, StoredType DEF PutForce, IInv
<1>4. /\ write_index' = Moved(write_index, n)
      /\ write_mirror' = MovedMirror(write_mirror, write_index, n)
      /\ ret'.count = n
      /\ n > SpaceLen => /\ read_index' = write_index'
                         /\ read_mirror' = MovedMirror(read_mirror, write_index, n)
      /\ ~(n > SpaceLen) => UNCHANGED readEnd
  BY DEF PutForce, Returned
<1> HIDE DEF n, kept
<1>5. CASE n > SpaceLen
  <2>1. /\ MirrorsAgree' /\ write_index' \in Slots /\ write_mirror' \in 0 .. 1
        /\ read_index' \in Slots /\ read_mirror' \in 0 .. 1
    BY <1>1, <1>4, <1>5, WroteOver
  <2> QED
    BY <1>1, <1>3, <1>4, <2>1 DEF IInv, TypeOK
<1>6. CASE ~(n > SpaceLen)
  <2>1. n <= SpaceLen
    BY <1>1, <1>6, DataLenBound, RingAssumption DEF RingAssumption
  <2>2. MirrorsAgree' /\ write_index' \in Slots /\ write_mirror' \in 0 .. 1
    BY <1>1, <1>4, <1>6, <2>1, WroteFitting
  <2> QED
    BY <1>1, <1>3, <1>4, <1>6, <2>2 DEF IInv, TypeOK, readEnd
<1> QED
  BY <1>5, <1>6

\* get, peak: a read of at most the data.
LEMMA FetchIInv ==
  ASSUME IInv, NEW n \in 0 .. DataLen,
         Returned(Fetched(n), n),
         read_index' = Moved(read_index, n),
         read_mirror' = MovedMirror(read_mirror, read_index, n),
         UNCHANGED <<writeEnd, buffer>>
  PROVE  IInv'
<1>1. n \in 0 .. Size /\ n <= DataLen
  BY DataLenBound, RingAssumption DEF RingAssumption
<1>2. MirrorsAgree' /\ read_index' \in Slots /\ read_mirror' \in 0 .. 1
  BY <1>1, ReadAvailable
<1> QED
  BY <1>1, <1>2 DEF IInv, TypeOK, Returned, writeEnd

LEMMA GetIInv ==
  ASSUME IInv, NEW len \in 0 .. MaxLength, Get(len)
  PROVE  IInv'
<1>1. Available(len) \in 0 .. DataLen
  BY DataLenBound, RingAssumption DEF RingAssumption, Available, Least
<1> QED
  BY <1>1, FetchIInv DEF Get

LEMMA PeakIInv == ASSUME IInv, Peak PROVE IInv'
<1>1. Least(DataLen, Size - read_index) \in 0 .. DataLen
  BY DataLenBound, RingAssumption
  DEF RingAssumption, Least, IInv, TypeOK, Slots
<1> QED
  BY <1>1, FetchIInv DEF Peak

\* A call that stores or fetches nothing leaves the buffer as it is.
LEMMA NothingDone ==
  ASSUME IInv, Returned(<< >>, 0), UNCHANGED <<readEnd, writeEnd, buffer>>
  PROVE  IInv'
<1>1. ret'.count = 0 /\ 0 \in 0 .. Size
  BY RingAssumption DEF RingAssumption, Returned
<1> QED
  BY <1>1 DEF IInv, TypeOK, MirrorsAgree, readEnd, writeEnd

\* Where a single byte goes, and what it leaves of the types.
LEMMA ByteStored ==
  ASSUME IInv, NEW c \in Byte,
         buffer' = [buffer EXCEPT ![write_index] = c], Returned(<< >>, 1)
  PROVE  buffer' \in [Slots -> Byte] /\ ret'.count \in 0 .. Size
<1>1. ret'.count = 1 /\ 1 \in 0 .. Size
  BY RingAssumption DEF RingAssumption, Returned
<1> QED
  BY <1>1 DEF IInv, TypeOK

LEMMA WriteEndMoves ==
  ASSUME IInv,
         write_index' = StepIndex(write_index),
         write_mirror' = StepMirror(write_mirror, write_index)
  PROVE  /\ write_index' = Moved(write_index, 1)
         /\ write_mirror' = MovedMirror(write_mirror, write_index, 1)
         /\ 1 \in 0 .. Size
  BY StepIsMove DEF IInv, TypeOK

LEMMA PutCharIInv == ASSUME IInv, NEW c \in Byte, PutChar(c) PROVE IInv'
<1>1. CASE SpaceLen = 0 /\ Returned(<< >>, 0) /\ UNCHANGED <<readEnd, writeEnd, buffer>>
  BY <1>1, NothingDone
<1>2. CASE /\ SpaceLen # 0
           /\ buffer' = [buffer EXCEPT ![write_index] = c]
           /\ write_index' = StepIndex(write_index)
           /\ write_mirror' = StepMirror(write_mirror, write_index)
           /\ Returned(<< >>, 1)
           /\ UNCHANGED readEnd
  <2>1. buffer' \in [Slots -> Byte] /\ ret'.count \in 0 .. Size
    BY <1>2, ByteStored
  <2>2. 1 <= SpaceLen
    BY <1>2, DataLenBound, RingAssumption DEF RingAssumption
  <2>3. /\ write_index' = Moved(write_index, 1)
        /\ write_mirror' = MovedMirror(write_mirror, write_index, 1)
        /\ 1 \in 0 .. Size
    BY <1>2, WriteEndMoves
  <2>4. MirrorsAgree' /\ write_index' \in Slots /\ write_mirror' \in 0 .. 1
    BY <1>2, <2>2, <2>3, WroteFitting
  <2> QED
    BY <1>2, <2>1, <2>4 DEF IInv, TypeOK, readEnd
<1> QED
  BY <1>1, <1>2 DEF PutChar

LEMMA PutCharForceIInv == ASSUME IInv, NEW c \in Byte, PutCharForce(c) PROVE IInv'
<1>1. buffer' \in [Slots -> Byte] /\ ret'.count \in 0 .. Size
  BY ByteStored DEF PutCharForce
<1>2. /\ write_index' = Moved(write_index, 1)
      /\ write_mirror' = MovedMirror(write_mirror, write_index, 1)
      /\ 1 \in 0 .. Size
  BY WriteEndMoves DEF PutCharForce
<1>3. CASE Full
  <2>1. /\ read_index' = write_index'
        /\ read_mirror' = StepMirror(read_mirror, write_index)
    BY <1>3 DEF PutCharForce, WasFull
  <2>2. read_mirror' = MovedMirror(read_mirror, write_index, 1)
    BY <2>1, StepIsMove DEF IInv, TypeOK
  <2>3. /\ MirrorsAgree' /\ write_index' \in Slots /\ write_mirror' \in 0 .. 1
        /\ read_index' \in Slots /\ read_mirror' \in 0 .. 1
    BY <1>2, <2>1, <2>2, WroteOver
  <2> QED
    BY <1>1, <2>3 DEF IInv, TypeOK
<1>4. CASE ~Full
  <2>1. UNCHANGED readEnd
    BY <1>4 DEF PutCharForce, WasFull
  <2>2. SpaceLen # 0
    BY <1>4, RingAssumption
    DEF RingAssumption, IInv, TypeOK, Slots, SpaceLen, DataLen, Empty, Full
  <2>3. 1 <= SpaceLen
    BY <2>2, DataLenBound, RingAssumption DEF RingAssumption
  <2>4. MirrorsAgree' /\ write_index' \in Slots /\ write_mirror' \in 0 .. 1
    BY <1>2, <2>1, <2>3, WroteFitting
  <2> QED
    BY <1>1, <2>1, <2>4 DEF IInv, TypeOK, readEnd
<1> QED
  BY <1>3, <1>4

LEMMA GetCharIInv == ASSUME IInv, GetChar PROVE IInv'
<1>1. CASE DataLen = 0 /\ Returned(<< >>, 0) /\ UNCHANGED <<readEnd, writeEnd, buffer>>
  BY <1>1, NothingDone
<1>2. CASE /\ DataLen # 0
           /\ Returned(<<buffer[read_index]>>, 1)
           /\ read_index' = StepIndex(read_index)
           /\ read_mirror' = StepMirror(read_mirror, read_index)
           /\ UNCHANGED <<writeEnd, buffer>>
  <2>1. /\ read_index' = Moved(read_index, 1)
        /\ read_mirror' = MovedMirror(read_mirror, read_index, 1)
        /\ 1 \in 0 .. Size
    BY <1>2, StepIsMove DEF IInv, TypeOK
  <2>2. 1 <= DataLen
    BY <1>2, DataLenBound, RingAssumption DEF RingAssumption
  <2>3. MirrorsAgree' /\ read_index' \in Slots /\ read_mirror' \in 0 .. 1
    BY <1>2, <2>1, <2>2, ReadAvailable
  <2>4. ret'.count = 1
    BY <1>2 DEF Returned
  <2> QED
    BY <1>2, <2>1, <2>3, <2>4 DEF IInv, TypeOK, writeEnd
<1> QED
  BY <1>1, <1>2 DEF GetChar

LEMMA NextIInv == IInv /\ [Next]_vars => IInv'
<1> SUFFICES ASSUME IInv, [Next]_vars PROVE IInv'
  OBVIOUS
<1>1. ASSUME NEW s \in Blocks, Put(s) \/ PutForce(s) PROVE IInv'
  BY <1>1, PutIInv, PutForceIInv
<1>2. ASSUME NEW n \in 0 .. MaxLength, Get(n) PROVE IInv'
  BY <1>2, GetIInv
<1>3. CASE \E c \in Byte : PutChar(c) \/ PutCharForce(c)
  BY <1>3, PutCharIInv, PutCharForceIInv
<1>4. CASE GetChar
  BY <1>4, GetCharIInv
<1>5. CASE Peak
  BY <1>5, PeakIInv
<1>6. CASE Reset
  BY <1>6, RingAssumption
  DEF RingAssumption, Reset, IInv, TypeOK, MirrorsAgree, Slots, Returned
<1>7. CASE UNCHANGED vars
  BY <1>7 DEF vars, IInv, TypeOK, MirrorsAgree
<1> QED
  BY <1>1, <1>2, <1>3, <1>4, <1>5, <1>6, <1>7 DEF Next

LEMMA Invariant == Spec => []IInv
  BY InitIInv, NextIInv, PTL DEF Spec

\* No operation moves an index out of the pool or stores anything but bytes.
THEOREM RingTypeCorrect == Spec => []TypeOK
<1>1. IInv => TypeOK
  BY DEF IInv
<1> QED
  BY <1>1, Invariant, PTL

\* Full and empty are never confused: the write end is between zero and one
\* pool ahead of the read end, and the mirrors say on which side of the wrap.
THEOREM RingMirrorsAgree == Spec => []MirrorsAgree
<1>1. IInv => MirrorsAgree
  BY DEF IInv
<1> QED
  BY <1>1, Invariant, PTL

-----------------------------------------------------------------------------
(* The refinement                                                           *)

\* The slot k positions behind slot r, and the bytes of n slots from r on.
Slot(r, k) == IF r + k < Size THEN r + k ELSE r + k - Size
Run(b, r, n) == [k \in 1 .. n |-> b[Slot(r, k - 1)]]

\* The write end is n positions in front of the read end.
Ahead(rm, ri, wm, wi, n) == wi = Moved(ri, n) /\ wm = MovedMirror(rm, ri, n)

-----------------------------------------------------------------------------
(* Slots                                                                    *)

LEMMA SlotType ==
  ASSUME NEW r \in Slots, NEW k \in 0 .. Size
  PROVE  Slot(r, k) \in Slots /\ Moved(r, k) = Slot(r, k)
  BY RingAssumption DEF RingAssumption, Slots, Slot, Moved, Wraps

LEMMA SlotOfSlot ==
  ASSUME NEW r \in Slots, NEW m \in 0 .. Size, NEW k \in 0 .. Size
  PROVE  /\ m + k <= Size => Slot(Slot(r, m), k) = Slot(r, m + k)
         /\ m + k >= Size => Slot(Slot(r, m), k) = Slot(r, m + k - Size)
  BY RingAssumption DEF RingAssumption, Slots, Slot

LEMMA AfterSlot ==
  ASSUME NEW w \in Slots, NEW k \in 0 .. Size - 1
  PROVE  After(w, Slot(w, k)) = k
  BY RingAssumption DEF RingAssumption, Slots, Slot, After

LEMMA MirrorMoved ==
  ASSUME NEW r \in Slots, NEW m \in 0 .. Size, NEW k \in 0 .. Size, m + k <= Size,
         NEW b \in 0 .. 1
  PROVE  MovedMirror(MovedMirror(b, r, m), Slot(r, m), k) = MovedMirror(b, r, m + k)
  BY RingAssumption DEF RingAssumption, Slots, Slot, MovedMirror, Wraps, Flip

LEMMA RunType ==
  ASSUME NEW b \in [Slots -> Byte], NEW r \in Slots, NEW n \in 0 .. Size
  PROVE  /\ Run(b, r, n) \in Seq(Byte) /\ Len(Run(b, r, n)) = n
         /\ \A k \in 1 .. n : Run(b, r, n)[k] = b[Slot(r, k - 1)]
<1>1. \A k \in 1 .. n : b[Slot(r, k - 1)] \in Byte
  <2>1. SUFFICES ASSUME NEW k \in 1 .. n PROVE b[Slot(r, k - 1)] \in Byte
    OBVIOUS
  <2>2. k - 1 \in 0 .. Size
    BY RingAssumption DEF RingAssumption
  <2> QED
    BY <2>2, SlotType
<1>2. n \in Nat
  OBVIOUS
<1> QED
  BY <1>1, <1>2 DEF Run

-----------------------------------------------------------------------------
(* How much data there is                                                   *)

\* The amount that data_len computes is the distance of the ends.
LEMMA AheadAmount ==
  ASSUME NEW rm \in 0 .. 1, NEW ri \in Slots, NEW wm, NEW wi, NEW n \in 0 .. Size,
         Ahead(rm, ri, wm, wi, n)
  PROVE  /\ wi \in Slots /\ wm \in 0 .. 1
         /\ (ri = wi /\ rm = wm) => n = 0
         /\ (ri = wi /\ rm # wm) => n = Size
         /\ ri < wi => n = wi - ri
         /\ (ri # wi /\ ~(ri < wi)) => n = Size - (ri - wi)
  BY RingAssumption
  DEF RingAssumption, Ahead, Slots, Moved, MovedMirror, Wraps, Flip

LEMMA IsAhead ==
  ASSUME IInv
  PROVE  /\ DataLen \in 0 .. Size
         /\ Ahead(read_mirror, read_index, write_mirror, write_index, DataLen)
         /\ Contents = Run(buffer, read_index, DataLen)
<1>1. Ahead(read_mirror, read_index, write_mirror, write_index, DataLen)
  BY DataLenBound, RingAssumption
  DEF RingAssumption, IInv, TypeOK, MirrorsAgree, Ahead, Slots, Moved, MovedMirror, Wraps,
      Flip
<1> QED
  BY <1>1, DataLenBound DEF Contents, Fetched, Run, Slot

LEMMA WillBeAhead ==
  ASSUME read_mirror' \in 0 .. 1, read_index' \in Slots, NEW n \in 0 .. Size,
         Ahead(read_mirror', read_index', write_mirror', write_index', n)
  PROVE  DataLen' = n /\ Contents' = Run(buffer', read_index', n)
<1>1. DataLen' = n
  BY AheadAmount, RingAssumption DEF RingAssumption, DataLen, Empty, Full, Slots
<1> QED
  BY <1>1 DEF Contents, Fetched, Run, Slot

-----------------------------------------------------------------------------
(* Writing                                                                  *)

LEMMA SlotStored ==
  ASSUME IInv, NEW s \in Seq(Byte), NEW k \in 0 .. Size - 1
  PROVE  Stored(s)[Slot(write_index, k)] =
           IF k < Len(s) THEN s[k + 1] ELSE buffer[Slot(write_index, k)]
<1>1. write_index \in Slots /\ k \in 0 .. Size
  BY RingAssumption DEF RingAssumption, IInv, TypeOK
<1>2. Slot(write_index, k) \in Slots /\ After(write_index, Slot(write_index, k)) = k
  BY <1>1, SlotType, AfterSlot
<1> QED
  BY <1>2 DEF Stored

\* A write of at most the free space appends what it stores.
LEMMA Appended ==
  ASSUME IInv, NEW s \in Seq(Byte), DataLen + Len(s) <= Size
  PROVE  Run(Stored(s), read_index, DataLen + Len(s)) = Contents \o s
<1> DEFINE l == DataLen
           n == Len(s)
           r == read_index
           w == write_index
<1>1. /\ l \in 0 .. Size /\ n \in 0 .. Size /\ l + n \in 0 .. Size
      /\ r \in Slots /\ w \in Slots /\ w = Slot(r, l) /\ Contents = Run(buffer, r, l)
  <2>1. /\ l \in 0 .. Size /\ r \in Slots /\ w \in Slots /\ w = Moved(r, l)
        /\ Contents = Run(buffer, r, l)
    BY IsAhead DEF IInv, TypeOK, Ahead
  <2>2. Size \in Nat /\ n \in Nat /\ l + n <= Size
    BY RingAssumption DEF RingAssumption
  <2>3. w = Slot(r, l)
    BY <2>1, SlotType
  <2> HIDE DEF l, n, r, w
  <2> QED
    BY <2>1, <2>2, <2>3
<1>2. /\ Run(Stored(s), r, l + n) \in Seq(Byte) /\ Len(Run(Stored(s), r, l + n)) = l + n
      /\ \A k \in 1 .. l + n : Run(Stored(s), r, l + n)[k] = Stored(s)[Slot(r, k - 1)]
  BY <1>1, RunType, StoredType DEF IInv
<1>3. /\ Contents \in Seq(Byte) /\ Len(Contents) = l
      /\ \A k \in 1 .. l : Contents[k] = buffer[Slot(r, k - 1)]
  BY <1>1, RunType DEF IInv, TypeOK
<1>4. /\ Contents \o s \in Seq(Byte) /\ Len(Contents \o s) = l + n
      /\ \A k \in 1 .. l + n :
           (Contents \o s)[k] = IF k <= l THEN Contents[k] ELSE s[k - l]
  BY <1>3, ConcatProperties
<1> HIDE DEF l, n, r
<1>5. ASSUME NEW k \in 1 .. l + n
      PROVE  Stored(s)[Slot(r, k - 1)] = (Contents \o s)[k]
  <2>1. CASE k <= l
    <3>1. /\ k - 1 - l + Size \in 0 .. Size - 1 /\ k - 1 - l + Size \in 0 .. Size
          /\ l + (k - 1 - l + Size) >= Size
          /\ l + (k - 1 - l + Size) - Size = k - 1 /\ ~(k - 1 - l + Size < n)
      BY <1>1, <2>1, RingAssumption DEF RingAssumption
    <3>2. Slot(w, k - 1 - l + Size) = Slot(r, k - 1)
      BY <1>1, <3>1, SlotOfSlot
    <3>3. Stored(s)[Slot(r, k - 1)] = buffer[Slot(r, k - 1)]
      BY <3>1, <3>2, SlotStored DEF n
    <3> QED
      BY <1>3, <1>4, <2>1, <3>3
  <2>2. CASE ~(k <= l)
    <3>1. /\ k - 1 - l \in 0 .. Size - 1 /\ k - 1 - l \in 0 .. Size
          /\ l + (k - 1 - l) <= Size /\ l + (k - 1 - l) = k - 1
          /\ k - 1 - l < n /\ k - 1 - l + 1 = k - l
      BY <1>1, <2>2, RingAssumption DEF RingAssumption
    <3>2. Slot(w, k - 1 - l) = Slot(r, k - 1)
      BY <1>1, <3>1, SlotOfSlot
    <3>3. Stored(s)[Slot(r, k - 1)] = s[k - l]
      BY <3>1, <3>2, SlotStored DEF n
    <3> QED
      BY <1>4, <2>2, <3>3
  <2> QED
    BY <2>1, <2>2
<1>6. Run(Stored(s), r, l + n) = Contents \o s
  BY <1>2, <1>4, <1>5, SeqEqual
<1> QED
  BY <1>6 DEF l, n, r

\* What the queue holds after a write end has moved over free slots.
LEMMA WrittenFitting ==
  ASSUME IInv, NEW s \in Seq(Byte), DataLen + Len(s) <= Size,
         buffer' = Stored(s),
         write_index' = Moved(write_index, Len(s)),
         write_mirror' = MovedMirror(write_mirror, write_index, Len(s)),
         UNCHANGED readEnd
  PROVE  Contents' = Contents \o s
<1>1. /\ DataLen \in 0 .. Size /\ Len(s) \in 0 .. Size /\ DataLen + Len(s) \in 0 .. Size
      /\ read_index \in Slots /\ read_mirror \in 0 .. 1
      /\ read_index' = read_index /\ read_mirror' = read_mirror
  BY IsAhead, RingAssumption DEF RingAssumption, IInv, TypeOK, readEnd
<1>2. /\ write_index = Slot(read_index, DataLen) /\ write_index \in Slots
      /\ write_mirror = MovedMirror(read_mirror, read_index, DataLen)
  BY <1>1, IsAhead, SlotType DEF Ahead
<1>3. write_index' = Slot(read_index, DataLen + Len(s))
  BY <1>1, <1>2, SlotType, SlotOfSlot
<1>4. write_mirror' = MovedMirror(read_mirror, read_index, DataLen + Len(s))
  BY <1>1, <1>2, MirrorMoved
<1>5. Ahead(read_mirror', read_index', write_mirror', write_index', DataLen + Len(s))
  BY <1>1, <1>3, <1>4, SlotType DEF Ahead
<1>6. Contents' = Run(buffer', read_index', DataLen + Len(s))
  BY <1>1, <1>5, WillBeAhead
<1>7. Contents' = Run(Stored(s), read_index, DataLen + Len(s))
  BY <1>1, <1>6
<1>8. Run(Stored(s), read_index, DataLen + Len(s)) = Contents \o s
  BY Appended
<1> QED
  BY <1>7, <1>8

LEMMA PutWrites ==
  ASSUME IInv, NEW s \in Blocks, Put(s)
  PROVE  Fifo!Write(s)
<1> DEFINE n == Least(Len(s), SpaceLen)
           stored == SubSeq(s, 1, n)
<1>1. /\ n \in 0 .. Size /\ n \in 0 .. Len(s) /\ DataLen + n <= Size
      /\ Len(Contents) = DataLen
  BY IsAhead, RunType, BlockType, DataLenBound, RingAssumption
  DEF Least, RingAssumption, SpaceLen, IInv, TypeOK
<1>2. stored \in Seq(Byte) /\ Len(stored) = n
  BY <1>1, BlockType, SubSeqProperties
<1>3. /\ buffer' = Stored(stored) /\ UNCHANGED readEnd
      /\ write_index' = Moved(write_index, n)
      /\ write_mirror' = MovedMirror(write_mirror, write_index, n)
      /\ ret' = [data |-> << >>, count |-> n]
  BY DEF Put, Returned
<1>4. n = Fifo!Least(Len(s), Fifo!Room)
  BY <1>1 DEF Fifo!Least, Fifo!Room, Least, SpaceLen
<1> HIDE DEF n
<1>5. Contents' = Contents \o stored
  BY <1>1, <1>2, <1>3, WrittenFitting
<1> QED
  BY <1>3, <1>4, <1>5 DEF Fifo!Write, Fifo!Returned

LEMMA Remainder ==
  ASSUME NEW l \in Nat, NEW n \in Nat, NEW k \in Nat, NEW i \in Nat, i = n + k - 1 - Size
  PROVE  l - n + (i + 1) = l - Size + k
  BY RingAssumption DEF RingAssumption

LEMMA NewestType ==
  ASSUME NEW s \in Seq(Byte), NEW n \in 0 .. Len(s)
  PROVE  /\ Fifo!Newest(s, n) \in Seq(Byte) /\ Len(Fifo!Newest(s, n)) = n
         /\ \A k \in 1 .. n : Fifo!Newest(s, n)[k] = s[Len(s) - n + k]
<1>1. Len(s) - n + 1 \in Int /\ Len(s) \in Int
  OBVIOUS
<1>2. \A i \in (Len(s) - n + 1) .. Len(s) : s[i] \in Byte
  OBVIOUS
<1>3. /\ Fifo!Newest(s, n) \in Seq(Byte)
      /\ Len(Fifo!Newest(s, n)) =
           IF Len(s) - n + 1 <= Len(s) THEN Len(s) - (Len(s) - n + 1) + 1 ELSE 0
      /\ \A k \in 1 .. Len(s) - (Len(s) - n + 1) + 1 :
           Fifo!Newest(s, n)[k] = s[Len(s) - n + 1 + k - 1]
  BY <1>1, <1>2, SubSeqProperties DEF Fifo!Newest
<1> QED
  BY <1>3

\* The contents after a write that has passed the read end: a whole pool of the
\* newest bytes, if the ends were in different rounds, and otherwise nothing.
LEMMA WrittenOver ==
  ASSUME IInv, NEW s \in Seq(Byte), NEW n \in 0 .. Size,
         n = (IF Len(s) < Size THEN Len(s) ELSE Size), DataLen + n > Size,
         buffer' = Stored(Fifo!Newest(s, n)),
         write_index' = Moved(write_index, n),
         write_mirror' = MovedMirror(write_mirror, write_index, n),
         read_index' = write_index',
         read_mirror' = MovedMirror(read_mirror, write_index, n)
  PROVE  \E m \in 0 .. Size : Contents' = Fifo!Newest(Contents \o s, m)
<1> DEFINE l == DataLen
           r == read_index
           w == write_index
           all == Contents \o s
           kept == Fifo!Newest(s, n)
<1>1. /\ l \in 0 .. Size /\ r \in Slots /\ w \in Slots /\ w = Slot(r, l)
      /\ read_mirror \in 0 .. 1 /\ write_mirror \in 0 .. 1 /\ Contents = Run(buffer, r, l)
  BY IsAhead, SlotType DEF IInv, TypeOK, Ahead
<1>2. /\ Contents \in Seq(Byte) /\ Len(Contents) = l
      /\ \A k \in 1 .. l : Contents[k] = buffer[Slot(r, k - 1)]
  BY <1>1, RunType DEF IInv, TypeOK
<1>3. /\ all \in Seq(Byte) /\ Len(all) = l + Len(s)
      /\ \A k \in 1 .. l + Len(s) : all[k] = IF k <= l THEN Contents[k] ELSE s[k - l]
  BY <1>2, ConcatProperties
<1>0. /\ Size \in Nat \ {0} /\ Len(s) \in Nat /\ n \in Nat /\ n \in 0 .. Len(s)
      /\ n <= Len(s) /\ n <= Size /\ l + n > Size /\ l + Len(s) > Size
      /\ n < Size => n = Len(s)
  BY <1>1, RingAssumption DEF RingAssumption
<1>4. /\ kept \in Seq(Byte) /\ Len(kept) = n
      /\ \A k \in 1 .. n : kept[k] = s[Len(s) - n + k]
  BY <1>0, NewestType
<1>5. /\ write_index' = Slot(w, n) /\ write_index' \in Slots
      /\ read_mirror' \in 0 .. 1 /\ write_mirror' \in 0 .. 1
      /\ buffer' \in [Slots -> Byte]
  BY <1>1, <1>4, SlotType, MovedMirrorType, StoredType DEF IInv
<1>6. CASE read_mirror = write_mirror
  <2>1. /\ 0 \in 0 .. Size
        /\ Ahead(read_mirror', read_index', write_mirror', write_index', 0)
    BY <1>5, <1>6, RingAssumption
    DEF RingAssumption, Ahead, Slots, Moved, MovedMirror, Wraps
  <2>2. Contents' = Run(buffer', read_index', 0)
    BY <1>5, <2>1, WillBeAhead
  <2>3. Contents' \in Seq(Byte) /\ Len(Contents') = 0
    BY <1>5, <2>1, <2>2, RunType
  <2>4. Fifo!Newest(all, 0) \in Seq(Byte) /\ Len(Fifo!Newest(all, 0)) = 0
    <3>1. 0 \in 0 .. Len(all)
      BY <1>3
    <3> QED
      BY <1>3, <3>1, NewestType
  <2>5. Contents' = Fifo!Newest(all, 0)
    BY <2>3, <2>4, SeqEqual
  <2> QED
    BY <2>1, <2>5
<1>7. CASE read_mirror # write_mirror
  <2>1. /\ Size \in 0 .. Size
        /\ Ahead(read_mirror', read_index', write_mirror', write_index', Size)
    <3>1. write_index' = Moved(read_index', Size)
      BY <1>0, <1>5 DEF Slots, Moved, Wraps
    <3>2. MovedMirror(read_mirror', read_index', Size) = Flip(read_mirror')
      BY <1>0, <1>5 DEF Slots, MovedMirror, Wraps
    <3>3. write_mirror' = Flip(read_mirror')
      BY <1>1, <1>7 DEF MovedMirror, Flip
    <3> QED
      BY <1>0, <3>1, <3>2, <3>3 DEF Ahead
  <2>2. Contents' = Run(buffer', write_index', Size)
    BY <1>5, <2>1, WillBeAhead
  <2>3. /\ Contents' \in Seq(Byte) /\ Len(Contents') = Size
        /\ \A k \in 1 .. Size : Contents'[k] = Stored(kept)[Slot(write_index', k - 1)]
    BY <1>5, <2>1, <2>2, RunType
  <2>4. Size \in 0 .. Len(all)
    BY <1>1, <1>3, <1>0
  <2>5. /\ Fifo!Newest(all, Size) \in Seq(Byte) /\ Len(Fifo!Newest(all, Size)) = Size
        /\ \A k \in 1 .. Size : Fifo!Newest(all, Size)[k] = all[Len(all) - Size + k]
    BY <1>3, <2>4, NewestType
  <2> HIDE DEF l, r, w, all, kept
  <2>6. ASSUME NEW k \in 1 .. Size
        PROVE  Stored(kept)[Slot(write_index', k - 1)] = all[Len(all) - Size + k]
    <3>0. l + Len(s) - Size + k \in 1 .. l + Len(s)
      BY <1>1, <1>0
    <3>1. PICK j \in 1 .. l + Len(s) : j = l + Len(s) - Size + k
      BY <3>0
    <3>2. Len(all) - Size + k = j /\ k - 1 \in 0 .. Size
      BY <1>1, <1>3, <1>0, <3>1
    <3>3. CASE n + k - 1 >= Size
      <4>0. n + k - 1 - Size \in 0 .. Size - 1
        BY <1>0, <3>3
      <4>1. PICK i \in 0 .. Size - 1 : i = n + k - 1 - Size
        BY <4>0
      <4>2. /\ n + (k - 1) >= Size /\ n + (k - 1) - Size = i
            /\ i \in 0 .. Size /\ i < n /\ i + 1 \in 1 .. n
        BY <1>0, <3>3, <4>1
      <4>n. Len(s) - n + (i + 1) = Len(s) - Size + k
        <5>1. k \in Nat /\ i \in Nat /\ i = n + k - 1 - Size
          BY <1>0, <4>1
        <5>2. Len(s) \in Nat /\ n \in Nat
          BY <1>0
        <5> QED
          BY <5>1, <5>2, Remainder
      <4>3. Slot(write_index', k - 1) = Slot(w, i)
        <5>1. w \in Slots /\ n \in 0 .. Size /\ k - 1 \in 0 .. Size
          BY <1>1, <3>2
        <5>2. Slot(Slot(w, n), k - 1) = Slot(w, n + (k - 1) - Size)
          BY <4>2, <5>1, SlotOfSlot
        <5> QED
          BY <1>5, <4>2, <5>2
      <4>4. Stored(kept)[Slot(w, i)] = kept[i + 1]
        BY <1>4, <4>2, SlotStored DEF w
      <4>5. kept[i + 1] = s[Len(s) - Size + k]
        BY <1>4, <4>2, <4>n
      <4>6. ~(j <= l) /\ j - l = Len(s) - Size + k
        BY <1>1, <1>0, <3>1, <3>3
      <4>7. all[j] = s[Len(s) - Size + k]
        BY <1>3, <4>6
      <4> QED
        BY <3>2, <4>3, <4>4, <4>5, <4>7
    <3>4. CASE ~(n + k - 1 >= Size)
      <4>1. PICK i \in 0 .. Size - 1 : i = n + k - 1
        BY <1>0, <3>4
      <4>2. n = Len(s)
        BY <1>0, <3>4
      <4>3. /\ n + (k - 1) <= Size /\ n + (k - 1) = i /\ ~(i < n) /\ i \in 0 .. Size
            /\ j = l + i + 1 - Size /\ l + i >= Size /\ l + i - Size = j - 1 /\ j <= l
        BY <1>1, <1>0, <3>1, <3>4, <4>1, <4>2
      <4>4. Slot(write_index', k - 1) = Slot(w, i)
        <5>1. w \in Slots /\ n \in 0 .. Size /\ k - 1 \in 0 .. Size
          BY <1>1, <3>2
        <5>2. Slot(Slot(w, n), k - 1) = Slot(w, n + (k - 1))
          BY <4>3, <5>1, SlotOfSlot
        <5> QED
          BY <1>5, <4>3, <5>2
      <4>5. Stored(kept)[Slot(w, i)] = buffer[Slot(w, i)]
        BY <1>4, <4>3, SlotStored DEF w
      <4>6. Slot(w, i) = Slot(r, j - 1)
        BY <1>1, <4>3, SlotOfSlot
      <4>7. j \in 1 .. l
        BY <1>1, <4>3
      <4>8. all[j] = buffer[Slot(r, j - 1)]
        BY <1>2, <1>3, <4>3, <4>7
      <4> QED
        BY <3>2, <4>4, <4>5, <4>6, <4>8
    <3> QED
      BY <3>3, <3>4
  <2>7. Contents' = Fifo!Newest(all, Size)
    <3>1. \A k \in 1 .. Size : Contents'[k] = Fifo!Newest(all, Size)[k]
      BY <2>3, <2>5, <2>6
    <3>2. Contents' \in Seq(Byte) /\ Fifo!Newest(all, Size) \in Seq(Byte)
      BY <2>3, <2>5
    <3>3. Len(Contents') = Size /\ Len(Fifo!Newest(all, Size)) = Size
      BY <2>3, <2>5
    <3> QED
      BY <3>1, <3>2, <3>3, SeqEqual
  <2> QED
    BY <2>1, <2>7 DEF all
<1> QED
  BY <1>6, <1>7

LEMMA PutForceWrites ==
  ASSUME IInv, NEW s \in Seq(Byte), PutForce(s)
  PROVE  Fifo!WriteForced(s)
<1> DEFINE n == Least(Len(s), Size)
           kept == Fifo!Newest(s, n)
<1>0. /\ DataLen \in 0 .. Size /\ Contents \in Seq(Byte) /\ Len(Contents) = DataLen
      /\ SpaceLen = Size - DataLen /\ Fifo!Room = Size - DataLen
  BY IsAhead, RunType DEF IInv, TypeOK, SpaceLen, Fifo!Room
<1>1. /\ Len(s) \in Nat /\ n \in 0 .. Size /\ n \in 0 .. Len(s)
      /\ n = (IF Len(s) < Size THEN Len(s) ELSE Size)
  BY RingAssumption DEF RingAssumption, Least
<1>2. /\ kept \in Seq(Byte) /\ Len(kept) = n
      /\ \A k \in 1 .. n : kept[k] = s[Len(s) - n + k]
  BY <1>0, <1>1, NewestType
<1>3. /\ buffer' = Stored(kept) /\ write_index' = Moved(write_index, n)
      /\ write_mirror' = MovedMirror(write_mirror, write_index, n)
      /\ n > SpaceLen => /\ read_index' = write_index'
                         /\ read_mirror' = MovedMirror(read_mirror, write_index, n)
      /\ ~(n > SpaceLen) => UNCHANGED readEnd
      /\ ret' = [data |-> << >>, count |-> n]
  BY DEF PutForce, Returned, Fifo!Newest
<1>4. Fifo!Returned(<< >>, Fifo!Least(Len(s), Size))
  BY <1>3 DEF Fifo!Returned, Fifo!Least, Least
<1> HIDE DEF n, kept
<1>5. CASE Len(s) <= Size - DataLen
  <2>1. n = Len(s) /\ ~(n > SpaceLen) /\ DataLen + n <= Size
    BY <1>0, <1>1, <1>5, RingAssumption DEF RingAssumption
  <2>2. kept = s
    BY <1>2, <2>1, SeqEqual
  <2>3. Contents' = Contents \o s
    BY <1>3, <2>1, <2>2, WrittenFitting
  <2> QED
    BY <1>0, <1>1, <1>4, <1>5, <2>3 DEF Fifo!WriteForced
<1>6. CASE ~(Len(s) <= Size - DataLen) /\ n > SpaceLen
  <2>1. DataLen + n > Size
    BY <1>0, <1>1, <1>6, RingAssumption DEF RingAssumption
  <2>2. \E m \in 0 .. Size : Contents' = Fifo!Newest(Contents \o s, m)
    BY <1>0, <1>1, <1>3, <1>6, <2>1, WrittenOver DEF kept
  <2> QED
    BY <1>0, <1>1, <1>4, <1>6, <2>2 DEF Fifo!WriteForced
\* The pool was empty and is filled by the end of a longer block.
<1>7. CASE ~(Len(s) <= Size - DataLen) /\ ~(n > SpaceLen)
  <2>1. DataLen = 0 /\ n = Size /\ Size <= Len(s) /\ DataLen + n <= Size
    BY <1>0, <1>1, <1>7, RingAssumption DEF RingAssumption
  <2>2. Contents' = Contents \o kept
    BY <1>2, <1>3, <1>7, <2>1, WrittenFitting
  <2>3. /\ Contents \o s \in Seq(Byte) /\ Len(Contents \o s) = Len(s)
        /\ \A k \in 1 .. Len(s) : (Contents \o s)[k] = s[k]
    BY <1>0, <1>1, <2>1, ConcatProperties
  <2>4. /\ Contents \o kept \in Seq(Byte) /\ Len(Contents \o kept) = Size
        /\ \A k \in 1 .. Size : (Contents \o kept)[k] = kept[k]
    BY <1>0, <1>1, <1>2, <2>1, ConcatProperties
  <2>5. Size \in 0 .. Len(Contents \o s)
    BY <1>0, <1>1, <2>1, <2>3
  <2>6. /\ Fifo!Newest(Contents \o s, Size) \in Seq(Byte)
        /\ Len(Fifo!Newest(Contents \o s, Size)) = Size
        /\ \A k \in 1 .. Size :
             Fifo!Newest(Contents \o s, Size)[k] = (Contents \o s)[Len(s) - Size + k]
    BY <2>3, <2>5, NewestType
  <2>7. \A k \in 1 .. Size : (Contents \o kept)[k] = Fifo!Newest(Contents \o s, Size)[k]
    <3>1. SUFFICES ASSUME NEW k \in 1 .. Size
                   PROVE  kept[k] = (Contents \o s)[Len(s) - Size + k]
      BY <2>4, <2>6
    <3>2. Len(s) - Size + k \in 1 .. Len(s) /\ k \in 1 .. n
      BY <1>0, <1>1, <2>1
    <3> QED
      BY <1>0, <1>2, <2>1, <2>3, <3>2
  <2>8. Contents' = Fifo!Newest(Contents \o s, Size)
    BY <2>2, <2>4, <2>6, <2>7, SeqEqual
  <2>9. Size \in 0 .. Size
    BY RingAssumption DEF RingAssumption
  <2> QED
    BY <1>0, <1>1, <1>4, <1>7, <2>8, <2>9 DEF Fifo!WriteForced
<1> QED
  BY <1>5, <1>6, <1>7

-----------------------------------------------------------------------------
(* Reading                                                                  *)

\* A read of n bytes delivers the first n and leaves the others.
LEMMA Consumed ==
  ASSUME IInv, NEW n \in 0 .. DataLen,
         Returned(Fetched(n), n),
         read_index' = Moved(read_index, n),
         read_mirror' = MovedMirror(read_mirror, read_index, n),
         UNCHANGED <<writeEnd, buffer>>
  PROVE  /\ Len(Contents) = DataLen /\ DataLen \in Nat
         /\ Contents' = SubSeq(Contents, n + 1, Len(Contents))
         /\ Fifo!Returned(SubSeq(Contents, 1, n), n)
<1> DEFINE l == DataLen
           r == read_index
<1>1. /\ l \in 0 .. Size /\ n \in 0 .. Size /\ l - n \in 0 .. Size /\ n + (l - n) = l
      /\ l \in Nat /\ n \in Nat /\ l <= Size
      /\ r \in Slots /\ read_mirror \in 0 .. 1 /\ buffer \in [Slots -> Byte]
      /\ Contents = Run(buffer, r, l)
  BY IsAhead, RingAssumption DEF RingAssumption, IInv, TypeOK
<1>2. /\ write_index' = Slot(r, l) /\ write_mirror' = MovedMirror(read_mirror, r, l)
      /\ read_index' = Slot(r, n) /\ read_index' \in Slots
      /\ read_mirror' = MovedMirror(read_mirror, r, n) /\ read_mirror' \in 0 .. 1
      /\ buffer' = buffer
  BY <1>1, IsAhead, SlotType, MovedMirrorType DEF Ahead, writeEnd
<1>3. /\ Len(Contents) = l /\ Contents \in Seq(Byte)
      /\ \A k \in 1 .. l : Contents[k] = buffer[Slot(r, k - 1)]
  BY <1>1, RunType
<1> HIDE DEF l, r
<1>4. Ahead(read_mirror', read_index', write_mirror', write_index', l - n)
  <2>1. Moved(read_index', l - n) = Slot(r, l)
    BY <1>1, <1>2, SlotType, SlotOfSlot
  <2>2. MovedMirror(read_mirror', read_index', l - n) = MovedMirror(read_mirror, r, l)
    BY <1>1, <1>2, MirrorMoved
  <2> QED
    BY <1>2, <2>1, <2>2 DEF Ahead
<1>5. Contents' = Run(buffer, read_index', l - n)
  BY <1>1, <1>2, <1>4, WillBeAhead
<1>6. /\ Contents' \in Seq(Byte) /\ Len(Contents') = l - n
      /\ \A k \in 1 .. l - n : Contents'[k] = buffer[Slot(read_index', k - 1)]
  BY <1>1, <1>2, <1>5, RunType
<1>7. Contents' = SubSeq(Contents, n + 1, Len(Contents))
  <2>1. /\ SubSeq(Contents, n + 1, l) \in Seq(Byte)
        /\ Len(SubSeq(Contents, n + 1, l)) = l - n
        /\ \A k \in 1 .. l - n : SubSeq(Contents, n + 1, l)[k] = Contents[n + k]
    <3>1. n + 1 \in Int /\ l \in Int /\ \A k \in (n + 1) .. l : Contents[k] \in Byte
      <4>1. \A k \in (n + 1) .. l : k \in 1 .. l
        BY <1>1
      <4> QED
        BY <1>1, <1>3, <4>1, ElementOfSeq
    <3>2. /\ SubSeq(Contents, n + 1, l) \in Seq(Byte)
          /\ Len(SubSeq(Contents, n + 1, l)) = IF n + 1 <= l THEN l - (n + 1) + 1 ELSE 0
          /\ \A k \in 1 .. l - (n + 1) + 1 :
               SubSeq(Contents, n + 1, l)[k] = Contents[n + 1 + k - 1]
      BY <3>1, SubSeqProperties
    <3>3. /\ l - (n + 1) + 1 = l - n /\ (n + 1 <= l \/ l - n = 0)
          /\ \A k \in 1 .. l - n : n + 1 + k - 1 = n + k
      BY <1>1
    <3> HIDE DEF l
    <3> QED
      BY <3>2, <3>3
  <2>2. ASSUME NEW k \in 1 .. l - n PROVE Contents'[k] = Contents[n + k]
    <3>1. /\ k - 1 \in 0 .. Size /\ n + (k - 1) <= Size /\ n + k \in 1 .. l
          /\ n + (k - 1) = n + k - 1
      BY <1>1, RingAssumption DEF RingAssumption
    <3>2. Slot(read_index', k - 1) = Slot(r, n + k - 1)
      BY <1>1, <1>2, <3>1, SlotOfSlot
    <3>3. Contents[n + k] = buffer[Slot(r, n + k - 1)]
      BY <1>3, <3>1
    <3>4. Contents'[k] = buffer[Slot(read_index', k - 1)]
      BY <1>6
    <3> QED
      BY <3>2, <3>3, <3>4
  <2> DEFINE rest == SubSeq(Contents, n + 1, l)
  <2> HIDE DEF rest
  <2>3. /\ rest \in Seq(Byte) /\ Len(rest) = Len(Contents')
        /\ \A k \in 1 .. Len(Contents') : Contents'[k] = rest[k]
    BY <1>6, <2>1, <2>2 DEF rest
  <2>4. Contents' = rest
    BY <1>6, <2>3, SeqEqual
  <2> QED
    BY <1>3, <2>4 DEF rest
<1>8. Fetched(n) = SubSeq(Contents, 1, n)
  <2>1. /\ Fetched(n) = Run(buffer, r, n) /\ Fetched(n) \in Seq(Byte)
        /\ Len(Fetched(n)) = n /\ \A k \in 1 .. n : Fetched(n)[k] = buffer[Slot(r, k - 1)]
    BY <1>1, RunType DEF Fetched, Run, Slot, r
  <2>2. /\ SubSeq(Contents, 1, n) \in Seq(Byte) /\ Len(SubSeq(Contents, 1, n)) = n
        /\ \A k \in 1 .. n : SubSeq(Contents, 1, n)[k] = Contents[k]
    <3>1. \A k \in 1 .. n : Contents[k] \in Byte
      BY <1>1, <1>3
    <3>2. /\ SubSeq(Contents, 1, n) \in Seq(Byte)
          /\ Len(SubSeq(Contents, 1, n)) = IF 1 <= n THEN n - 1 + 1 ELSE 0
          /\ \A k \in 1 .. n - 1 + 1 : SubSeq(Contents, 1, n)[k] = Contents[1 + k - 1]
      BY <1>1, <3>1, SubSeqProperties
    <3> QED
      BY <1>1, <3>2
  <2>3. \A k \in 1 .. n : k \in 1 .. l
    BY <1>1
  <2> QED
    BY <1>3, <2>1, <2>2, <2>3, SeqEqual
<1> QED
  BY <1>1, <1>3, <1>7, <1>8 DEF Returned, Fifo!Returned, l

LEMMA GetReads ==
  ASSUME IInv, NEW n \in Nat, Get(n)
  PROVE  Fifo!Read(n)
<1> DEFINE m == Available(n)
<1>1. m \in 0 .. DataLen /\ m = (IF n < DataLen THEN n ELSE DataLen)
  BY DataLenBound DEF Available, Least
<1>2. /\ Returned(Fetched(m), m) /\ read_index' = Moved(read_index, m)
      /\ read_mirror' = MovedMirror(read_mirror, read_index, m)
      /\ UNCHANGED <<writeEnd, buffer>>
  BY DEF Get
<1> HIDE DEF m
<1>3. /\ Len(Contents) = DataLen
      /\ Contents' = SubSeq(Contents, m + 1, Len(Contents))
      /\ Fifo!Returned(SubSeq(Contents, 1, m), m)
  BY <1>1, <1>2, Consumed
<1>4. m = Fifo!Least(n, Len(Contents))
  BY <1>1, <1>3 DEF Fifo!Least
<1> QED
  BY <1>3, <1>4 DEF Fifo!Read

LEMMA PeakReadsSome ==
  ASSUME IInv, Peak
  PROVE  Fifo!ReadSome
<1> DEFINE m == Least(DataLen, Size - read_index)
<1>1. m \in 0 .. DataLen /\ (DataLen # 0 => m > 0)
  BY DataLenBound, RingAssumption DEF RingAssumption, IInv, TypeOK, Slots, Least
<1>2. /\ Returned(Fetched(m), m) /\ read_index' = Moved(read_index, m)
      /\ read_mirror' = MovedMirror(read_mirror, read_index, m)
      /\ UNCHANGED <<writeEnd, buffer>>
  BY DEF Peak
<1> HIDE DEF m
<1>3. /\ Len(Contents) = DataLen /\ DataLen \in Nat
      /\ Contents' = SubSeq(Contents, m + 1, Len(Contents))
      /\ Fifo!Returned(SubSeq(Contents, 1, m), m)
  BY <1>1, <1>2, Consumed
<1>4. m = Fifo!Least(m, Len(Contents)) /\ m \in 0 .. Len(Contents)
  BY <1>1, <1>3 DEF Fifo!Least
<1>5. Contents # << >> => m > 0
  <2>1. CASE DataLen # 0
    BY <1>1, <2>1
  <2>2. CASE DataLen = 0
    <3>1. Contents = << >>
      BY <2>2, IsAhead, RunType, EmptySeq, SeqEqual DEF IInv, TypeOK
    <3> QED
      BY <3>1
  <2> QED
    BY <2>1, <2>2
<1> QED
  BY <1>3, <1>4, <1>5 DEF Fifo!Read, Fifo!ReadSome

-----------------------------------------------------------------------------
(* Characters                                                               *)

LEMMA OneChar ==
  ASSUME NEW c \in Byte
  PROVE  /\ <<c>> \in Blocks /\ <<c>> \in Seq(Byte) /\ Len(<<c>>) = 1
         /\ SubSeq(<<c>>, 1, 1) = <<c>> /\ Len(SubSeq(<<c>>, 1, 0)) = 0
<1>1. <<c>> \in [1 .. 1 -> Byte] /\ 1 \in 0 .. MaxLength
  BY RingAssumption DEF RingAssumption
<1>2. <<c>> \in Blocks
  BY <1>1 DEF Blocks
<1>3. <<c>> \in Seq(Byte) /\ Len(<<c>>) = 1 /\ <<c>>[1] = c
  OBVIOUS
<1>4. /\ SubSeq(<<c>>, 1, 1) \in Seq(Byte) /\ Len(SubSeq(<<c>>, 1, 1)) = 1
      /\ SubSeq(<<c>>, 1, 1)[1] = c
  OBVIOUS
<1>5. SubSeq(<<c>>, 1, 1) = <<c>>
  <2>1. \A i \in 1 .. Len(SubSeq(<<c>>, 1, 1)) : SubSeq(<<c>>, 1, 1)[i] = <<c>>[i]
    <3>1. \A i \in 1 .. 1 : i = 1
      OBVIOUS
    <3> QED
      BY <1>3, <1>4, <3>1
  <2> QED
    BY <1>3, <1>4, <2>1, SeqEqual
<1>6. Len(SubSeq(<<c>>, 1, 0)) = 0
  OBVIOUS
<1> QED
  BY <1>2, <1>3, <1>5, <1>6

LEMMA StoredNothing ==
  ASSUME IInv, NEW s, Len(s) = 0
  PROVE  Stored(s) = buffer
<1>1. \A i \in Slots : ~(After(write_index, i) < 0)
  BY RingAssumption DEF RingAssumption, IInv, TypeOK, Slots, After
<1> QED
  BY <1>1 DEF Stored, IInv, TypeOK

LEMMA StoredOne ==
  ASSUME IInv, NEW c \in Byte
  PROVE  Stored(<<c>>) = [buffer EXCEPT ![write_index] = c]
<1>1. \A i \in Slots : /\ After(write_index, i) < 1 => i = write_index
                       /\ i = write_index => After(write_index, i) = 0
  BY RingAssumption DEF RingAssumption, IInv, TypeOK, Slots, After
<1>2. Len(<<c>>) = 1 /\ <<c>>[0 + 1] = c
  OBVIOUS
<1>3. \A i \in Slots :
        (IF After(write_index, i) < Len(<<c>>) THEN <<c>>[After(write_index, i) + 1]
                                               ELSE buffer[i]) =
        (IF i = write_index THEN c ELSE buffer[i])
  BY <1>1, <1>2
<1> QED
  BY <1>3 DEF Stored, IInv, TypeOK

LEMMA NotMoved ==
  ASSUME NEW i \in Slots, NEW m
  PROVE  Moved(i, 0) = i /\ MovedMirror(m, i, 0) = m
  BY RingAssumption DEF RingAssumption, Slots, Moved, MovedMirror, Wraps

LEMMA PutCharIsPut ==
  ASSUME IInv, NEW c \in Byte, PutChar(c)
  PROVE  Put(<<c>>)
<1>1. SpaceLen \in 0 .. Size /\ Len(<<c>>) = 1
  BY DataLenBound
<1>2. CASE SpaceLen = 0
  <2>1. Least(Len(<<c>>), SpaceLen) = 0
    BY <1>1, <1>2 DEF Least
  <2>2. Stored(SubSeq(<<c>>, 1, 0)) = buffer
    BY OneChar, StoredNothing
  <2> QED
    BY <1>2, <2>1, <2>2, NotMoved DEF PutChar, Put, IInv, TypeOK, readEnd, writeEnd
<1>3. CASE SpaceLen # 0
  <2>1. Least(Len(<<c>>), SpaceLen) = 1
    BY <1>1, <1>3 DEF Least
  <2>2. Stored(SubSeq(<<c>>, 1, 1)) = [buffer EXCEPT ![write_index] = c]
    BY OneChar, StoredOne
  <2> QED
    BY <1>3, <2>1, <2>2, WriteEndMoves DEF PutChar, Put
<1> QED
  BY <1>2, <1>3

LEMMA PutCharForceIsPutForce ==
  ASSUME IInv, NEW c \in Byte, PutCharForce(c)
  PROVE  PutForce(<<c>>)
<1>1. DataLen \in 0 .. Size /\ Size \in Nat \ {0} /\ SpaceLen = Size - DataLen
  BY DataLenBound, RingAssumption DEF RingAssumption, SpaceLen
<1>2. /\ Len(<<c>>) = 1 /\ Least(1, Size) = 1
      /\ SubSeq(<<c>>, 1 - 1 + 1, 1) = <<c>>
  BY <1>1, OneChar DEF Least
<1>3. WasFull <=> 1 > SpaceLen
  <2>1. WasFull => DataLen = Size
    BY <1>1, DataLenBound, RingAssumption
    DEF RingAssumption, WasFull, Full, IInv, TypeOK, Slots
  <2>2. DataLen = Size => WasFull
    BY <1>1, DataLenBound, RingAssumption
    DEF RingAssumption, WasFull, Full, IInv, TypeOK, MirrorsAgree, Slots
  <2> QED
    BY <1>1, <2>1, <2>2
<1>4. /\ write_index' = Moved(write_index, 1)
      /\ write_mirror' = MovedMirror(write_mirror, write_index, 1)
      /\ StepMirror(read_mirror, write_index) = MovedMirror(read_mirror, write_index, 1)
  BY StepIsMove DEF PutCharForce, IInv, TypeOK
<1> QED
  BY <1>2, <1>3, <1>4, StoredOne DEF PutCharForce, PutForce

LEMMA GetCharIsGet ==
  ASSUME IInv, GetChar
  PROVE  Get(1)
<1>1. DataLen \in 0 .. Size /\ Size \in Nat \ {0} /\ read_index \in Slots
      /\ read_mirror \in 0 .. 1 /\ buffer \in [Slots -> Byte]
  BY DataLenBound, RingAssumption DEF RingAssumption, IInv, TypeOK
<1>2. CASE DataLen = 0
  <2>1. Available(1) = 0 /\ Fetched(0) = << >>
    BY <1>2 DEF Available, Least, Fetched
  <2> QED
    BY <1>1, <1>2, <2>1, NotMoved DEF GetChar, Get, readEnd, writeEnd
<1>3. CASE DataLen # 0
  <2>1. Available(1) = 1
    BY <1>1, <1>3 DEF Available, Least
  <2>2. Fetched(1) = <<buffer[read_index]>>
    BY <1>1 DEF Fetched, Slots
  <2>3. /\ StepIndex(read_index) = Moved(read_index, 1)
        /\ StepMirror(read_mirror, read_index) = MovedMirror(read_mirror, read_index, 1)
    BY <1>1, StepIsMove
  <2> QED
    BY <1>3, <2>1, <2>2, <2>3 DEF GetChar, Get
<1> QED
  BY <1>2, <1>3

-----------------------------------------------------------------------------
(* The refinement                                                           *)

LEMMA ResetClears ==
  ASSUME IInv, Reset
  PROVE  Fifo!Clear
<1>1. /\ 0 \in 0 .. Size /\ read_index' \in Slots /\ read_mirror' \in 0 .. 1
      /\ Ahead(read_mirror', read_index', write_mirror', write_index', 0)
      /\ buffer' = buffer /\ buffer \in [Slots -> Byte]
  BY RingAssumption
  DEF RingAssumption, Reset, Slots, Ahead, Moved, MovedMirror, Wraps, IInv, TypeOK
<1>2. Contents' = Run(buffer', read_index', 0)
  BY <1>1, WillBeAhead
<1>3. Contents' = << >>
  BY <1>1, <1>2, RunType, EmptySeq, SeqEqual
<1> QED
  BY <1>3 DEF Reset, Returned, Fifo!Clear, Fifo!Returned

LEMMA BeginsEmpty == Init => Fifo!Init
<1> SUFFICES ASSUME Init PROVE Fifo!Init
  OBVIOUS
<1>1. DataLen = 0
  BY InitIInv, DataLenBound DEF Init
<1>2. Contents = << >>
  BY <1>1 DEF Contents, Fetched
<1> QED
  BY <1>2 DEF Init, Fifo!Init

LEMMA StepIsStep ==
  ASSUME IInv, [Next]_vars
  PROVE  [Fifo!Next]_<<Contents, ret>>
<1>1. ASSUME NEW s \in Blocks, Put(s) PROVE Fifo!Next
  BY <1>1, PutWrites DEF Fifo!Next, Fifo!Blocks, Blocks
<1>2. ASSUME NEW s \in Blocks, PutForce(s) PROVE Fifo!Next
  BY <1>2, PutForceWrites, BlockType DEF Fifo!Next, Fifo!Blocks, Blocks
<1>3. ASSUME NEW n \in 0 .. MaxLength, Get(n) PROVE Fifo!Next
  BY <1>3, GetReads DEF Fifo!Next
<1>4. ASSUME NEW c \in Byte, PutChar(c) PROVE Fifo!Next
  BY <1>1, <1>4, OneChar, PutCharIsPut
<1>5. ASSUME NEW c \in Byte, PutCharForce(c) PROVE Fifo!Next
  BY <1>2, <1>5, OneChar, PutCharForceIsPutForce
<1>6. CASE GetChar
  <2>1. 1 \in 0 .. MaxLength
    BY RingAssumption DEF RingAssumption
  <2> QED
    BY <1>3, <1>6, <2>1, GetCharIsGet
<1>7. CASE Peak
  BY <1>7, PeakReadsSome DEF Fifo!Next
<1>8. CASE Reset
  BY <1>8, ResetClears DEF Fifo!Next
<1>9. CASE UNCHANGED vars
  BY <1>9 DEF vars, Contents, Fetched, DataLen, Empty, Full
<1> QED
  BY <1>1, <1>2, <1>3, <1>4, <1>5, <1>6, <1>7, <1>8, <1>9 DEF Next

\* The ring buffer is a bounded queue: what put, get and their kin do to indices
\* and mirrors is what they promise of the bytes.
THEOREM RingImplementsFifo == Spec => ImplementsFifo
  BY Invariant, BeginsEmpty, StepIsStep, PTL DEF Spec, ImplementsFifo, Fifo!Spec
=============================================================================
