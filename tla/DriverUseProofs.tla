--------------------------- MODULE DriverUseProofs ---------------------------
(***************************************************************************)
(* Theorems about DriverUse, for any threads, bounds and values.           *)
(*                                                                         *)
(* The use of the device and the drivers are kept apart.  Of the use:      *)
(* who is in a callback uses the device (Calls), the users are counted     *)
(* (Counted), and what an open got is held while the count is positive     *)
(* (HeldByCount).  Of each driver: what its variables are, and what its    *)
(* callbacks keep true of them; no other driver touches them.              *)
(***************************************************************************)
EXTENDS DriverUse, FiniteSetTheorems, SequenceTheorems, TLAPS

use == <<ref, mutex, using, call, held>>

Calls ==
  /\ call \in [Threads -> Ops \cup {"none"}]
  /\ using \subseteq Threads /\ IsFiniteSet(using)
  /\ mutex \in using \cup {NoThread}
  /\ \A t \in Threads : mutex = t <=> call[t] # "none"

\* Without failing opens nobody who uses the device is left out of the count.
Counted ==
  /\ ref \in 0 .. Cardinality(using)
  /\ orderly => ref = Cardinality(using)

\* serial_open never succeeds on what is no terminal, and forgets the port.
HeldByCount ==
  /\ held \in 0 .. MaxHeld
  /\ (class = "serial" => orderly) => held = IF ref > 0 THEN 1 ELSE 0
  /\ class = "serial" /\ ~orderly => ref = 0

MemoryOK ==
  /\ pointer \in {"null", "live", "freed"}
  /\ queue \in Seq(Byte) /\ Len(queue) <= Capacity
  /\ class = "memory" /\ ref > 0 => pointer = "live"

\* Where the next write goes: never behind the end, which a program that reads
\* all of the file has reached.
FileOK ==
  /\ content \in Seq(Byte) /\ Len(content) <= FileMax
  /\ pos \in 0 .. Len(content)
  /\ orderly /\ settled => pos = Len(content)

Ports == [csize : DataBits \cup {0, 8}, parenb : BOOLEAN, parodd : BOOLEAN,
          cstopb : BOOLEAN, crtscts : BOOLEAN]

SerialOK ==
  /\ port \in Ports /\ opt \in Serial!Options
  /\ timeout \in Timeouts \cup {0} /\ input \in 0 .. MaxInput
  /\ PortAsRecorded

UdpOK ==
  /\ {saddr, raddr, filename, filter} \subseteq Addrs \cup {NoAddr}
  /\ inbox \in Seq(Addrs) /\ Len(inbox) <= MaxInbox
  /\ orderly => echo_flag = FALSE
  /\ WritesToPeer

BacklightOK ==
  /\ max \in Nat /\ min \in Nat /\ min < max
  /\ brightness \in 0 .. max /\ asked \in Backlight!Levels \cup {NoLevel}
  /\ LevelReadBack

RtcOK ==
  /\ clock \in [mon : Int, year : Int] /\ Rtc!Valid(clock)
  /\ due \in [mon : Int, year : Int] \cup {NoDate}
  /\ DateReadBack

PinOK == level \in {0, 1} /\ pulses \in 0 .. MaxPulses

IInv ==
  /\ class \in Classes /\ orderly \in BOOLEAN
  /\ class \in {"backlight", "rtc", "pin"} => orderly
  /\ Calls /\ Counted /\ HeldByCount
  /\ MemoryOK /\ FileOK /\ SerialOK /\ UdpOK /\ BacklightOK /\ RtcOK /\ PinOK

-----------------------------------------------------------------------------
(* The use of the device                                                    *)

LEMMA Same == [Next]_vars => UNCHANGED <<class, orderly>>
  BY DEF Next, vars, Startup, Stop, Enter, Return, Arrives

LEMMA Counting ==
  ASSUME Calls
  PROVE  /\ Cardinality(using) \in Nat
         /\ using # {} => Cardinality(using) > 0
         /\ \A t \in Threads :
              /\ IsFiniteSet(using \cup {t}) /\ IsFiniteSet(using \ {t})
              /\ t \notin using => Cardinality(using \cup {t}) = Cardinality(using) + 1
              /\ t \in using => Cardinality(using \ {t}) = Cardinality(using) - 1
  <1>1. IsFiniteSet(using)  BY DEF Calls
  <1>2. Cardinality(using) \in Nat  BY <1>1, FS_CardinalityType
  <1>3. using # {} => Cardinality(using) # 0  BY <1>1, FS_EmptySet
  <1>4. ASSUME NEW t \in Threads
        PROVE  /\ IsFiniteSet(using \cup {t}) /\ IsFiniteSet(using \ {t})
               /\ t \notin using => Cardinality(using \cup {t}) = Cardinality(using) + 1
               /\ t \in using => Cardinality(using \ {t}) = Cardinality(using) - 1
    <2>1. /\ IsFiniteSet(using \cup {t})
          /\ Cardinality(using \cup {t}) =
               IF t \in using THEN Cardinality(using) ELSE Cardinality(using) + 1
      BY <1>1, FS_AddElement
    <2>2. /\ IsFiniteSet(using \ {t})
          /\ Cardinality(using \ {t}) =
               IF t \in using THEN Cardinality(using) - 1 ELSE Cardinality(using)
      BY <1>1, FS_RemoveElement
    <2> QED  BY <2>1, <2>2
  <1>5. using # {} => Cardinality(using) > 0
    <2> DEFINE n == Cardinality(using)
    <2>1. n \in Nat /\ (using # {} => n # 0)  BY <1>2, <1>3
    <2> HIDE DEF n
    <2>2. using # {} => n > 0  BY <2>1
    <2> QED  BY <2>2 DEF n
  <1> HIDE DEF Calls
  <1> QED  BY <1>2, <1>4, <1>5

LEMMA StartupUse ==
  ASSUME Calls, Counted, HeldByCount, NEW t \in Threads, Startup(t)
  PROVE  Calls' /\ Counted' /\ HeldByCount'
  <1> USE UseAssumption DEF UseAssumption
  <1>1. /\ t \notin using /\ using' = using \cup {t}
        /\ UNCHANGED <<class, orderly, mutex, call>>
    BY DEF Startup
  <1>2. Calls'
    BY <1>1, Counting DEF Calls
  <1>3. Cardinality(using') = Cardinality(using) + 1 /\ Cardinality(using) \in Nat
    BY <1>1, Counting
  <1>4. CASE ref > 0
    <2>1. ref' = ref + 1 /\ held' = held  BY <1>4 DEF Startup, Joins
    <2> QED  BY <1>1, <1>2, <1>3, <1>4, <2>1 DEF Counted, HeldByCount
  <1>5. CASE ~(ref > 0) /\ Opens
    <2>1. ref' = 1 /\ held' = (IF held < MaxHeld THEN held + 1 ELSE held)
      BY <1>5 DEF Opens, OneMore
    <2>2. class = "serial" => orderly
      BY <1>5 DEF Opens, Driver
    <2>3. ref = 0 /\ held = 0
      BY <1>5, <2>2, <1>3 DEF Counted, HeldByCount
    <2> QED  BY <1>1, <1>2, <1>3, <2>1, <2>2, <2>3 DEF Counted, HeldByCount
  <1>6. CASE ~(ref > 0) /\ OpenFails
    <2>1. /\ ~orderly /\ ref' = ref
          /\ class # "serial" => held' = held
          /\ held' = held \/ held' = (IF held < MaxHeld THEN held + 1 ELSE held)
      BY <1>6 DEF OpenFails, OneMore, Driver
    <2> QED  BY <1>1, <1>2, <1>3, <1>6, <2>1 DEF Counted, HeldByCount
  <1> QED  BY <1>4, <1>5, <1>6 DEF Startup

LEMMA StopUse ==
  ASSUME Calls, Counted, HeldByCount, NEW t \in Threads, Stop(t)
  PROVE  Calls' /\ Counted' /\ HeldByCount'
  <1> USE UseAssumption DEF UseAssumption
  <1>1. /\ t \in using /\ call[t] = "none" /\ using' = using \ {t}
        /\ UNCHANGED <<class, orderly, mutex, call>>
        /\ ref' = IF ref > 0 THEN ref - 1 ELSE 0
    BY DEF Stop, Fewer
  <1>2. Calls'
    BY <1>1, Counting DEF Calls
  <1>3. /\ Cardinality(using') = Cardinality(using) - 1 /\ Cardinality(using) \in Nat
        /\ Cardinality(using) > 0
    BY <1>1, Counting
  <1>4. Counted'
    BY <1>1, <1>3 DEF Counted
  <1>5. HeldByCount'
    <2>1. CASE ref = 1
      <3>1. held' = held - 1  BY <2>1 DEF Stop, LastUser, Closes
      <3> QED  BY <1>1, <2>1, <3>1 DEF HeldByCount
    <2>2. CASE ref # 1
      <3>1. held' = held  BY <2>2 DEF Stop, LastUser
      <3> QED  BY <1>1, <1>3, <2>2, <3>1 DEF HeldByCount, Counted
    <2> QED  BY <2>1, <2>2
  <1> QED  BY <1>2, <1>4, <1>5

LEMMA WrapperUse ==
  ASSUME Calls, Counted, HeldByCount, NEW t \in Threads,
         (\E op \in Ops : Enter(t, op)) \/ Return(t)
  PROVE  Calls' /\ Counted' /\ HeldByCount'
  <1> USE UseAssumption DEF UseAssumption
  <1>1. UNCHANGED <<class, orderly, ref, using, held>>
    BY DEF Enter, Return
  <1>2. Counted' /\ HeldByCount'
    BY <1>1 DEF Counted, HeldByCount
  <1>3. CASE Return(t)
    <2>1. mutex = t /\ mutex' = NoThread /\ call' = [call EXCEPT ![t] = "none"]
      BY <1>3 DEF Return
    <2> QED  BY <1>1, <1>2, <2>1 DEF Calls
  <1>4. ASSUME NEW op \in Ops, Enter(t, op)  PROVE Calls'
    <2>1. /\ t \in using /\ mutex = NoThread /\ mutex' = t
          /\ call' = [call EXCEPT ![t] = op] /\ op # "none"
      BY <1>4 DEF Enter, Ops
    <2> QED  BY <1>1, <2>1 DEF Calls
  <1> QED  BY <1>2, <1>3, <1>4

LEMMA StepUse ==
  ASSUME Calls, Counted, HeldByCount, [Next]_vars
  PROVE  Calls' /\ Counted' /\ HeldByCount'
  <1>1. ASSUME NEW t \in Threads, Startup(t) \/ Stop(t)
        PROVE  Calls' /\ Counted' /\ HeldByCount'
    BY <1>1, StartupUse, StopUse
  <1>2. ASSUME NEW t \in Threads, (\E op \in Ops : Enter(t, op)) \/ Return(t)
        PROVE  Calls' /\ Counted' /\ HeldByCount'
    BY <1>2, WrapperUse
  <1>3. CASE Arrives \/ UNCHANGED vars
    BY <1>3 DEF Arrives, vars, Calls, Counted, HeldByCount
  <1> QED  BY <1>1, <1>2, <1>3 DEF Next

-----------------------------------------------------------------------------
(* What a step does to the drivers                                          *)

\* The driver rests, or is opened, or closed, or in a callback, or what it
\* drives goes on.
LEMMA Turns ==
  ASSUME IInv, [Next]_vars
  PROVE  \/ UNCHANGED drivers /\ (ref' > 0 => ref > 0)
         \/ ref = 0 /\ Opens
         \/ ref = 0 /\ OpenFails
         \/ ref = 1 /\ ref' = 0 /\ Closes
         \/ UNCHANGED ref /\ (ReadBack \/ WriteBack \/ ControlBack \/ ConnectBack)
         \/ UNCHANGED ref /\ Arrives
  <1>1. ref \in Nat
    BY Counting DEF IInv, Counted
  <1>2. ASSUME NEW t \in Threads, Startup(t)
        PROVE  \/ UNCHANGED drivers /\ ref > 0
               \/ ref = 0 /\ Opens
               \/ ref = 0 /\ OpenFails
    BY <1>1, <1>2 DEF Startup, Joins
  <1>3. ASSUME NEW t \in Threads, Stop(t)
        PROVE  \/ UNCHANGED drivers /\ (ref' > 0 => ref > 0)
               \/ ref = 1 /\ ref' = 0 /\ Closes
    BY <1>1, <1>3 DEF Stop, LastUser, Fewer
  <1>4. ASSUME NEW t \in Threads, Return(t)
        PROVE  UNCHANGED ref /\ (ReadBack \/ WriteBack \/ ControlBack \/ ConnectBack)
    BY <1>4 DEF Return, Callback
  <1>5. ASSUME NEW t \in Threads, NEW op \in Ops, Enter(t, op)
        PROVE  UNCHANGED <<drivers, ref>>
    BY <1>5 DEF Enter
  <1>6. CASE Arrives
    BY <1>6 DEF Arrives
  <1>7. CASE UNCHANGED vars
    BY <1>7 DEF vars
  <1> QED  BY <1>2, <1>3, <1>4, <1>5, <1>6, <1>7 DEF Next

-----------------------------------------------------------------------------
(* Sequences                                                                *)

LEMMA FirstOf ==
  ASSUME NEW S, NEW s \in Seq(S), NEW n \in 0 .. Len(s)
  PROVE  SubSeq(s, 1, n) \in Seq(S) /\ Len(SubSeq(s, 1, n)) = n
  <1>1. Len(s) \in Nat /\ \A i \in 1 .. Len(s) : s[i] \in S
    BY ElementOfSeq, LenProperties
  <1>2. n \in Int /\ \A i \in 1 .. n : s[i] \in S
    BY <1>1
  <1>3. /\ SubSeq(s, 1, n) \in Seq(S)
        /\ Len(SubSeq(s, 1, n)) = IF 1 <= n THEN n - 1 + 1 ELSE 0
    BY <1>2, SubSeqProperties
  <1> QED  BY <1>1, <1>3

LEMMA RestOf ==
  ASSUME NEW S, NEW s \in Seq(S), NEW n \in Nat
  PROVE  /\ SubSeq(s, n + 1, Len(s)) \in Seq(S)
         /\ Len(SubSeq(s, n + 1, Len(s))) = IF n > Len(s) THEN 0 ELSE Len(s) - n
  <1>1. Len(s) \in Nat /\ \A i \in 1 .. Len(s) : s[i] \in S
    BY ElementOfSeq, LenProperties
  <1>2. \A i \in (n + 1) .. Len(s) : s[i] \in S
    BY <1>1
  <1>3. /\ SubSeq(s, n + 1, Len(s)) \in Seq(S)
        /\ Len(SubSeq(s, n + 1, Len(s))) =
             IF n + 1 <= Len(s) THEN Len(s) - (n + 1) + 1 ELSE 0
    <2> DEFINE a == n + 1
               b == Len(s)
    <2>1. a \in Int /\ b \in Int /\ \A i \in a .. b : s[i] \in S
      BY <1>1, <1>2
    <2> HIDE DEF a, b
    <2>2. /\ SubSeq(s, a, b) \in Seq(S)
          /\ Len(SubSeq(s, a, b)) = IF a <= b THEN b - a + 1 ELSE 0
      BY <2>1, SubSeqProperties
    <2> QED  BY <2>2 DEF a, b
  <1> DEFINE l == Len(SubSeq(s, n + 1, Len(s)))
             k == Len(s)
  <1>4. k \in Nat /\ l = IF n + 1 <= k THEN k - (n + 1) + 1 ELSE 0
    BY <1>1, <1>3
  <1> HIDE DEF l, k
  <1>5. l = IF n > k THEN 0 ELSE k - n
    BY <1>4
  <1> QED  BY <1>3, <1>5 DEF l, k

LEMMA LeastOf ==
  ASSUME NEW m \in Nat, NEW n \in Nat
  PROVE  /\ Memory!Ring!Least(m, n) \in Nat
         /\ Memory!Ring!Least(m, n) <= m /\ Memory!Ring!Least(m, n) <= n
  BY DEF Memory!Ring!Least

LEMMA BothOf ==
  ASSUME NEW S, NEW s \in Seq(S), NEW t \in Seq(S)
  PROVE  s \o t \in Seq(S) /\ Len(s \o t) = Len(s) + Len(t)
  BY ConcatProperties

-----------------------------------------------------------------------------
(* The memory class                                                         *)

LEMMA MemorySteps ==
  ASSUME IInv, [Next]_vars
  PROVE  \/ UNCHANGED memoryVars /\ (ref' > 0 => ref > 0 \/ class # "memory")
         \/ class = "memory" /\ Memory!Open
         \/ class = "memory" /\ ref' = 0 /\ Memory!Close
         \/ /\ ref' = ref
            /\ \/ \E n \in 1 .. MaxLength : Memory!Read(n)
               \/ \E data \in Blocks : Memory!Write(data)
  <1>1. CASE ref = 0 /\ Opens
    BY <1>1 DEF Opens, Driver
  <1>2. CASE ref = 0 /\ OpenFails
    BY <1>2 DEF OpenFails, Driver, Memory!OpenFails, memoryVars, Memory!memoryVars
  <1>3. CASE ref = 1 /\ ref' = 0 /\ Closes
    BY <1>3 DEF Closes, Driver
  <1>4. CASE UNCHANGED ref /\ (ReadBack \/ WriteBack \/ ControlBack \/ ConnectBack)
    <2>1. CASE ReadBack  BY <1>4, <2>1 DEF ReadBack, ReadLengths, Driver
    <2>2. CASE WriteBack  BY <1>4, <2>2 DEF WriteBack, Driver
    <2>3. CASE ControlBack \/ ConnectBack
      BY <1>4, <2>3 DEF ControlBack, ConnectBack, Driver, Memory!Control,
                        memoryVars, Memory!memoryVars
    <2> QED  BY <1>4, <2>1, <2>2, <2>3
  <1>5. CASE UNCHANGED ref /\ Arrives
    BY <1>5 DEF Arrives, Driver
  <1>6. CASE UNCHANGED drivers /\ (ref' > 0 => ref > 0)
    BY <1>6 DEF drivers
  <1> QED  BY Turns, <1>1, <1>2, <1>3, <1>4, <1>5, <1>6

LEMMA BlockType ==
  ASSUME NEW data \in Blocks
  PROVE  data \in Seq(Byte) /\ Len(data) \in Nat
  <1>1. PICK n \in 0 .. MaxLength : data \in [1 .. n -> Byte]
    BY DEF Blocks, Memory!Ring!Blocks
  <1>2. n \in Nat  BY <1>1, UseAssumption DEF UseAssumption
  <1>3. data \in Seq(Byte)  BY <1>1, <1>2
  <1> QED  BY <1>3, LenProperties

LEMMA StepMemory == ASSUME IInv, [Next]_vars PROVE MemoryOK'
  <1>0. Capacity \in Nat /\ MaxLength \in Nat  BY UseAssumption DEF UseAssumption
  <1>1. /\ MemoryOK /\ class' = class /\ ref \in Nat
        /\ queue \in Seq(Byte) /\ Len(queue) \in Nat /\ Len(queue) <= Capacity
    BY Same, Counting, LenProperties DEF IInv, Counted, MemoryOK
  <1>2. CASE UNCHANGED memoryVars /\ (ref' > 0 => ref > 0 \/ class # "memory")
    BY <1>1, <1>2 DEF MemoryOK, memoryVars
  <1>3. CASE Memory!Open
    <2>1. <<>> \in Seq(Byte) /\ Len(<<>>) = 0 /\ 0 <= Capacity
      BY <1>0, EmptySeq
    <2> QED  BY <1>1, <1>3, <2>1 DEF MemoryOK, Memory!Open
  <1>4. CASE ref' = 0 /\ Memory!Close
    <2>1. <<>> \in Seq(Byte) /\ Len(<<>>) = 0 /\ 0 <= Capacity
      BY <1>0, EmptySeq
    <2> QED  BY <1>1, <1>4, <2>1 DEF MemoryOK, Memory!Close
  <1>5. ASSUME ref' = ref, NEW n \in 1 .. MaxLength, Memory!Read(n)
        PROVE  MemoryOK'
    <2> DEFINE m == Memory!Ring!Least(n, Len(queue))
    <2>1. n \in Nat  BY <1>0
    <2>0. m \in Nat /\ m <= Len(queue)
      BY <1>1, <2>1, LeastOf
    <2>2. SubSeq(queue, m + 1, Len(queue)) \in Seq(Byte)
          /\ Len(SubSeq(queue, m + 1, Len(queue))) = Len(queue) - m
      <3> HIDE DEF m
      <3>1. m \in Nat /\ ~(m > Len(queue))  BY <1>1, <2>0
      <3> QED  BY <1>1, <3>1, RestOf
    <2>3. pointer' = pointer /\ queue' \in {queue, SubSeq(queue, m + 1, Len(queue))}
      BY <1>5 DEF Memory!Read, Memory!Ring!Read
    <2> HIDE DEF m
    <2>4. queue' \in Seq(Byte) /\ Len(queue') <= Capacity
      <3> DEFINE rest == SubSeq(queue, m + 1, Len(queue))
      <3>1. rest \in Seq(Byte) /\ Len(rest) <= Capacity
        BY <1>0, <1>1, <2>0, <2>2
      <3> HIDE DEF rest
      <3> QED  BY <1>1, <2>3, <3>1 DEF rest
    <2> QED  BY <1>1, <1>5, <2>3, <2>4 DEF MemoryOK
  <1>6. ASSUME ref' = ref, NEW data \in Blocks, Memory!Write(data)
        PROVE  MemoryOK'
    <2> DEFINE m == Memory!Ring!Least(Len(data), Memory!Ring!Room)
               s == SubSeq(data, 1, m)
    <2>1. data \in Seq(Byte) /\ Len(data) \in Nat /\ Memory!Ring!Room \in Nat
      BY <1>0, <1>1, BlockType DEF Memory!Ring!Room
    <2>2. /\ m \in Nat /\ m <= Len(data) /\ m \in 0 .. Len(data)
          /\ m <= Capacity - Len(queue)
      <3>1. m \in Nat /\ m <= Len(data) /\ m <= Memory!Ring!Room
        BY <2>1, LeastOf
      <3> HIDE DEF m
      <3> QED  BY <2>1, <3>1 DEF Memory!Ring!Room
    <2>3. s \in Seq(Byte) /\ Len(s) = m
      <3> HIDE DEF m
      <3> QED  BY <2>1, <2>2, FirstOf
    <2>4. pointer' = pointer /\ queue' \in {queue, queue \o s}
      BY <1>6 DEF Memory!Write, Memory!Ring!Write
    <2>5. queue \o s \in Seq(Byte) /\ Len(queue \o s) = Len(queue) + m
      <3> HIDE DEF s, m
      <3> QED  BY <1>1, <2>3, BothOf DEF MemoryOK
    <2> HIDE DEF s, m
    <2>6. queue' \in Seq(Byte) /\ Len(queue') <= Capacity
      <3> DEFINE both == queue \o s
      <3>1. both \in Seq(Byte) /\ Len(both) <= Capacity
        BY <1>0, <1>1, <2>2, <2>5
      <3> HIDE DEF both
      <3> QED  BY <1>1, <2>4, <3>1 DEF both
    <2> QED  BY <1>1, <1>6, <2>4, <2>6 DEF MemoryOK
  <1> QED  BY MemorySteps, <1>2, <1>3, <1>4, <1>5, <1>6

-----------------------------------------------------------------------------
(* The file class                                                           *)

LEMMA FileSteps ==
  ASSUME IInv, [Next]_vars
  PROVE  \/ UNCHANGED fileVars
         \/ class = "file" /\ ref = 0 /\ File!Open
         \/ /\ class = "file"
            /\ \/ \E n \in ReadLengths : File!Read(n)
               \/ \E data \in Blocks : File!Write(data)
  <1>1. CASE ref = 0 /\ Opens
    BY <1>1 DEF Opens, Driver
  <1>2. CASE ref = 0 /\ OpenFails
    BY <1>2 DEF OpenFails, Driver
  <1>3. CASE ref = 1 /\ ref' = 0 /\ Closes
    BY <1>3 DEF Closes, Driver, File!Close, fileVars, File!fileVars
  <1>4. CASE ReadBack \/ WriteBack \/ ControlBack \/ ConnectBack
    <2>1. CASE ReadBack  BY <2>1 DEF ReadBack, Driver
    <2>2. CASE WriteBack  BY <2>2 DEF WriteBack, Driver
    <2>3. CASE ControlBack \/ ConnectBack  BY <2>3 DEF ControlBack, ConnectBack, Driver
    <2> QED  BY <1>4, <2>1, <2>2, <2>3
  <1>5. CASE Arrives
    BY <1>5 DEF Arrives, Driver
  <1>6. CASE UNCHANGED drivers
    BY <1>6 DEF drivers
  <1> QED  BY Turns, <1>1, <1>2, <1>3, <1>4, <1>5, <1>6

\* What a write leaves: as long as it was or up to where the write ends, and
\* a continuation of what it was when written at its end.
LEMMA Overwritten ==
  ASSUME FileOK, NEW data \in Seq(Byte)
  PROVE  /\ File!Over(data) \in Seq(Byte)
         /\ Len(File!Over(data)) = IF pos + Len(data) > Len(content)
                                   THEN pos + Len(data) ELSE Len(content)
         /\ pos = Len(content) => IsPrefix(content, File!Over(data))
  <1> DEFINE before == SubSeq(content, 1, pos)
             after == SubSeq(content, pos + Len(data) + 1, Len(content))
  <1>1. /\ content \in Seq(Byte) /\ Len(content) \in Nat /\ Len(data) \in Nat
        /\ pos \in 0 .. Len(content)
    BY DEF FileOK
  <1>2. before \in Seq(Byte) /\ Len(before) = pos
    BY <1>1, FirstOf
  <1>3. /\ after \in Seq(Byte)
        /\ Len(after) = IF pos + Len(data) > Len(content)
                          THEN 0 ELSE Len(content) - pos - Len(data)
    <2> DEFINE k == pos + Len(data)
    <2>1. k \in Nat  BY <1>1
    <2> HIDE DEF k
    <2>2. /\ SubSeq(content, k + 1, Len(content)) \in Seq(Byte)
          /\ Len(SubSeq(content, k + 1, Len(content))) =
               IF k > Len(content) THEN 0 ELSE Len(content) - k
      BY <1>1, <2>1, RestOf
    <2> QED  BY <1>1, <2>2 DEF k
  <1>4. File!Over(data) = (before \o data) \o after
    BY DEF File!Over
  <1>5. pos = Len(content) => before = content
    BY <1>1, SubSeqFull
  <1> HIDE DEF before, after
  <1>6. before \o data \in Seq(Byte) /\ Len(before \o data) = pos + Len(data)
    BY <1>1, <1>2, BothOf
  <1>7. /\ File!Over(data) \in Seq(Byte)
        /\ Len(File!Over(data)) = Len(before \o data) + Len(after)
    BY <1>3, <1>4, <1>6, BothOf
  <1>8. ASSUME pos = Len(content)  PROVE IsPrefix(content, File!Over(data))
    <2> DEFINE s == File!Over(data)
    <2>0. \A i \in 1 .. Len(content) : (content \o data)[i] = content[i]
      BY <1>1, ConcatProperties
    <2>1. \A i \in 1 .. Len(content) : s[i] = content[i]
      <3>1. /\ before = content /\ before \o data \in Seq(Byte)
            /\ Len(before \o data) = Len(content) + Len(data)
        BY <1>5, <1>6, <1>8
      <3>2. \A i \in 1 .. Len(before \o data) + Len(after) :
              ((before \o data) \o after)[i] =
                IF i <= Len(before \o data) THEN (before \o data)[i]
                                            ELSE after[i - Len(before \o data)]
        BY <1>3, <3>1, ConcatProperties
      <3>3. Len(after) \in Nat  BY <1>3, LenProperties
      <3> QED  BY <1>1, <1>4, <2>0, <3>1, <3>2, <3>3
    <2>2. Len(content) <= Len(s) /\ s \in Seq(Byte)
      <3> DEFINE k == Len(before \o data)
                 l == Len(after)
      <3>1. k = Len(content) + Len(data) /\ l \in Nat /\ Len(s) = k + l
        BY <1>3, <1>6, <1>7, <1>8, LenProperties
      <3> HIDE DEF k, l, s
      <3>2. Len(content) <= Len(s)  BY <1>1, <3>1
      <3> QED  BY <1>7, <3>2 DEF s
    <2> HIDE DEF s
    <2>3. SubSeq(content, 1, Len(content)) = SubSeq(s, 1, Len(content))
      BY <1>1, <2>1, <2>2
    <2> QED  BY <2>2, <2>3 DEF IsPrefix, s
  <1>9. Len(File!Over(data)) = IF pos + Len(data) > Len(content)
                                THEN pos + Len(data) ELSE Len(content)
    <2> DEFINE k == Len(before \o data)
               l == Len(after)
               m == Len(File!Over(data))
               c == Len(content)
               d == Len(data)
    <2>1. k = pos + d  BY <1>6
    <2>2. m = k + l  BY <1>7
    <2>3. l = IF pos + d > c THEN 0 ELSE c - pos - d  BY <1>3
    <2>4. c \in Nat /\ d \in Nat /\ pos \in Nat  BY <1>1
    <2> HIDE DEF k, l, m, c, d
    <2>5. m = IF pos + d > c THEN pos + d ELSE c
      BY <2>1, <2>2, <2>3, <2>4
    <2> QED  BY <2>5 DEF m, c, d
  <1> QED  BY <1>7, <1>8, <1>9

LEMMA FileWritten ==
  ASSUME FileOK, NEW data \in Blocks, File!Write(data), orderly' = orderly
  PROVE  FileOK'
  <1>1. PICK n \in 0 .. Len(data) :
          /\ pos + n <= FileMax
          /\ content' = File!Over(SubSeq(data, 1, n))
          /\ pos' = pos + n /\ UNCHANGED settled
    BY DEF File!Write
  <1>2. SubSeq(data, 1, n) \in Seq(Byte) /\ Len(SubSeq(data, 1, n)) = n
    BY BlockType
  <1>3. /\ content' \in Seq(Byte)
        /\ Len(content') = IF pos + n > Len(content) THEN pos + n ELSE Len(content)
    BY <1>1, <1>2, Overwritten
  <1>4. pos \in 0 .. Len(content) /\ Len(content) \in Nat
        /\ Len(content) <= FileMax /\ n \in Nat
    BY BlockType DEF FileOK
  <1>5. FileMax \in Nat  BY UseAssumption DEF UseAssumption
  <1> QED  BY <1>1, <1>3, <1>4, <1>5 DEF FileOK

LEMMA StepFile == ASSUME IInv, [Next]_vars PROVE FileOK'
  <1>0. FileMax \in Nat /\ MaxLength \in Nat  BY UseAssumption DEF UseAssumption
  <1>1. /\ FileOK /\ class' = class /\ orderly' = orderly
        /\ Len(content) \in Nat /\ Len(content) <= FileMax
        /\ pos \in 0 .. Len(content)
    BY Same, LenProperties DEF IInv, FileOK
  <1>2. CASE UNCHANGED fileVars
    BY <1>1, <1>2 DEF FileOK, fileVars
  <1>3. CASE File!Open
    <2>1. pos' = 0 /\ settled' = (content = <<>>) /\ content' = content
      BY <1>3 DEF File!Open
    <2>2. settled' => Len(content) = 0  BY <2>1, EmptySeq
    <2> HIDE DEF FileOK
    <2>3. pos' \in 0 .. Len(content') /\ (settled' => pos' = Len(content'))
      BY <1>1, <2>1, <2>2
    <2> QED  BY <1>1, <2>1, <2>3 DEF FileOK
  <1>4. ASSUME class = "file", NEW n \in ReadLengths, File!Read(n)
        PROVE  FileOK'
    <2>1. n \in Nat /\ (orderly => n = FileMax)
      BY <1>0, <1>4 DEF ReadLengths
    <2>2. /\ pos' = (IF n < Len(content) THEN n ELSE Len(content))
          /\ content' = content
      BY <1>4 DEF File!Read
    <2>3. /\ pos' \in 0 .. Len(content)
          /\ orderly => pos' = Len(content)
      BY <1>0, <1>1, <2>1, <2>2
    <2> QED  BY <1>1, <2>2, <2>3 DEF FileOK
  <1>5. ASSUME NEW data \in Blocks, File!Write(data)  PROVE FileOK'
    BY <1>1, <1>5, FileWritten
  <1> QED  BY FileSteps, <1>2, <1>3, <1>4, <1>5

-----------------------------------------------------------------------------
(* The serial class                                                         *)

LEMMA SerialSteps ==
  ASSUME IInv, [Next]_vars
  PROVE  \/ UNCHANGED serialVars
         \/ class = "serial" /\ ref = 0 /\ (Serial!Open \/ Serial!OpenFails)
         \/ class = "serial" /\ ref' = 0 /\ Serial!Close
         \/ Serial!Read \/ SerialControl
         \/ Serial!Arrives
  <1> USE DEF serialVars, Serial!serialVars
  <1>1. CASE ref = 0 /\ Opens
    BY <1>1 DEF Opens, Driver
  <1>2. CASE ref = 0 /\ OpenFails
    BY <1>2 DEF OpenFails, Driver
  <1>3. CASE ref = 1 /\ ref' = 0 /\ Closes
    BY <1>3 DEF Closes, Driver
  <1>4. CASE ReadBack \/ WriteBack \/ ControlBack \/ ConnectBack
    <2>1. CASE ReadBack  BY <2>1 DEF ReadBack, Driver
    <2>2. CASE WriteBack  BY <2>2 DEF WriteBack, Driver, Serial!Quiet
    <2>3. CASE ControlBack \/ ConnectBack  BY <2>3 DEF ControlBack, ConnectBack, Driver
    <2> QED  BY <1>4, <2>1, <2>2, <2>3
  <1>5. CASE Arrives
    BY <1>5 DEF Arrives, Driver
  <1>6. CASE UNCHANGED drivers
    BY <1>6 DEF drivers
  <1> QED  BY Turns, <1>1, <1>2, <1>3, <1>4, <1>5, <1>6

\* What tcsetattr was given comes back from tcgetattr.
LEMMA Configured ==
  ASSUME port \in Ports, NEW o \in Serial!Options, o.bits \in DataBits
  PROVE  /\ Serial!With(o) \in Ports
         /\ port' = Serial!With(o) /\ opt' = o => PortAsRecorded'
  <1>1. /\ o.parity \in {"none", "even", "odd"} /\ o.stop \in {"1", "1.5", "2"}
        /\ o.flow \in BOOLEAN
        /\ o = [bits |-> o.bits, parity |-> o.parity, stop |-> o.stop, flow |-> o.flow]
    BY DEF Serial!Options
  <1>2. /\ port.csize \in DataBits \cup {0, 8} /\ port.parodd \in BOOLEAN
        /\ port.cstopb \in BOOLEAN
    BY DEF Ports
  <1>3. Serial!With(o) \in Ports
    BY <1>1, <1>2 DEF Serial!With, Serial!OddFlag, Ports
  <1>4. ASSUME port' = Serial!With(o), opt' = o, o.bits \in 5 .. 8, o.stop # "1.5"
        PROVE  Serial!Reported' = o
    <2>1. /\ port'.csize = o.bits /\ port'.parenb = (o.parity # "none")
          /\ o.parity # "none" => port'.parodd = (o.parity = "odd")
          /\ port'.cstopb = (o.stop = "2") /\ port'.crtscts = o.flow
      BY <1>1, <1>4 DEF Serial!With, Serial!OddFlag
    <2>2. /\ (IF ~port'.parenb THEN "none" ELSE IF port'.parodd THEN "odd" ELSE "even")
               = o.parity
          /\ (IF port'.cstopb THEN "2" ELSE "1") = o.stop
      BY <1>1, <1>4, <2>1
    <2> QED  BY <1>1, <2>1, <2>2 DEF Serial!Reported
  <1> QED  BY <1>3, <1>4 DEF PortAsRecorded

LEMMA StepSerial == ASSUME IInv, [Next]_vars PROVE SerialOK'
  <1>0. MaxInput \in Nat  BY UseAssumption DEF UseAssumption
  <1>1. SerialOK  BY DEF IInv
  <1>2. CASE UNCHANGED serialVars
    BY <1>1, <1>2 DEF SerialOK, serialVars, PortAsRecorded, Serial!Reported
  <1>3. CASE Serial!Open \/ Serial!OpenFails
    <2>1. Serial!DefaultPort \in Ports  BY DEF Serial!DefaultPort, Ports
    <2>2. /\ port' \in Ports /\ UNCHANGED <<opt, timeout>>
          /\ input' = 0 /\ configured' = FALSE
      BY <1>1, <1>3, <2>1 DEF SerialOK, Serial!Open, Serial!OpenFails
    <2> QED  BY <1>0, <1>1, <2>2 DEF SerialOK, PortAsRecorded
  <1>4. CASE \/ Serial!Close \/ Serial!SetOptionsFails \/ Serial!Quiet
             \/ Serial!Read \/ Serial!Arrives
    <2>1. UNCHANGED <<port, opt, timeout, configured>>
      BY <1>4 DEF Serial!Close, Serial!SetOptionsFails, Serial!Quiet, Serial!Read,
                  Serial!Arrives, Serial!serialVars
    <2>2. input' \in 0 .. MaxInput
      BY <1>0, <1>1, <1>4 DEF SerialOK, Serial!Close, Serial!SetOptionsFails,
           Serial!Quiet, Serial!Read, Serial!Arrives, Serial!serialVars
    <2> QED  BY <1>1, <2>1, <2>2 DEF SerialOK, PortAsRecorded, Serial!Reported
  <1>5. ASSUME NEW n \in Timeouts, Serial!SetTimeout(n)  PROVE SerialOK'
    BY <1>1, <1>5 DEF SerialOK, Serial!SetTimeout, PortAsRecorded, Serial!Reported
  <1>6. ASSUME NEW o \in Serial!Options, o.bits \in DataBits, Serial!SetOptions(o)
        PROVE  SerialOK'
    <2>1. /\ port' = Serial!With(o) /\ opt' = o
          /\ input' = 0 /\ timeout' = timeout
      BY <1>6 DEF Serial!SetOptions
    <2> QED  BY <1>0, <1>1, <1>6, <2>1, Configured DEF SerialOK
  <1> QED  BY SerialSteps, <1>2, <1>3, <1>4, <1>5, <1>6 DEF SerialControl

-----------------------------------------------------------------------------
(* The UDP class                                                            *)

LEMMA UdpSteps ==
  ASSUME IInv, [Next]_vars
  PROVE  \/ UNCHANGED udpVars /\ (ref' > 0 => ref > 0 \/ class # "udp")
         \/ class = "udp" /\ Udp!Open
         \/ class = "udp" /\ ref' = 0 /\ Udp!Close
         \/ /\ class = "udp" /\ ref' = ref
            /\ \/ Udp!Read \/ Udp!Write \/ Udp!Bind
               \/ \E a \in Addrs : Udp!Connect(a) \/ Udp!Arrives(a)
               \/ \E b \in BOOLEAN : (orderly => ~b) /\ Udp!SetEcho(b)
  <1>1. CASE ref = 0 /\ Opens
    BY <1>1 DEF Opens, Driver
  <1>2. CASE ref = 0 /\ OpenFails
    BY <1>2 DEF OpenFails, Driver
  <1>3. CASE ref = 1 /\ ref' = 0 /\ Closes
    BY <1>3 DEF Closes, Driver
  <1>4. CASE ref' = ref /\ (ReadBack \/ WriteBack \/ ControlBack \/ ConnectBack)
    <2>1. CASE ReadBack  BY <1>4, <2>1 DEF ReadBack, Driver
    <2>2. CASE WriteBack  BY <1>4, <2>2 DEF WriteBack, Driver
    <2>3. CASE ControlBack
      <3>1. CASE Driver("udp", UdpControl)
        BY <1>4, <3>1 DEF Driver, UdpControl, Udp!Quiet, udpVars, Udp!udpVars,
                          Udp!link, Udp!socket
      <3> QED  BY <1>4, <2>3, <3>1 DEF ControlBack, Driver
    <2>4. CASE ConnectBack
      BY <1>4, <2>4 DEF ConnectBack, Driver, Udp!Quiet, udpVars, Udp!udpVars,
                        Udp!link, Udp!socket
    <2> QED  BY <1>4, <2>1, <2>2, <2>3, <2>4
  <1>5. CASE ref' = ref /\ Arrives
    BY <1>5 DEF Arrives, Driver
  <1>6. CASE UNCHANGED drivers /\ (ref' > 0 => ref > 0)
    BY <1>6 DEF drivers
  <1> QED  BY Turns, <1>1, <1>2, <1>3, <1>4, <1>5, <1>6

LEMMA StepUdp == ASSUME IInv, [Next]_vars PROVE UdpOK'
  <1>0. MaxInbox \in Nat  BY UseAssumption DEF UseAssumption
  <1>1. /\ UdpOK /\ class' = class /\ orderly' = orderly
        /\ inbox \in Seq(Addrs) /\ Len(inbox) \in Nat /\ Len(inbox) <= MaxInbox
    BY Same, LenProperties DEF IInv, UdpOK
  <1>2. CASE UNCHANGED udpVars /\ (ref' > 0 => ref > 0 \/ class # "udp")
    BY <1>1, <1>2 DEF UdpOK, udpVars, WritesToPeer
  <1>3. ASSUME Udp!NewSocket  PROVE inbox' \in Seq(Addrs) /\ Len(inbox') <= MaxInbox
    <2>1. <<>> \in Seq(Addrs) /\ Len(<<>>) = 0 /\ 0 <= MaxInbox  BY <1>0, EmptySeq
    <2> QED  BY <1>3, <2>1 DEF Udp!NewSocket
  <1>4. CASE Udp!Open
    <2>1. inbox' \in Seq(Addrs) /\ Len(inbox') <= MaxInbox
      BY <1>3, <1>4 DEF Udp!Open
    <2>2. /\ saddr' = (IF filename = NoAddr THEN saddr ELSE filename)
          /\ filter' = NoAddr /\ UNCHANGED <<raddr, echo_flag, filename>>
      BY <1>4 DEF Udp!Open, Udp!NewSocket
    <2> QED  BY <1>1, <2>1, <2>2 DEF UdpOK, WritesToPeer
  <1>5. CASE ref' = 0 /\ Udp!Close
    <2>1. inbox' \in Seq(Addrs) /\ Len(inbox') <= MaxInbox
      BY <1>3, <1>5 DEF Udp!Close
    <2>2. filter' = NoAddr /\ UNCHANGED <<saddr, raddr, echo_flag, filename>>
      BY <1>5 DEF Udp!Close, Udp!NewSocket, Udp!link
    <2>3. ~(ref' > 0)  BY <1>5
    <2> QED  BY <1>1, <2>1, <2>2, <2>3 DEF UdpOK, WritesToPeer
  <1>6. CASE ref' = ref /\ Udp!Read
    <2>1. /\ Head(inbox) \in Addrs /\ Tail(inbox) \in Seq(Addrs)
          /\ Len(Tail(inbox)) = Len(inbox) - 1 /\ inbox' = Tail(inbox)
      BY <1>1, <1>6, HeadTailProperties DEF Udp!Read
    <2>2. Len(inbox') <= MaxInbox  BY <1>0, <1>1, <2>1
    <2> QED  BY <1>1, <1>6, <2>1, <2>2 DEF UdpOK, Udp!Read, WritesToPeer
  <1>7. CASE ref' = ref /\ (Udp!Write \/ Udp!Bind)
    BY <1>1, <1>7 DEF UdpOK, Udp!Write, Udp!Bind, Udp!link, WritesToPeer
  <1>8. ASSUME ref' = ref, NEW a \in Addrs, Udp!Connect(a)  PROVE UdpOK'
    BY <1>1, <1>8 DEF UdpOK, Udp!Connect, Udp!set_remote_addr, WritesToPeer
  <1>9. ASSUME ref' = ref, NEW a \in Addrs, Udp!Arrives(a)  PROVE UdpOK'
    <2>1. /\ Append(inbox, a) \in Seq(Addrs) /\ Len(Append(inbox, a)) = Len(inbox) + 1
          /\ inbox' = Append(inbox, a) /\ Len(inbox) < MaxInbox
      BY <1>1, <1>9, AppendProperties DEF Udp!Arrives
    <2>2. Len(inbox') <= MaxInbox  BY <1>0, <1>1, <2>1
    <2> QED  BY <1>1, <1>9, <2>1, <2>2 DEF UdpOK, Udp!Arrives, Udp!link, WritesToPeer
  <1>10. ASSUME ref' = ref, NEW b \in BOOLEAN, orderly => ~b, Udp!SetEcho(b)
         PROVE  UdpOK'
    BY <1>1, <1>10 DEF UdpOK, Udp!SetEcho, Udp!socket, WritesToPeer
  <1> QED  BY UdpSteps, <1>2, <1>4, <1>5, <1>6, <1>7, <1>8, <1>9, <1>10

-----------------------------------------------------------------------------
(* The backlight class                                                      *)

LEMMA BacklightSteps ==
  ASSUME IInv, [Next]_vars
  PROVE  \/ UNCHANGED backlightVars
         \/ \E l \in Backlight!Levels : Backlight!Write(l)
  <1> USE DEF backlightVars, Backlight!backlightVars, Backlight!Quiet
  <1>1. CASE ref = 0 /\ Opens
    BY <1>1 DEF Opens, Driver
  <1>2. CASE ref = 0 /\ OpenFails
    BY <1>2 DEF OpenFails, Driver
  <1>3. CASE ref = 1 /\ ref' = 0 /\ Closes
    BY <1>3 DEF Closes, Driver
  <1>4. CASE ReadBack \/ WriteBack \/ ControlBack \/ ConnectBack
    <2>1. CASE ReadBack  BY <2>1 DEF ReadBack, Driver
    <2>2. CASE WriteBack  BY <2>2 DEF WriteBack, Driver
    <2>3. CASE ControlBack \/ ConnectBack  BY <2>3 DEF ControlBack, ConnectBack, Driver
    <2> QED  BY <1>4, <2>1, <2>2, <2>3
  <1>5. CASE Arrives
    BY <1>5 DEF Arrives, Driver
  <1>6. CASE UNCHANGED drivers
    BY <1>6 DEF drivers
  <1> QED  BY Turns, <1>1, <1>2, <1>3, <1>4, <1>5, <1>6

LEMMA QuotientBounds ==
  ASSUME NEW n \in Nat, NEW d \in Nat \ {0}
  PROVE  n \div d \in Nat /\ d * (n \div d) <= n /\ n < d * (n \div d + 1)
  OBVIOUS

LEMMA QuotientOfMultiple ==
  ASSUME NEW n \in Nat, NEW d \in Nat \ {0}, n % d = 0
  PROVE  n = d * (n \div d)
  OBVIOUS

\* A quotient that is cut, the one of single precision included.
LEMMA CutBounds ==
  ASSUME NEW n \in Nat, NEW d \in Nat \ {0}, NEW c \in Backlight!Cut(n, d)
  PROVE  c \in Nat /\ d * c <= n /\ n <= d * (c + 1)
  <1> DEFINE q == n \div d
  <1>1. q \in Nat /\ d * q <= n /\ n < d * (q + 1)
    BY QuotientBounds
  <1>2. c = q \/ (n > 0 /\ n % d = 0 /\ c = q - 1)
    BY DEF Backlight!Cut
  <1>3. CASE c = q
    <2> HIDE DEF q
    <2>1. d * (q + 1) \in Int  BY <1>1
    <2> QED  BY <1>1, <1>3, <2>1
  <1>4. CASE n > 0 /\ n % d = 0 /\ c = q - 1
    <2>1. n = d * q  BY <1>4, QuotientOfMultiple
    <2> HIDE DEF q
    <2>2. q > 0  BY <1>1, <1>4, <2>1
    <2>3. c \in Nat /\ c + 1 = q  BY <1>1, <1>4, <2>2
    <2>4. d * c = d * q - d  BY <1>1, <1>4
    <2>5. d * c <= n  BY <2>1, <2>4
    <2> QED  BY <2>1, <2>3, <2>5
  <1> QED  BY <1>2, <1>3, <1>4

LEMMA Cancels ==
  ASSUME NEW d \in Nat \ {0}, NEW x \in Int, NEW y \in Int, d * x <= d * y
  PROVE  x <= y
  OBVIOUS

\* Scaled to d steps and back, a level has lost little.
LEMMA ThereAndBack ==
  ASSUME NEW d \in Nat \ {0}, NEW l \in Backlight!Levels,
         NEW b \in Backlight!Cut(l * d, 100)
  PROVE  /\ b \in 0 .. d
         /\ \A r \in Backlight!Cut(b * 100, d) :
              /\ r \in Nat /\ r <= l /\ l - r <= 100 \div d + 1
  <1>1. l \in Nat /\ l <= 100 /\ l * d \in Nat  BY DEF Backlight!Levels
  <1>2. b \in Nat /\ 100 * b <= l * d /\ l * d <= 100 * (b + 1)
    BY <1>1, CutBounds
  <1>3. l * d <= 100 * d  BY <1>1
  <1>4. 100 * b <= 100 * d  BY <1>1, <1>2, <1>3
  <1>5. b <= d  BY <1>2, <1>4
  <1>6. ASSUME NEW r \in Backlight!Cut(b * 100, d)
        PROVE  r \in Nat /\ r <= l /\ l - r <= 100 \div d + 1
    <2>1. r \in Nat /\ d * r <= b * 100 /\ b * 100 <= d * (r + 1)
      BY <1>2, CutBounds
    <2>2. d * r <= d * l  BY <1>1, <1>2, <2>1
    <2>3. r <= l  BY <1>1, <2>1, <2>2, Cancels
    <2>4. d * l <= d * (r + 1) + 100  BY <1>1, <1>2, <2>1
    <2>5. d * (l - r - 1) <= 100
      <3>1. d * (l - r - 1) = d * l - d * (r + 1)  BY <1>1, <2>1
      <3>2. d * l \in Int /\ d * (r + 1) \in Int  BY <1>1, <2>1
      <3> QED  BY <2>4, <3>1, <3>2
    <2> DEFINE q == 100 \div d
    <2>6. q \in Nat /\ 100 < d * (q + 1)  BY QuotientBounds
    <2> HIDE DEF q
    <2>7. d * (l - r - 1) <= d * (q + 1) /\ d * (l - r - 1) # d * (q + 1)
      BY <1>1, <2>1, <2>5, <2>6
    <2>8. l - r - 1 <= q + 1 /\ l - r - 1 # q + 1
      BY <1>1, <2>1, <2>6, <2>7, Cancels
    <2>9. l - r <= q + 1  BY <1>1, <2>1, <2>6, <2>8
    <2> QED  BY <2>1, <2>3, <2>9 DEF q
  <1> QED  BY <1>2, <1>5, <1>6

LEMMA StepBacklight == ASSUME IInv, [Next]_vars PROVE BacklightOK'
  <1>1. BacklightOK  BY DEF IInv
  <1>2. CASE UNCHANGED backlightVars
    BY <1>1, <1>2 DEF BacklightOK, backlightVars, LevelReadBack, Backlight!Readings
  <1>3. ASSUME NEW l \in Backlight!Levels, Backlight!Write(l)  PROVE BacklightOK'
    <2> DEFINE d == max - min
    <2>1. /\ max \in Nat /\ min \in Nat /\ min < max /\ d \in Nat \ {0}
          /\ max' = max /\ min' = min /\ asked' = l
      BY <1>1, <1>3 DEF BacklightOK, Backlight!Write
    <2>2. PICK b \in Backlight!Cut(l * d, 100) : brightness' = b + min
      BY <1>3 DEF Backlight!Write, Backlight!Scaled
    <2>3. /\ b \in 0 .. d
          /\ \A r \in Backlight!Cut(b * 100, d) :
               /\ r \in Nat /\ r <= l /\ l - r <= 100 \div d + 1
      BY <2>1, ThereAndBack
    <2>4. brightness' \in min .. max /\ brightness' - min = b
      BY <2>1, <2>2, <2>3
    <2>5. Backlight!Readings' = Backlight!Cut(b * 100, d)
      BY <2>1, <2>4 DEF Backlight!Readings
    <2>6. LevelReadBack'
      BY <2>1, <2>3, <2>4, <2>5 DEF LevelReadBack
    <2> QED  BY <1>3, <2>1, <2>4, <2>6 DEF BacklightOK
  <1> QED  BY BacklightSteps, <1>2, <1>3

-----------------------------------------------------------------------------
(* The clock and the pins                                                   *)

LEMMA RtcSteps ==
  ASSUME IInv, [Next]_vars
  PROVE  \/ UNCHANGED rtcVars
         \/ \E d \in Dates : Rtc!Write(d)
         \/ Rtc!Ticks
  <1> USE DEF rtcVars, Rtc!rtcVars, Rtc!Quiet
  <1>1. CASE ref = 0 /\ Opens
    BY <1>1 DEF Opens, Driver
  <1>2. CASE ref = 0 /\ OpenFails
    BY <1>2 DEF OpenFails, Driver
  <1>3. CASE ref = 1 /\ ref' = 0 /\ Closes
    BY <1>3 DEF Closes, Driver
  <1>4. CASE ReadBack \/ WriteBack \/ ControlBack \/ ConnectBack
    <2>1. CASE ReadBack  BY <2>1 DEF ReadBack, Driver
    <2>2. CASE WriteBack  BY <2>2 DEF WriteBack, Driver
    <2>3. CASE ControlBack \/ ConnectBack  BY <2>3 DEF ControlBack, ConnectBack, Driver
    <2> QED  BY <1>4, <2>1, <2>2, <2>3
  <1>5. CASE Arrives
    BY <1>5 DEF Arrives, Driver
  <1>6. CASE UNCHANGED drivers
    BY <1>6 DEF drivers
  <1> QED  BY Turns, <1>1, <1>2, <1>3, <1>4, <1>5, <1>6

LEMMA StepRtc == ASSUME IInv, [Next]_vars PROVE RtcOK'
  <1>0. Dates \subseteq [mon : Int, year : Int] /\ NoDate \notin [mon : Int, year : Int]
    BY UseAssumption DEF UseAssumption
  <1>1. RtcOK /\ clock \in [mon : Int, year : Int]  BY DEF IInv, RtcOK
  <1>2. CASE UNCHANGED rtcVars
    BY <1>1, <1>2 DEF RtcOK, rtcVars, DateReadBack, Rtc!Reading, Rtc!Valid
  <1>3. ASSUME NEW d \in Dates, Rtc!Valid(Rtc!Converted(d)),
               clock' = Rtc!Converted(d), due' = d
        PROVE  RtcOK'
    <2>1. d \in [mon : Int, year : Int]  BY <1>0
    <2>2. Rtc!Converted(d) \in [mon : Int, year : Int]
      BY <2>1 DEF Rtc!Converted
    <2>3. d = [mon |-> d.mon, year |-> d.year]  BY <2>1
    <2>4. Rtc!Reading' = d
      BY <1>3, <2>1, <2>3 DEF Rtc!Reading, Rtc!Converted
    <2> QED  BY <1>3, <2>1, <2>2, <2>4 DEF RtcOK, DateReadBack, Rtc!Valid
  <1>4. CASE Rtc!Ticks
    <2>1. /\ clock' \in [mon : Int, year : Int] /\ Rtc!Valid(clock')
          /\ clock' = IF clock.mon = 11 THEN [mon |-> 0, year |-> clock.year + 1]
                      ELSE [mon |-> clock.mon + 1, year |-> clock.year]
      BY <1>1, <1>4 DEF RtcOK, Rtc!Ticks, Rtc!Passes, Rtc!Valid
    <2>2. CASE due = NoDate
      BY <1>1, <1>4, <2>1, <2>2 DEF RtcOK, Rtc!Ticks, DateReadBack, Rtc!Valid
    <2>3. CASE due # NoDate
      <3>1. due = [mon |-> clock.mon + 1, year |-> clock.year + 1900]
        BY <1>1, <2>3 DEF RtcOK, DateReadBack, Rtc!Reading
      <3>2. due' = IF clock.mon = 11 THEN [mon |-> 1, year |-> clock.year + 1900 + 1]
                   ELSE [mon |-> clock.mon + 1 + 1, year |-> clock.year + 1900]
        BY <1>1, <1>4, <2>3, <3>1 DEF Rtc!Ticks, Rtc!Passes
      <3>3. due' \in [mon : Int, year : Int]
        BY <1>1, <3>2
      <3>4. Rtc!Reading' = due'
        BY <1>1, <2>1, <3>2 DEF Rtc!Reading
      <3> QED  BY <2>1, <3>3, <3>4 DEF RtcOK, DateReadBack, Rtc!Valid
    <2> QED  BY <2>2, <2>3
  <1> QED  BY RtcSteps, <1>2, <1>3, <1>4 DEF Rtc!Write, rtcVars, Rtc!rtcVars

LEMMA PinSteps ==
  ASSUME IInv, [Next]_vars
  PROVE  \/ UNCHANGED pinVars
         \/ \E l \in {0, 1} : Pin!Write(l)
         \/ Pin!DigitalControl
         \/ Pin!Arrives
  <1> USE DEF pinVars, Pin!pinVars
  <1>1. CASE ref = 0 /\ Opens
    BY <1>1 DEF Opens, Driver, Pin!Open
  <1>2. CASE ref = 0 /\ OpenFails
    BY <1>2 DEF OpenFails, Driver
  <1>3. CASE ref = 1 /\ ref' = 0 /\ Closes
    BY <1>3 DEF Closes, Driver, Pin!Close
  <1>4. CASE ReadBack \/ WriteBack \/ ControlBack \/ ConnectBack
    <2>1. CASE ReadBack  BY <2>1 DEF ReadBack, Driver, Pin!Read
    <2>2. CASE WriteBack  BY <2>2 DEF WriteBack, Driver
    <2>3. CASE ControlBack \/ ConnectBack
      BY <2>3 DEF ControlBack, ConnectBack, Driver, Pin!MiscControl
    <2> QED  BY <1>4, <2>1, <2>2, <2>3
  <1>5. CASE Arrives
    BY <1>5 DEF Arrives, Driver
  <1>6. CASE UNCHANGED drivers
    BY <1>6 DEF drivers
  <1> QED  BY Turns, <1>1, <1>2, <1>3, <1>4, <1>5, <1>6

LEMMA StepPin == ASSUME IInv, [Next]_vars PROVE PinOK'
  <1>0. MaxPulses \in Nat  BY UseAssumption DEF UseAssumption
  <1>1. PinOK  BY DEF IInv
  <1>2. CASE UNCHANGED pinVars
    BY <1>1, <1>2 DEF PinOK, pinVars
  <1>3. ASSUME NEW l \in {0, 1}, Pin!Write(l)  PROVE PinOK'
    BY <1>1, <1>3 DEF PinOK, Pin!Write
  <1>4. CASE Pin!DigitalControl
    BY <1>0, <1>1, <1>4 DEF PinOK, Pin!DigitalControl
  <1>5. CASE Pin!Arrives
    BY <1>0, <1>1, <1>5 DEF PinOK, Pin!Arrives
  <1> QED  BY PinSteps, <1>2, <1>3, <1>4, <1>5

-----------------------------------------------------------------------------
(* The invariant                                                            *)

LEMMA InitIInv == Init => IInv
  <1> SUFFICES ASSUME Init PROVE IInv
    OBVIOUS
  <1> USE DEF Init
  <1>1. Calls /\ Counted /\ HeldByCount
    <2>1. IsFiniteSet({}) /\ Cardinality({}) = 0
      BY FS_EmptySet
    <2>2. Calls
      BY <2>1, UseAssumption DEF UseAssumption, Calls
    <2>3. Counted
      BY <2>1 DEF Counted
    <2>4. HeldByCount
      BY UseAssumption DEF UseAssumption, HeldByCount
    <2> QED  BY <2>2, <2>3, <2>4
  <1>2. MemoryOK /\ UdpOK
    <2>1. Capacity \in Nat /\ MaxInbox \in Nat
      BY UseAssumption DEF UseAssumption
    <2>2. <<>> \in Seq(Byte) /\ <<>> \in Seq(Addrs) /\ Len(<<>>) = 0
      BY EmptySeq
    <2>3. MemoryOK
      BY <2>1, <2>2 DEF MemoryOK, Memory!Init, Memory!Ring!Init
    <2>4. UdpOK
      BY <2>1, <2>2 DEF UdpOK, Udp!Init, WritesToPeer
    <2> QED  BY <2>3, <2>4
  <1>3. FileOK
    <2>1. FileMax \in Nat \ {0}
      BY UseAssumption DEF UseAssumption
    <2>2. content \in Seq(Byte) /\ Len(content) <= 1
      <3>1. content = <<>> \/ \E b \in Byte : content = <<b>>
        BY DEF File!Init
      <3>2. <<>> \in Seq(Byte) /\ Len(<<>>) = 0
        BY EmptySeq
      <3>3. \A b \in Byte : <<b>> \in Seq(Byte) /\ Len(<<b>>) = 1
        OBVIOUS
      <3>4. CASE content = <<>>  BY <3>2, <3>4
      <3>5. ASSUME NEW b \in Byte, content = <<b>>
            PROVE  content \in Seq(Byte) /\ Len(content) <= 1
        BY <3>3, <3>5
      <3> QED  BY <3>1, <3>4, <3>5
    <2>3. pos = 0 /\ settled = FALSE /\ Len(content) \in Nat
      BY <2>2, LenProperties DEF File!Init
    <2> QED  BY <2>1, <2>2, <2>3 DEF FileOK
  <1>4. SerialOK
    <2>1. Serial!DefaultPort \in Ports
      BY DEF Serial!DefaultPort, Ports
    <2>2. Serial!ZeroOptions \in Serial!Options
      BY DEF Serial!ZeroOptions, Serial!Options
    <2>3. MaxInput \in Nat
      BY UseAssumption DEF UseAssumption
    <2> QED  BY <2>1, <2>2, <2>3 DEF SerialOK, Serial!Init, PortAsRecorded
  <1>5. BacklightOK
    <2>1. max \in Nat \ {0, 1}
      <3>1. Maxima \subseteq Nat \ {0, 1}
        BY UseAssumption DEF UseAssumption
      <3>2. max \in Maxima \/ max = 255
        BY DEF Backlight!Init
      <3>3. CASE max \in Maxima  BY <3>1, <3>3
      <3>4. CASE max = 255  BY <3>4
      <3> QED  BY <3>2, <3>3, <3>4
    <2>2. min \in Nat /\ min < max
      <3>1. CASE max > 32 /\ min = max \div 5
        <4>1. min \in Nat /\ 5 * min <= max
          BY <2>1, <3>1, QuotientBounds
        <4> QED  BY <2>1, <3>1, <4>1
      <3>2. CASE min = 1
        BY <2>1, <3>2
      <3>3. CASE max = 255 /\ min = 20
        BY <3>3
      <3> QED  BY <3>1, <3>2, <3>3 DEF Backlight!Init
    <2>3. brightness \in 0 .. max /\ asked = NoLevel
      BY <2>1 DEF Backlight!Init
    <2> QED  BY <2>1, <2>2, <2>3 DEF BacklightOK, LevelReadBack
  <1>6. RtcOK /\ PinOK
    BY UseAssumption DEF UseAssumption, RtcOK, PinOK, Rtc!Init, Rtc!Valid, Pin!Init,
         DateReadBack
  <1> QED  BY <1>1, <1>2, <1>3, <1>4, <1>5, <1>6 DEF IInv

LEMMA StepIInv == IInv /\ [Next]_vars => IInv'
  <1> SUFFICES ASSUME IInv, [Next]_vars PROVE IInv'
    OBVIOUS
  <1>1. class' = class /\ orderly' = orderly
    BY Same
  <1>2. Calls' /\ Counted' /\ HeldByCount'
    BY StepUse DEF IInv
  <1>3. /\ MemoryOK' /\ FileOK' /\ SerialOK' /\ UdpOK'
        /\ BacklightOK' /\ RtcOK' /\ PinOK'
    BY StepMemory, StepFile, StepSerial, StepUdp, StepBacklight, StepRtc, StepPin
  <1> QED  BY <1>1, <1>2, <1>3 DEF IInv

LEMMA Invariant == FairSpec => []IInv
  BY InitIInv, StepIInv, PTL DEF FairSpec

LEMMA ReportedType == ASSUME SerialOK PROVE Serial!Reported \in Serial!Options
  BY DEF SerialOK, Ports, Serial!Reported, Serial!Options

\* Somebody in a callback uses the device; what is used is counted.
LEMMA UsedIsCounted ==
  ASSUME IInv, orderly, using # {}
  PROVE  ref \in Nat /\ ref > 0 /\ ref = Cardinality(using)
  <1>1. Calls /\ ref = Cardinality(using)
    BY DEF IInv, Counted
  <1>2. Cardinality(using) \in Nat /\ Cardinality(using) > 0
    BY <1>1, Counting
  <1> QED  BY <1>1, <1>2

-----------------------------------------------------------------------------
(* The theorems                                                             *)

\* TypeOK: every variable has its type, whatever the class of the device.
THEOREM DriverTypes == FairSpec => []TypeOK
  <1>1. IInv => TypeOK
    <2> SUFFICES ASSUME IInv PROVE TypeOK
      OBVIOUS
    <2>1. /\ class \in Classes /\ orderly \in BOOLEAN
          /\ ref \in 0 .. Cardinality(using) /\ held \in 0 .. MaxHeld
      BY DEF IInv, Counted, HeldByCount
    <2>2. /\ mutex \in Threads \cup {NoThread} /\ using \subseteq Threads
          /\ call \in [Threads -> Ops \cup {"none"}]
      BY DEF IInv, Calls
    <2>3. /\ pointer \in {"null", "live", "freed"} /\ queue \in Seq(Byte)
          /\ Len(queue) <= Capacity
      BY DEF IInv, MemoryOK
    <2>4. content \in Seq(Byte) /\ pos \in 0 .. FileMax /\ Len(content) <= FileMax
      <3>1. /\ content \in Seq(Byte) /\ Len(content) \in Nat /\ Len(content) <= FileMax
            /\ pos \in 0 .. Len(content)
        BY LenProperties DEF IInv, FileOK
      <3>2. FileMax \in Nat  BY UseAssumption DEF UseAssumption
      <3> QED  BY <3>1, <3>2
    <2>5. /\ opt \in Serial!Options /\ Serial!Reported \in Serial!Options
          /\ timeout \in Timeouts \cup {0} /\ input \in 0 .. MaxInput
      BY ReportedType DEF IInv, SerialOK
    <2>6. /\ {saddr, raddr, filename, filter} \subseteq Addrs \cup {NoAddr}
          /\ inbox \in Seq(Addrs) /\ Len(inbox) <= MaxInbox
      BY DEF IInv, UdpOK
    <2>7. brightness \in 0 .. max /\ asked \in Backlight!Levels \cup {NoLevel}
      BY DEF IInv, BacklightOK
    <2>8. Rtc!Valid(clock) /\ level \in {0, 1} /\ pulses \in 0 .. MaxPulses
      BY DEF IInv, RtcOK, PinOK
    <2> QED  BY <2>1, <2>2, <2>3, <2>4, <2>5, <2>6, <2>7, <2>8 DEF TypeOK
  <1> QED  BY <1>1, Invariant, PTL

\* HeldWhileInUse: however many threads start and stop the device, what open got
\* is held exactly while the count is positive, and no callback of the memory
\* class gets a buffer that is freed or was never had.
THEOREM DriverHeldWhileInUse == FairSpec => []HeldWhileInUse
  <1>1. IInv => HeldWhileInUse
    <2> SUFFICES ASSUME IInv PROVE HeldWhileInUse
      OBVIOUS
    <2>1. (class = "serial" => orderly) => held = IF ref > 0 THEN 1 ELSE 0
      BY DEF IInv, HeldByCount
    <2>2. ASSUME class = "memory", orderly, mutex # NoThread  PROVE pointer = "live"
      <3>1. using # {}
        BY <2>2 DEF IInv, Calls
      <3>2. ref > 0
        BY <2>2, <3>1, UsedIsCounted
      <3> QED  BY <2>2, <3>2 DEF IInv, MemoryOK
    <2> QED  BY <2>1, <2>2 DEF HeldWhileInUse
  <1> QED  BY <1>1, Invariant, PTL

\* PortAsRecorded: what get_serial_options reads is what was set last.
THEOREM SerialPortAsRecorded == FairSpec => []PortAsRecorded
  <1>1. IInv => PortAsRecorded
    BY DEF IInv, SerialOK
  <1> QED  BY <1>1, Invariant, PTL

\* WritesToPeer: without the echo, datagrams go where the device's name says.
THEOREM UdpWritesToPeer == FairSpec => []WritesToPeer
  <1>1. IInv => WritesToPeer
    BY DEF IInv, UdpOK
  <1> QED  BY <1>1, Invariant, PTL

\* LevelReadBack: for a panel with any number of steps, what a level loses on its
\* way to the panel and back is bounded, and the panel is not darker than min.
THEOREM BacklightLevelReadBack == FairSpec => []LevelReadBack
  <1>1. IInv => LevelReadBack
    BY DEF IInv, BacklightOK
  <1> QED  BY <1>1, Invariant, PTL

\* DateReadBack: a date that was set is read back, for every date there is.
THEOREM RtcDateReadBack == FairSpec => []DateReadBack
  <1>1. IInv => DateReadBack
    BY DEF IInv, RtcOK
  <1> QED  BY <1>1, Invariant, PTL

\* KeptForUsers: a thread that starts or stops a device others use changes nothing
\* its driver keeps, although startup_device and stop_device take no lock.
THEOREM DriverKeptForUsers == FairSpec => KeptForUsers
  <1> DEFINE kept == <<pointer, queue, fileVars, port, opt, timeout,
                       saddr, raddr, echo_flag, filename, bound, filter,
                       backlightVars>>
             A == orderly /\ using # {} /\ using' # {} /\ mutex = mutex'
                    => UNCHANGED kept
  <1>1. IInv /\ [Next]_vars => [A]_vars
    <2> SUFFICES ASSUME IInv, [Next]_vars, orderly, using # {}, using' # {}, mutex = mutex'
                 PROVE  UNCHANGED kept
      OBVIOUS
    <2>0. UNCHANGED drivers => UNCHANGED kept
      BY DEF drivers, memoryVars, fileVars, serialVars, udpVars
    <2>1. ASSUME NEW t \in Threads, Startup(t)  PROVE UNCHANGED drivers
      BY <2>1, UsedIsCounted DEF Startup, Joins
    <2>2. ASSUME NEW t \in Threads, Stop(t)  PROVE UNCHANGED drivers
      <3>1. Calls /\ ref = Cardinality(using)
        BY UsedIsCounted DEF IInv
      <3>2. Calls' /\ orderly' /\ using' = using \ {t} /\ t \in using
        BY <2>2, StepUse, Same DEF IInv, Stop
      <3>3. Cardinality(using') = Cardinality(using) - 1
        BY <3>1, <3>2, Counting
      <3>4. IInv'  BY StepIInv
      <3>5. Cardinality(using') # 0
        <4>1. IsFiniteSet(using')  BY <3>2 DEF Calls
        <4> QED  BY <4>1, FS_EmptySet
      <3>6. Cardinality(using) \in Nat  BY <3>1, Counting
      <3>7. ~LastUser  BY <3>1, <3>3, <3>5, <3>6 DEF LastUser
      <3> QED  BY <2>2, <3>7 DEF Stop
    <2>3. ASSUME NEW t \in Threads, Return(t)  PROVE FALSE
      BY <2>3, UseAssumption DEF Return, UseAssumption
    <2>4. ASSUME NEW t \in Threads, NEW op \in Ops, Enter(t, op)
          PROVE  UNCHANGED drivers
      BY <2>4 DEF Enter
    <2>5. CASE Arrives
      <3>1. CASE Driver("serial", Serial!Arrives)
        BY <3>1 DEF Driver, Serial!Arrives, memoryVars, fileVars, udpVars
      <3>2. ASSUME NEW a \in Addrs, Driver("udp", Udp!Arrives(a))
            PROVE  UNCHANGED kept
        BY <3>2 DEF Driver, Udp!Arrives, Udp!link, memoryVars, fileVars, serialVars
      <3>3. CASE Driver("rtc", Rtc!Ticks) \/ Driver("pin", Pin!Arrives)
        BY <3>3 DEF Driver, memoryVars, fileVars, serialVars, udpVars
      <3> QED  BY <2>5, <3>1, <3>2, <3>3 DEF Arrives
    <2>6. CASE UNCHANGED vars
      BY <2>0, <2>6 DEF vars
    <2> QED  BY <2>0, <2>1, <2>2, <2>3, <2>4, <2>5, <2>6 DEF Next
  <1>2. FairSpec => [][A]_vars
    BY <1>1, Invariant, PTL DEF FairSpec
  <1> QED  BY <1>2 DEF KeptForUsers

\* WritesAppend: a program that reads all of a file before it writes to it loses
\* nothing of what is in there, wherever reads and restarts put the position.
THEOREM FileWritesAppend == FairSpec => WritesAppend
  <1> DEFINE A == class = "file" /\ orderly /\ settled => IsPrefix(content, content')
  <1>1. IInv /\ [Next]_vars => [A]_vars
    <2> SUFFICES ASSUME IInv, [Next]_vars, orderly, settled
                 PROVE  IsPrefix(content, content')
      OBVIOUS
    <2>1. FileOK /\ content \in Seq(Byte) /\ pos = Len(content)
      BY DEF IInv, FileOK
    <2>2. IsPrefix(content, content)
      <3>1. Len(content) \in Nat  BY <2>1, LenProperties
      <3> QED  BY <3>1 DEF IsPrefix
    <2>3. content' = content \/ \E data \in Blocks : File!Write(data)
      BY FileSteps DEF fileVars, File!Open, File!Read
    <2>4. ASSUME NEW data \in Blocks, File!Write(data)
          PROVE  IsPrefix(content, content')
      <3>1. PICK n \in 0 .. Len(data) : content' = File!Over(SubSeq(data, 1, n))
        BY <2>4 DEF File!Write
      <3>2. SubSeq(data, 1, n) \in Seq(Byte)  BY BlockType, FirstOf
      <3> QED  BY <2>1, <3>1, <3>2, Overwritten
    <2> QED  BY <2>2, <2>3, <2>4
  <1>2. FairSpec => [][A]_vars
    BY <1>1, Invariant, PTL DEF FairSpec
  <1> QED  BY <1>2 DEF WritesAppend
=============================================================================
