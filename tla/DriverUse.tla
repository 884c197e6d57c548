----------------------------- MODULE DriverUse ------------------------------
(***************************************************************************)
(* One device of any class but the TCP, the analog and the mobile          *)
(* equipment one, used by several threads through src/src/ldal.c:          *)
(* startup_device and stop_device, which the program does not overlap, and *)
(* the wrappers, which run a callback under device->mutex.  A thread calls *)
(* back what it has started, and only what the class has a callback for:   *)
(* the wrappers do not look.                                               *)
(*                                                                         *)
(* Opens fail here for want of memory and of a terminal; descriptors are   *)
(* the subject of DeviceLifecycle.                                         *)
(***************************************************************************)
EXTENDS Integers, Sequences, SequencesExt

CONSTANTS
  Threads, NoThread,
  Classes,                       \* of AllClasses; "pin": gpio, digital and misc
  MaxHeld,                       \* bound: ports are counted up to it
  Capacity, Byte, MaxLength,     \* see BoundedFifo
  FileMax,                       \* see FileDriver
  DataBits, Timeouts, MaxInput,  \* see SerialDriver
  Addrs, NoAddr, MaxInbox,       \* see UdpDriver
  Maxima, NoLevel,               \* see BacklightDriver
  Dates, NoDate,                 \* see RtcDriver
  MaxPulses                      \* see PinDriver

AllClasses == {"memory", "file", "serial", "udp", "backlight", "rtc", "pin"}

ASSUME UseAssumption ==
  /\ NoThread \notin Threads /\ NoAddr \notin Addrs
  /\ Classes \subseteq AllClasses
  /\ MaxPulses \in Nat
  /\ Dates \subseteq [mon : Int, year : Int] /\ NoDate \notin [mon : Int, year : Int]
  /\ {Capacity, MaxLength, MaxInput, MaxInbox} \subseteq Nat
  /\ {MaxHeld, FileMax} \subseteq Nat \ {0}
  /\ DataBits \subseteq Nat /\ Timeouts \subseteq Nat
  /\ Maxima \subseteq Nat \ {0, 1} /\ NoLevel \notin 0 .. 100

VARIABLES
  class,        \* of the device
  orderly,      \* memory: there is always some; file: reads ask for all of it;
                \* serial: stdin is a terminal; udp: nobody asks for the echo;
                \* backlight, rtc, pin: always
  ref, mutex,   \* device->ref, device->mutex
  using,        \* the threads that have started and not stopped the device
  call,         \* the callback each thread is in, or "none"
  held,         \* how many buffers, ports or sockets opens got, closes gave back
  pointer, queue, ret,
  content, pos, settled,
  port, opt, timeout, input, configured,
  saddr, raddr, echo_flag, filename, bound, filter, inbox,
  max, min, brightness, asked,
  clock, due,
  level, pulses

Memory == INSTANCE MemoryDriver
File == INSTANCE FileDriver
Serial == INSTANCE SerialDriver
Udp == INSTANCE UdpDriver
Backlight == INSTANCE BacklightDriver
Rtc == INSTANCE RtcDriver
Pin == INSTANCE PinDriver

memoryVars == <<pointer, queue, ret>>
fileVars == <<content, pos, settled>>
serialVars == <<port, opt, timeout, input, configured>>
udpVars == <<saddr, raddr, echo_flag, filename, bound, filter, inbox>>
backlightVars == <<max, min, brightness, asked>>
rtcVars == <<clock, due>>
pinVars == <<level, pulses>>
drivers == <<memoryVars, fileVars, serialVars, udpVars, backlightVars, rtcVars, pinVars>>
vars == <<class, orderly, ref, mutex, using, call, held, drivers>>

\* A step A of the driver of class c.
Driver(c, A) ==
  /\ class = c /\ A
  /\ c # "memory" => UNCHANGED memoryVars
  /\ c # "file" => UNCHANGED fileVars
  /\ c # "serial" => UNCHANGED serialVars
  /\ c # "udp" => UNCHANGED udpVars
  /\ c # "backlight" => UNCHANGED backlightVars
  /\ c # "rtc" => UNCHANGED rtcVars
  /\ c # "pin" => UNCHANGED pinVars

Init ==
  /\ class \in Classes /\ orderly \in BOOLEAN
  /\ class \in {"backlight", "rtc", "pin"} => orderly
  /\ ref = 0 /\ mutex = NoThread /\ using = {}
  /\ call = [t \in Threads |-> "none"] /\ held = 0
  /\ Memory!Init /\ File!Init /\ Serial!Init /\ Udp!Init
  /\ (class # "file" => content = <<>>) /\ (class # "udp" => filename = NoAddr)
  /\ Backlight!Init /\ (class # "backlight" => max = 255 /\ min = 20 /\ brightness = 0)
  /\ Rtc!Init /\ Pin!Init

-----------------------------------------------------------------------------
(* startup_device and stop_device                                           *)

OneMore == held' = IF held < MaxHeld THEN held + 1 ELSE held

Opens ==
  /\ OneMore /\ ref' = 1
  /\ \/ Driver("memory", Memory!Open)
     \/ Driver("file", File!Open)
     \/ Driver("serial", orderly /\ Serial!Open)
     \/ Driver("udp", Udp!Open)
     \/ Driver("backlight", Backlight!Quiet)
     \/ Driver("rtc", Rtc!Quiet)
     \/ Driver("pin", Pin!Open)

\* startup_device returns LDAL_EOK all the same.
OpenFails ==
  /\ ~orderly /\ UNCHANGED ref
  /\ \/ Driver("memory", Memory!OpenFails) /\ UNCHANGED held
     \/ Driver("serial", Serial!OpenFails) /\ OneMore

Closes ==
  /\ held' = held - 1
  /\ \/ Driver("memory", Memory!Close)
     \/ Driver("file", File!Close)
     \/ Driver("serial", Serial!Close)
     \/ Driver("udp", Udp!Close)
     \/ Driver("backlight", Backlight!Quiet)
     \/ Driver("rtc", Rtc!Quiet)
     \/ Driver("pin", Pin!Close)

\* Seeded fault: every startup configures the port.
Reconfigures ==
  /\ UNCHANGED held
  /\ IF class = "serial" THEN Driver("serial", Serial!Open) ELSE UNCHANGED drivers

\* The driver is not called for a further user.
Joins == UNCHANGED <<held, drivers>>

Startup(t) ==
  /\ t \notin using
  /\ using' = using \cup {t}
  /\ IF ref > 0 THEN ref' = ref + 1 /\ Joins
                ELSE Opens \/ OpenFails
  /\ UNCHANGED <<class, orderly, mutex, call>>

\* Seeded fault: close runs when one user is left.
LastButOne == ref \in {1, 2}

LastUser == ref = 1

\* Seeded fault: the count stays.
StillCounted == ref

Fewer == IF ref > 0 THEN ref - 1 ELSE 0

Stop(t) ==
  /\ t \in using /\ call[t] = "none"
  /\ using' = using \ {t}
  /\ ref' = Fewer
  /\ IF LastUser THEN Closes ELSE UNCHANGED <<held, drivers>>
  /\ UNCHANGED <<class, orderly, mutex, call>>

-----------------------------------------------------------------------------
(* The wrappers: lock, callback, unlock.  A thread that waits for the mutex *)
(* is not told from one that has not called yet.                            *)

Enter(t, op) ==
  /\ t \in using /\ call[t] = "none" /\ mutex = NoThread
  /\ op = "connect" => class = "udp"
  /\ op = "control" => class \notin {"file", "backlight", "rtc"}
  /\ mutex' = t /\ call' = [call EXCEPT ![t] = op]
  /\ UNCHANGED <<class, orderly, ref, using, held, drivers>>

Blocks == Memory!Ring!Blocks \ {<<>>}

ReadLengths == IF class = "file" /\ orderly THEN {FileMax} ELSE 1 .. MaxLength

ReadBack ==
  \/ \E n \in ReadLengths :
       Driver("memory", Memory!Read(n)) \/ Driver("file", File!Read(n))
  \/ Driver("serial", Serial!Read)
  \/ Driver("udp", Udp!Read)
  \/ Driver("backlight", Backlight!Quiet)
  \/ Driver("rtc", Rtc!Quiet)
  \/ Driver("pin", Pin!Read)

WriteBack ==
  \/ \E data \in Blocks :
       Driver("memory", Memory!Write(data)) \/ Driver("file", File!Write(data))
  \/ Driver("serial", Serial!Quiet)
  \/ Driver("udp", Udp!Write)
  \/ Driver("backlight", Backlight!Quiet)
  \/ \E l \in Backlight!Levels : Driver("backlight", Backlight!Write(l))
  \/ \E d \in Dates : Driver("rtc", Rtc!Write(d))
  \/ \E l \in {0, 1} : Driver("pin", Pin!Write(l))

SerialControl ==
  \/ \E o \in Serial!Options : o.bits \in DataBits /\ Serial!SetOptions(o)
  \/ \E n \in Timeouts : Serial!SetTimeout(n)
  \/ Serial!SetOptionsFails \/ Serial!Quiet

UdpControl ==
  \/ \E b \in BOOLEAN : (orderly => ~b) /\ Udp!SetEcho(b)
  \/ Udp!Quiet

ControlBack ==
  \/ Driver("memory", Memory!Control)
  \/ Driver("serial", SerialControl)
  \/ Driver("udp", UdpControl)
  \/ Driver("pin", Pin!DigitalControl \/ Pin!MiscControl)

\* bind_local_addr and connect_server_addr
ConnectBack ==
  Driver("udp", Udp!Bind \/ Udp!Quiet \/ \E a \in Addrs : Udp!Connect(a))

Callback(op) ==
  \/ op = "read" /\ ReadBack
  \/ op = "write" /\ WriteBack
  \/ op = "control" /\ ControlBack
  \/ op = "connect" /\ ConnectBack

Return(t) ==
  /\ mutex = t /\ Callback(call[t])
  /\ mutex' = NoThread /\ call' = [call EXCEPT ![t] = "none"]
  /\ UNCHANGED <<class, orderly, ref, using, held>>

\* Input of the port, datagrams of the peers; the clock and the line go on
\* whether the device is open or not.
Arrives ==
  /\ \/ held > 0 /\ Driver("serial", Serial!Arrives)
     \/ \E a \in Addrs : held > 0 /\ Driver("udp", Udp!Arrives(a))
     \/ Driver("rtc", Rtc!Ticks)
     \/ Driver("pin", Pin!Arrives)
  /\ UNCHANGED <<class, orderly, ref, mutex, using, call, held>>

Ops == {"read", "write", "control", "connect"}

Next ==
  \/ \E t \in Threads :
       \/ Startup(t) \/ Stop(t) \/ Return(t)
       \/ \E op \in Ops : Enter(t, op)
  \/ Arrives

\* A callback that can go on does.
FairSpec == Init /\ [][Next]_vars /\ \A t \in Threads : WF_vars(Return(t))

-----------------------------------------------------------------------------
(* Properties                                                               *)

\* Every variable has its type.
TypeOK ==
  /\ class \in Classes /\ orderly \in BOOLEAN
  /\ ref \in 0 .. Cardinality(using) /\ held \in 0 .. MaxHeld
  /\ mutex \in Threads \cup {NoThread} /\ using \subseteq Threads
  /\ call \in [Threads -> Ops \cup {"none"}]
  /\ pointer \in {"null", "live", "freed"} /\ queue \in Seq(Byte) /\ Len(queue) <= Capacity
  /\ content \in Seq(Byte) /\ pos \in 0 .. FileMax /\ Len(content) <= FileMax
  /\ opt \in Serial!Options /\ Serial!Reported \in Serial!Options
  /\ timeout \in Timeouts \cup {0} /\ input \in 0 .. MaxInput
  /\ {saddr, raddr, filename, filter} \subseteq Addrs \cup {NoAddr}
  /\ inbox \in Seq(Addrs) /\ Len(inbox) <= MaxInbox
  /\ brightness \in 0 .. max /\ asked \in Backlight!Levels \cup {NoLevel}
  /\ Rtc!Valid(clock) /\ level \in {0, 1} /\ pulses \in 0 .. MaxPulses

\* A buffer, port or socket is held exactly while ref is positive, opens that
\* fail included, but for the ports serial_open forgets when it fails.  So, as
\* long as memory is to be had, no callback gets a null or a freed buffer,
\* although close leaves the pointer and startup and stop take no lock.
HeldWhileInUse ==
  /\ (class = "serial" => orderly) => held = IF ref > 0 THEN 1 ELSE 0
  /\ class = "memory" /\ orderly /\ mutex # NoThread => pointer = "live"

\* While somebody uses a device only a callback changes what its driver keeps:
\* others may start and stop it.
KeptForUsers ==
  [][orderly /\ using # {} /\ using' # {} /\ mutex = mutex' =>
       UNCHANGED <<pointer, queue, fileVars, port, opt, timeout,
                   saddr, raddr, echo_flag, filename, bound, filter,
                   backlightVars>>]_vars

\* Reading a file moves the position writes go to.  Once a program has read
\* all of it, or found it empty, and always reads all, its writes append.
WritesAppend ==
  [][class = "file" /\ orderly /\ settled => IsPrefix(content, content')]_vars

\* The port is as it was configured last since it was opened, whatever flags
\* earlier options left, for lengths and stop bits termios has.
PortAsRecorded ==
  configured /\ opt.bits \in 5 .. 8 /\ opt.stop # "1.5" => Serial!Reported = opt

\* Without the echo a device in use writes to the peer its name says, and if
\* it is connected to that one, over any number of restarts and connects.
WritesToPeer ==
  class = "udp" /\ orderly /\ ref > 0 =>
    (filename # NoAddr => saddr = filename) /\ filter \in {saddr, NoAddr}

\* A panel that has been given a level is never darker than min, and reads
\* back that level or less: one less than the panel's steps can tell.
LevelReadBack ==
  asked # NoLevel =>
    /\ brightness \in min .. max
    /\ \A r \in Backlight!Readings :
         r <= asked /\ asked - r <= 100 \div (max - min) + 1

\* A clock that was set shows that date and what time has made of it: nothing is
\* lost between the two ways to count months and years, and no date that is none
\* gets through (ldal_rtc.c:49-50, 78-82).
DateReadBack == due # NoDate => Rtc!Reading = due

WaitsForInput(t) ==
  call[t] = "read" /\ (class = "udp" \/ (class = "serial" /\ timeout = 0))

\* A thread gives device->mutex back, but for one that waits for input: a
\* serial read with a timeout keeps nobody else out for good.
MutexGivenBack ==
  \A t \in Threads : (mutex = t /\ ~WaitsForInput(t)) ~> (mutex # t)
=============================================================================
