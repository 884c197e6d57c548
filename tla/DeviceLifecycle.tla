-------------------------- MODULE DeviceLifecycle --------------------------
(***************************************************************************)
(* startup_device, stop_device and the callback wrappers (read_device,     *)
(* write_device, control_device, check_status, bind_local_addr,            *)
(* connect_server_addr) of src/src/ldal.c over the drivers whose state is  *)
(* one descriptor, device->fd: file, gpio, digital, analog, rtc, misc.     *)
(*                                                                         *)
(* The build sets no -O flag (Makefile:4, src/CMakeLists.txt:9), so every  *)
(* read and every write of device->ref is a memory access of its own: one  *)
(* action each.  startup_device and stop_device take no lock; Serialised   *)
(* says whether the application keeps them apart itself.                   *)
(***************************************************************************)
EXTENDS Naturals, FiniteSets

CONSTANTS
  Threads,     \* application threads; each holds a device at most once
  Devices,     \* device objects, zeroed by calloc before they are registered
  Registered,  \* the devices whose is_init ldal_device_register left true
  Fds,         \* the descriptor numbers the process may use
  RefMax,      \* the largest uint16_t (65535 in the code)
  Serialised,  \* TRUE: the application never overlaps two startup/stop calls
  Free, App,   \* owners of a descriptor: nobody, the rest of the program
  NoThread,    \* the holder of a free mutex
  NoFd         \* -1, what a failed open() leaves in device->fd

ASSUME LifecycleAssumption ==
  /\ IsFiniteSet(Threads)
  /\ RefMax \in Nat
  /\ Cardinality(Threads) <= RefMax
  /\ Registered \subseteq Devices
  /\ Serialised \in BOOLEAN
  /\ Fds \subseteq Nat /\ 0 \in Fds
  /\ Free \notin Devices /\ App \notin Devices /\ Free # App
  /\ NoThread \notin Threads
  /\ NoFd \notin Fds

VARIABLES
  ref,      \* device->ref
  fd,       \* device->fd
  mutex,    \* device->mutex: its holder
  owner,    \* the kernel's descriptor table: on whose behalf each is open
  pc, arg,  \* where each thread is, and the device its call is about
  tmp,      \* the value of ref a thread has loaded and not yet stored
  using,    \* ghost: the devices a thread started with LDAL_EOK, not yet stopped
  suspect   \* ghost: devices started by a failed open or stopped by a non-user

vars == <<ref, fd, mutex, owner, pc, arg, tmp, using, suspect>>

Labels == {"idle", "st_check", "st_open", "st_load", "st_store",
           "sp_check", "sp_load", "sp_store", "sp_test", "sp_close",
           "io_lock", "io"}

\* The labels inside startup_device and stop_device.
InLifecycle(t) == pc[t] \notin {"idle", "io_lock", "io"}

Goto(t, l) == pc' = [pc EXCEPT ![t] = l]

\* Seeded fault of Inc: not counted.
NeverCounts(n) == n

\* uint16_t arithmetic of device->ref.
Inc(n) == IF n = RefMax THEN 0 ELSE n + 1
Dec(n) == IF n = 0 THEN RefMax ELSE n - 1

Init ==
  /\ ref = [d \in Devices |-> 0]
  /\ fd = [d \in Devices |-> 0]
  /\ mutex = [d \in Devices |-> NoThread]
  /\ owner = [f \in Fds |-> IF f = 0 THEN App ELSE Free]
  /\ pc = [t \in Threads |-> "idle"]
  /\ arg \in [Threads -> Devices]
  /\ tmp = [t \in Threads |-> 0]
  /\ using = [t \in Threads |-> {}]
  /\ suspect = {}

-----------------------------------------------------------------------------
(* open() and close() of the kernel, as the drivers' callbacks use them.    *)

LowestFree(f) ==
  owner[f] = Free /\ \A g \in Fds : owner[g] = Free => f <= g

\* device->fd = open(device->filename, ...) succeeds or returns -1.
DriverOpens(d) ==
  \E f \in Fds :
    /\ LowestFree(f)
    /\ owner' = [owner EXCEPT ![f] = d]
    /\ fd' = [fd EXCEPT ![d] = f]

DriverOpenFails(d) ==
  fd' = [fd EXCEPT ![d] = NoFd] /\ UNCHANGED owner

\* close(device->fd): whatever descriptor that number names now.
DriverCloses(d) ==
  owner' = IF fd[d] \in Fds THEN [owner EXCEPT ![fd[d]] = Free] ELSE owner

-----------------------------------------------------------------------------
(* startup_device                                                           *)

MayEnter == Serialised => \A t \in Threads : ~InLifecycle(t)

StartupCall(t) ==
  /\ pc[t] = "idle" /\ MayEnter
  /\ \E d \in Devices \ using[t] :
       /\ arg' = [arg EXCEPT ![t] = d]
       /\ Goto(t, IF d \in Registered THEN "st_check" ELSE "idle")
  /\ UNCHANGED <<ref, fd, mutex, owner, tmp, using, suspect>>

StartupCheck(t) ==
  /\ pc[t] = "st_check"
  /\ Goto(t, IF ref[arg[t]] > 0 THEN "st_load" ELSE "st_open")
  /\ UNCHANGED <<ref, fd, mutex, owner, arg, tmp, using, suspect>>

StartupOpen(t) ==
  /\ pc[t] = "st_open"
  /\ DriverOpens(arg[t])
  /\ Goto(t, "st_load")
  /\ UNCHANGED <<ref, mutex, arg, tmp, using, suspect>>

\* Seeded fault: ref is incremented whatever open returned.
CountsFailedOpen(t) ==
  /\ pc[t] = "st_open" /\ DriverOpenFails(arg[t]) /\ Goto(t, "st_load")
  /\ UNCHANGED <<ref, mutex, arg, tmp, using, suspect>>

\* The error of open is dropped: line 53 returns LDAL_EOK all the same.
StartupOpenFails(t) ==
  /\ pc[t] = "st_open"
  /\ DriverOpenFails(arg[t])
  /\ Goto(t, "idle")
  /\ using' = [using EXCEPT ![t] = @ \cup {arg[t]}]
  /\ suspect' = suspect \cup {arg[t]}
  /\ UNCHANGED <<ref, mutex, arg, tmp>>

StartupLoad(t) ==
  /\ pc[t] = "st_load"
  /\ tmp' = [tmp EXCEPT ![t] = ref[arg[t]]]
  /\ Goto(t, "st_store")
  /\ UNCHANGED <<ref, fd, mutex, owner, arg, using, suspect>>

StartupStore(t) ==
  /\ pc[t] = "st_store"
  /\ ref' = [ref EXCEPT ![arg[t]] = Inc(tmp[t])]
  /\ using' = [using EXCEPT ![t] = @ \cup {arg[t]}]
  /\ Goto(t, "idle")
  /\ UNCHANGED <<fd, mutex, owner, arg, tmp, suspect>>

-----------------------------------------------------------------------------
(* stop_device                                                              *)

\* Any thread may stop any device: tests/test_tcp.c stops it three times.
StopCall(t) ==
  /\ pc[t] = "idle" /\ MayEnter
  /\ \E d \in Devices :
       /\ arg' = [arg EXCEPT ![t] = d]
       /\ Goto(t, IF d \in Registered THEN "sp_check" ELSE "idle")
  /\ UNCHANGED <<ref, fd, mutex, owner, tmp, using, suspect>>

\* With ref = 0 the call returns LDAL_EOK and touches nothing.
StopCheck(t) ==
  /\ pc[t] = "sp_check"
  /\ IF ref[arg[t]] > 0
       THEN Goto(t, "sp_load") /\ UNCHANGED using
       ELSE Goto(t, "idle") /\ using' = [using EXCEPT ![t] = @ \ {arg[t]}]
  /\ UNCHANGED <<ref, fd, mutex, owner, arg, tmp, suspect>>

StopLoad(t) ==
  /\ pc[t] = "sp_load"
  /\ tmp' = [tmp EXCEPT ![t] = ref[arg[t]]]
  /\ Goto(t, "sp_store")
  /\ UNCHANGED <<ref, fd, mutex, owner, arg, using, suspect>>

StopStore(t) ==
  /\ pc[t] = "sp_store"
  /\ ref' = [ref EXCEPT ![arg[t]] = Dec(tmp[t])]
  /\ suspect' = IF arg[t] \in using[t] THEN suspect ELSE suspect \cup {arg[t]}
  /\ using' = [using EXCEPT ![t] = @ \ {arg[t]}]
  /\ Goto(t, "sp_test")
  /\ UNCHANGED <<fd, mutex, owner, arg, tmp>>

\* Seeded fault: closes one user too early.
ClosesEarly(n) == n <= 1

LastUser(n) == n = 0

StopTest(t) ==
  /\ pc[t] = "sp_test"
  /\ Goto(t, IF LastUser(ref[arg[t]]) THEN "sp_close" ELSE "idle")
  /\ UNCHANGED <<ref, fd, mutex, owner, arg, tmp, using, suspect>>

StopClose(t) ==
  /\ pc[t] = "sp_close"
  /\ DriverCloses(arg[t])
  /\ Goto(t, "idle")
  /\ UNCHANGED <<ref, fd, mutex, arg, tmp, using, suspect>>

-----------------------------------------------------------------------------
(* read_device, write_device, control_device, check_status, bind_local_addr *)
(* and connect_server_addr: one callback under device->mutex.  They test    *)
(* neither is_init nor ref; the threads here call them on devices they      *)
(* started.                                                                 *)

IoCall(t) ==
  /\ pc[t] = "idle"
  /\ \E d \in using[t] : arg' = [arg EXCEPT ![t] = d]
  /\ Goto(t, "io_lock")
  /\ UNCHANGED <<ref, fd, mutex, owner, tmp, using, suspect>>

\* Seeded fault: the callback runs without the lock.
NoLock(d) == TRUE

MutexFree(d) == mutex[d] = NoThread

IoLock(t) ==
  /\ pc[t] = "io_lock" /\ MutexFree(arg[t])
  /\ mutex' = [mutex EXCEPT ![arg[t]] = t]
  /\ Goto(t, "io")
  /\ UNCHANGED <<ref, fd, owner, arg, tmp, using, suspect>>

IoReturn(t) ==
  /\ pc[t] = "io"
  /\ mutex' = [mutex EXCEPT ![arg[t]] = NoThread]
  /\ Goto(t, "idle")
  /\ UNCHANGED <<ref, fd, owner, arg, tmp, using, suspect>>

-----------------------------------------------------------------------------
(* The rest of the program opens and closes descriptors of its own.         *)

AppOpen ==
  /\ \E f \in Fds : LowestFree(f) /\ owner' = [owner EXCEPT ![f] = App]
  /\ UNCHANGED <<ref, fd, mutex, pc, arg, tmp, using, suspect>>

AppClose ==
  /\ \E f \in Fds \ {0} : owner[f] = App /\ owner' = [owner EXCEPT ![f] = Free]
  /\ UNCHANGED <<ref, fd, mutex, pc, arg, tmp, using, suspect>>

Next ==
  \/ \E t \in Threads :
       \/ StartupCall(t) \/ StartupCheck(t) \/ StartupOpen(t)
       \/ StartupOpenFails(t) \/ StartupLoad(t) \/ StartupStore(t)
       \/ StopCall(t) \/ StopCheck(t) \/ StopLoad(t) \/ StopStore(t)
       \/ StopTest(t) \/ StopClose(t)
       \/ IoCall(t) \/ IoLock(t) \/ IoReturn(t)
  \/ AppOpen
  \/ AppClose

Spec == Init /\ [][Next]_vars

-----------------------------------------------------------------------------
(* Properties                                                               *)

\* Every variable has its type; owner maps each descriptor to one owner.
TypeOK ==
  /\ ref \in [Devices -> 0 .. RefMax]
  /\ fd \in [Devices -> Fds \cup {NoFd}]
  /\ mutex \in [Devices -> Threads \cup {NoThread}]
  /\ owner \in [Fds -> Devices \cup {Free, App}]
  /\ pc \in [Threads -> Labels]
  /\ arg \in [Threads -> Devices]
  /\ tmp \in [Threads -> 0 .. RefMax]
  /\ using \in [Threads -> SUBSET Devices]
  /\ suspect \in SUBSET Devices

OwnFds(d) == {f \in Fds : owner[f] = d}
Users(d) == {t \in Threads : d \in using[t]}
Settled(d) == \A t \in Threads : InLifecycle(t) => arg[t] # d

\* Between startup/stop calls on a device its count is positive exactly when
\* it holds a descriptor, and then it holds one, the one in device->fd: no
\* descriptor is leaked by a second open, none is lost by an early close.
FdAccounting ==
  \A d \in Devices :
    Settled(d) => OwnFds(d) = IF ref[d] > 0 THEN {fd[d]} ELSE {}

\* ldal.h:117 calls ref "the count of owned by threads": unless an open failed
\* or a thread stopped what it had not started, it is the number of users.
RefCountsUsers ==
  \A d \in Devices \ suspect : ref[d] = Cardinality(Users(d))

\* While a callback runs, device->fd names an open descriptor of that device:
\* no stop_device of another thread closes it under the callback.
CallbackOnOwnFd ==
  \A t \in Threads :
    pc[t] = "io" /\ arg[t] \notin suspect => fd[arg[t]] \in OwnFds(arg[t])

\* Two callbacks of one device never overlap (ldal.c:77-125, device->mutex).
CallbacksExclusive ==
  \A s, t \in Threads : pc[s] = "io" /\ pc[t] = "io" /\ s # t => arg[s] # arg[t]

\* stop_device never closes a descriptor that belongs to the rest of the
\* program, to another device, or to nobody (a second close of the number).
ClosesOnlyItsOwn ==
  [][\A t \in Threads :
       StopClose(t) => fd[arg[t]] \in OwnFds(arg[t])]_vars
=============================================================================
