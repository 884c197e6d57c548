# A verification development of ldal

ldal is a C library that gives the programs of an embedded Linux board one
interface to its devices: a program registers device objects by name and class,
starts and stops them, and reads, writes and controls them from several
threads. This directory models it in TLA+, checks the models with TLC and
proves part of what they promise with TLAPS.

    tlc -workers 2 -config <run>.cfg <module>      # PROJECT.json lists the runs
    tlapm DeviceLifecycleProofs.tla

Paths below are relative to the repository; `ldal.c` is `src/ldal.c`, a class
`x` is `src/class/ldal_x.c`.

## Inventory

| part | state | operations | what is hard | what makes it correct |
| --- | --- | --- | --- | --- |
| lifecycle (`ldal.c:36-126`) | `device->ref`, `fd`, `is_init`, `mutex` | `startup_device`, `stop_device`, six wrappers that run one driver callback under `device->mutex` | start and stop take no lock; an open may fail; descriptor numbers are reused | `ref` counts the users, a device holds one descriptor while it is positive, a callback never runs on a foreign one |
| registry (`ldal.c:143-396`, `inc/list.h`) | the device list, `g_device_num`, `rwlock_dev` | register, unregister, lookups by name and type, `list_device` of the RPC server | some traversals take no lock; the duplicate check and the insertion are two critical sections; `init` runs after publication | the list stays a ring, traversals stay on it, a lookup sees all of it, names are unique |
| class registry (`ldal.c:199-307`) | the class list, `rwlock_cls` | class register, get, set | classes register themselves from constructors and on demand | a device gets the operations of its class |
| creation from a table (`ldal.c:398-579`) | | create | the result of each registration is dropped | what was created is found by its name |
| ring buffer (`src/ringbuffer.c`) | two indices, each with a mirror bit; a pool | put, get, peak, char forms, forced forms, reset | full and empty have equal indices; wraps that end exactly at the end | it is a bounded queue |
| memory class | a ring buffer in `user_data` | open allocates, close frees, read, write | the pointer outlives the buffer; lengths are cut to 16 bits | no use after close |
| TCP class | `link->status`, `device->fd`, socket options | init, open, close, connect (close, sleep, socket, connect), read, control | reconnects, hangups, reused numbers, options that belong to a socket that is gone | a link's status is that of its own socket |
| UDP class | socket, last peer address | init, close, sendto, recvfrom, options | the peer address is shared | replies go to the peer that wrote |
| serial class | descriptor, `timeout`, `opt` | open, close, read with `select`, write, control | a read may wait for ever under `device->mutex`; two exits of open leak | others get through; every open is closed |
| ME class and AT client (`src/at.c`) | `client->lock`, `resp`, `resp_notice` | `at_obj_exec_cmd`, the parser thread, `me_write` | timeouts against late answers, two locks for one port, shared `send_buf` | an answer belongs to the command it answers |
| analog class | `aicfgs`, `mode`, `ai_conf`; a file; the MCU | init, calibrate, restore, configure, read | three copies of the calibration, a crash between updating them | no finished calibration is lost |
| file, gpio, digital, rtc, misc | descriptor | open, close, one system call each | the file position | as the lifecycle |
| backlight | `max`, `min` | read, write through sysfs | integer scaling | what is written is read back |
| network settings (`src/netdev.c`) | kernel and resolver files | get and set | several steps, each may fail | as configured |
| JSON-RPC (`src/jsonrpc-c.c`, `src/server.c`) | connection buffers, procedure table | accept, read, parse, invoke, register | requests split or joined by TCP, growing buffers | every request is answered once |
| `cJSON`, `ev.h` | | | third-party | |

Everything meets in `struct ldal_device`: the registry holds the objects, the
wrappers call the class's operations on them, the drivers keep their state in
`fd` and `user_data`. The RPC server runs in a thread of its own and walks the
registry's list.

## Modules

| module | what it is |
| --- | --- |
| `DeviceLifecycle` | start, stop and the wrappers, for the drivers whose state is one descriptor |
| `DeviceLifecycleProofs` | its theorems |
| `Registry` | the device list, pointer by pointer, under the lock; creation from tables |
| `RegistryProofs` | its theorems |
| `BoundedFifo` | the abstract queue |
| `RingBuffer` | the mirrored indices; refines `BoundedFifo` |
| `RingBufferProofs` | its theorems: the mirrors; the refinement |
| `TcpLink`, `TcpLinkProofs` | status, socket, address and settings of TCP links; the theorems |
| `AnalogCalibration`, `AnalogCalibrationProofs` | the three copies of the calibration of an analog input; the theorems |
| `AtClient`, `AtClientProofs` | AT commands and short messages over a modem's port; the theorems |
| `MemoryDriver`, `FileDriver`, `SerialDriver`, `UdpDriver`, `BacklightDriver`, `RtcDriver`, `PinDriver` | the callbacks of these classes (the last: gpio, digital and misc), each over the state it keeps |
| `DriverUse`, `DriverUseProofs` | threads that use one device of these classes through the wrappers; the theorems |
| `RpcService` | what clients and host of the RPC server may rely on: the abstract specification |
| `JsonText` | the parser, on a text of which only a part may have arrived |
| `RpcServer`, `RpcServerProofs` | table of procedures, event loop and connections; refines `RpcService`; the theorems |
| `MC...` | constants of the TLC instances |

A definition preceded by "Seeded fault" is not part of a specification: it is
what the definition after it could have been by mistake, and serves to see that
a property notices.

### DeviceLifecycle

A thread is at a label (`pc`) of the call it makes on the device `arg`. The
build uses no optimisation, so each read and write of `ref` is a step: the test
of line 44 or 64, the load and the store of `+= 1` or `-= 1`, the second test
of line 67. `open` and `close` act on the process's descriptor table, `owner`:
`open` takes the lowest free number, `close` frees whatever the number names,
and the rest of the program opens and closes descriptors too. `fd` and `ref`
start as calloc leaves them, 0, and descriptor 0 belongs to the program.
A call on a device that is not registered returns at once.

`Serialised` is the assumption on the program that no two start/stop calls
overlap. With it TRUE (`lifecycle_serial`) everything holds, although opens
fail and threads stop what they did not start. With it FALSE (`lifecycle_race`)
an increment is lost. `using` and `suspect` are ghosts: who has a device
started, and which devices an open failed on or a non-user stopped; for those
`ref` cannot count the users, and the two properties that need it except them.

### Registry

`next` and `prev` are the list pointers; `__list_add` is cut before the store
that makes a node reachable, `list_del` between unlinking and clearing. The
read-write lock admits readers while no writer is in. Names are related by
`PrefixOf`, since lookups compare prefixes. `order` (the list as a sequence) and
`ready` (the devices whose `init` has run) are ghosts.

`ldal_device_create` is a loop over a table (`entry` is how far it has come) in
which each entry makes a fresh object and runs the whole of register, whose
result it drops; afterwards it counts the entries. `program` is what a program
does with the list: whether it unregisters devices, calls the traversals that
take no lock (`ldal_device_get_by_type`, `list_device`), registers from several
threads at once, and which tables it creates. The properties that need one of
these say so.

### RingBuffer and BoundedFifo

Operations are atomic since the memory class calls them under `device->mutex`.
The queue abstracted from the indices and the pool is `Contents`;
`ImplementsFifo` is the refinement. `BoundedFifo` lets a forced write that does
not fit keep any number of the newest bytes: the code keeps all it has room for
or, after a wrap, none (`ring_force`).

### TcpLink

`owner` is the descriptor table as above, `sock` what the kernel knows of a
socket: whether and to whom it is connected, and its options.
`tcp_connect_server_addr` is three steps, with the sleep between the close and
the new socket: start and stop calls, which take no mutex, and other threads'
descriptors come in between. `server` is the address a link remembers, which
`set_server_addr` writes to `device->filename` for the next startup. The
settings are the timeouts and the keepalive, which the link records and
`tcp_init` resets or not.

Of `connect` the model assumes what connect(2) and socket(7) say. It may fail at
once. It may also give up, with -1 and EINPROGRESS, on a connection that goes on to
be made (`GivenUp`, then `Handshake`): every socket has a send timeout of 3 s
(`ldal_tcp.c:262`), so this needs no O_NONBLOCK, and whether that is set tells
nothing apart. The next `connect` on such a socket returns 0 once the connection is
there, whatever address it was given (`Joining`). `late` says of a socket that its
connection was begun so, `joined` that `connect` has returned 0 on it.
`ConnectedIsConnected` says that a link that is CONNECTED has a connection of its
own; to whom, it says only of sockets that are not `late`, because the code does not
achieve more: `tcp_open` and `tcp_connect_server_addr` take the 0 for a connection to
the address they asked for.

`Orderly` is the assumption that a program leaves a closed link alone and does
not start or stop one that is reconnecting; without it the stale number of a
closed link may name another's descriptor.

`SettingsApplied` says as much as the code achieves: after a reconnect the
timeouts are the default ones again, in the record and in the socket, and the
keepalive is recorded and gone.

### AnalogCalibration

A fitted line is the number of the calibration that made it. A second-point
calibration is three steps (save, use and send, return), since a crash may fall
between them; a restore is one, since cutting it at a crash gives the same
outcomes as the failure of its save. The MCU keeps its lines over a restart of
the program. `McuReliable` and `RestoreFirst` are chosen once and for all in
`Init`; `ReportedIsStored` and `NeverStepsBack` are promised where both hold,
`LinesOfTheirMode` always. The configuration of the input (`mode`, `ai_conf`)
is not modelled.

### AtClient

`at_obj_exec_cmd` is a step per access to what is shared: the lock, `resp`,
`send_buf` and `last_cmd_len` (one each for all modems), the command and its
terminator, the wait, the exit. `me_write` is the dialogue of
`me_ec25_send_messages` under `device->mutex`. The two locks do not exclude each
other, so `port` and `answers` keep who wrote what. In this build the body of
`at_client_parser` is compiled out (`at.c`, `#if 0`): no step posts
`resp_notice`, and a wait can only time out. A modem takes what is between two
line ends and may answer OK to it if that is one text. `use` and `used` are the
discipline of the program, `timely` that of the modems; a property that needs
one says so, and without it it fails: two modems mix up their commands in
`send_buf`, two dialogues theirs on the port. `clock` says that `clock_gettime` does
not fail. Where it does, `at_obj_exec_cmd` returns from the middle
(`ExecNoClock`, `at.c:471-474`), with `client->lock` held and `client->resp` on what its
caller may now free. So `LocksReleased` is stated of the lock if the clock works (of
`device->mutex` always), and of `RespOfCaller` only one half holds without it: whoever
the lock was last taken by is the one whose response it is, and no other caller can be
given it, if only because no other gets the lock. Commands are shorter than `send_buf`.

### DriverUse and the drivers

A driver module has the callbacks of its class and nothing else; `DriverUse`
instantiates all of them on its own variables and picks the class of its device
in `Init`. `Enter` takes `device->mutex`, `Return` has run the callback and gives
it back; start and stop, which take no mutex, come in between. They are one
step, as the program does not overlap them (what happens if it does is the
subject of `DeviceLifecycle`). `orderly` is, for each class, what the program or
the machine must grant: memory can be allocated, reads ask for a whole file,
stdin is a terminal (`serial_open` fails without one and forgets the port),
nobody switches the UDP echo on. `HeldWhileInUse` is stated of failing opens as
well, and `PortAsRecorded` and `MutexGivenBack` of everything.

`MemoryDriver` uses the queue of `BoundedFifo`, which `RingBuffer` implements.
`FileDriver` has the position that `file_read` moves and `file_write` writes
at. `SerialDriver` translates the options to the flags of `c_cflag` and back as
the code does, flags left over included; options `termios` lacks (4 data bits,
1.5 stop bits) change nothing and are recorded in `serial->opt` nevertheless.
`UdpDriver` has the two addresses of the link, the one in `filename`, and the
filter of a connected socket. `BacklightDriver` scales levels as single precision
does: for every `max_brightness` up to 65535 the result was computed and is the
exact quotient cut to an integer, or, where that is an integer already, sometimes
one less; `Cut` leaves the choice open. `RtcDriver` converts a date as `rtc_read`
and `rtc_write` do, and the kernel refuses one that is none; the clock may pass
from one date to the next at any time. `PinDriver` is the level of a line and the
pulses of an output. `settled`, `configured` and `asked` are ghosts.

### RpcServer, JsonText and RpcService

`serve_thread_entry` is one thread: `loop` is where it is. The event loop
collects the watchers that are ready (`Poll`) and invokes one at a time, in any
order. `connection_cb` is one read and one parse: the buffer grows when it is
full, the read returns any part of what is there, a value found is taken out and
the rest moved to the front, a text that fails at its end waits for more, any
other is refused and the connection closed. A client sends whole texts that
arrive cut anywhere (`wire`), waits for its answer or not (`ahead`), and an
unsteady one closes its sending half or resets the connection (what was queued on it
is then not read any more). Procedures are
registered and deregistered by the host before the loop runs (`calls`).

`accept` may fail, and the client stays in the backlog, at least until the next round
(`accept_cb`). The one thread answers by `write` on a blocking socket: to a client
outside `Readers`, one that may not read its answers, the write may never return
(`BlockInWrite`), and then nobody is served any more (`loop = "blocked"`).

A value that is found is shifted out by `memmove`, after which `pos` is set by asking
for `strlen(end_ptr)` once more (`jsonrpc-c.c:189-191`): of a place that the move has
written over, or not. With `k` characters processed and `m` behind them, `pos` is `m` if
`m + 1 < k`, 0 if `m + 1 = k`, and `m - k` otherwise (`PosLeft`), so of a request that was
sent ahead a part, or all, may be dropped. (Checked by running these lines of C for every
`k` and `m` up to 40. Where the buffer was full and `m + 1 = k`, the outcome depends on the
byte behind the buffer, which the model takes for a NUL; if it is none, nothing is dropped.)
`lost` are the clients it has happened to. Nothing
is promised to them: `Understood`, `ClosedForCause` and the refinement except them,
say that they are among those that did not wait for their answers, and that
nobody else notices.

`JsonText` follows `cJSON.c` as far as its caller depends on it: was there a
value, and where was the pointer left. A text is a sequence of symbols; the
parser is a stack machine (`Step`) that stops at the first failure, and `ParseStream`
is where it has come after `MostSteps`, which is enough. What the
server relies on is that a text cut off fails at its NUL. It does not where the parser
looks behind what it needs, at a decimal point or the end of a literal, nor inside an
escape (`FragileEnd`, `InEscape`). A backslash takes the next character along and `\u` four
more (`Taken`), and the loop that copies a string looks at none of them
(`cJSON.c:180-226`), so that the pointer ends up to four places behind the NUL. These
places are zeroed as long as they are in the buffer. Where the buffer is full they lie
behind it, the parser reads them all the same, and the model takes them for NULs.

The refinement maps the buffers, pieces, rounds and the order of callbacks away:
`RpcService` knows requests, the procedures bound to each name, answers, and who has lost
something (`lost`, whose clients may be answered anything: `Muddle`). An
answer there depends on the meaning of a request (`kind`, `name`, `id`), which
`MCRpcServer` gives beside its text. That the parser finds this meaning in this
text, however it is cut and whatever is left in the buffer in front of it, is
`Understood`: it looks at every length the next read of every connection may return.

What the clients may send is `TextAssumption`: an object or an array of that meaning with
nothing but blanks behind it, or a text with something wrong before its end. TLC
evaluates it for the requests of `MCRpcServer`. It leaves out a string, a number or a
literal alone, which is no request: the parser misses neither the closing quote of a
string nor the last digits of a number, so the server takes what a read returns first for
a shorter one.

## Runs

| run | expected | shows |
| --- | --- | --- |
| `lifecycle_serial` | pass | count, descriptors, callbacks consistent under serialised start/stop |
| `lifecycle_race` | violation | an overlapping start loses an increment of `ref` |
| `ring_fifo` | pass | the ring buffer implements the queue |
| `ring_force` | violation | a forced write that wraps can empty the buffer |
| `registry` | pass | the list under the lock, lookups, names, initialisation; unlocked traversals without unregistration; creation from a table |
| `registry_unlocked` | violation | an unlocked traversal reaches the NULL of `list_del` |
| `tcp_orderly` | pass | sockets accounted for, status true and the address too unless a connect gave up, settings applied, hangups noticed |
| `analog_calib` | pass | no finished calibration lost, none undone, with an MCU that works; lines never change modes, whatever fails |
| `analog_saved` | violation | the file is one calibration behind |
| `at_client` | pass | responses stay with their callers, locks come free if the clock works, dialogues are not mixed where one is used |
| `driver_use` | pass | what a driver keeps is there while the device is used, and is what its calls made of it |
| `rpc_server` | pass | texts stay in their buffers and are understood wherever they are cut, connections close for a reason, requests are answered once, in order and by the right procedure, and an answer comes, to clients that wait for it and while nobody blocks the thread |

The findings in PROJECT.json say, for each violation, which line of the
repository promises what the run refutes.

Met while reading, and shown by no run:

* two threads can register one name: `ldal_device_register` looks it up in one
  critical section and inserts the device in another (`ldal.c:331`, `359`).
* a closed TCP link keeps its descriptor's number and connects whatever has
  that number later (`ldal_tcp.c:298`).
* every AT command with a response times out, the parser being compiled out;
  the comment of `at_obj_exec_cmd` (`at.c:421`) promises 0 for success.
* `SOCKET_GET_RECVADDR` of the UDP class stores the address and returns
  `-LDAL_EINVAL` (`ldal_udp.c:229`).
* the smallest brightness is a fifth of the largest, not the 5% of the comment
  (`ldal_backlight.c:53`); a level that is read and written back, as
  `tests/test_backlight.c` does, may dim the panel.
* 4 data bits and 1.5 stop bits, which `ldal_serial.h:51-53` lists, leave the
  port as it is without an error (`ldal_serial.c:35`, `56`).

* `startup_device` returns `LDAL_EOK` when `open` failed (`ldal.c:53`);
  `tests/test_memory.c:74-78` takes that for success.
* `ldal_device_register` returns 0 on every path (`ldal.c:379`); its comment
  (`ldal.c:318-319`) promises a negative result on failure.
* a lookup by name returns a device whose name merely begins with the one asked
  for (`ldal.c:160`).
* `tcp_init` gives a new socket the default timeouts, not those the program had
  set, and no keepalive, which the link records nevertheless (`ldal_tcp.c:258`):
  what is set before `connect_server_addr` is lost (`ldal_tcp.c:198`).
* a device that is started between the test of `ref` and the lock of
  `ldal_device_unregister` is unregistered while it is in use (`ldal.c:387`).
* `_device_create` counts a device whose registration was rejected
  (`ldal.c:416`).
* the first points of the calibrations of both modes, by whatever thread, share
  `calib_data[0]` (`ldal_analog.c:321`).
* a `connect` that has timed out may still be completed, and the next one on that
  socket then returns 0 for it: a startup after a failed `connect_server_addr` can
  leave the device CONNECTED to that server under the name of another
  (`ldal_tcp.c:204`, `262`, `281`).
* when `clock_gettime` fails, `at_obj_exec_cmd` returns with the client's lock held and
  a response set that the caller frees (`at.c:471`).
* of two requests that arrive together the second waits for more input
  (`jsonrpc-c.c:178`), and unless it is the shorter one a part of it, or all, is lost:
  `strlen(end_ptr)` is taken again after the `memmove` (`jsonrpc-c.c:191`). With a full
  buffer that `memmove` also reads one byte behind it.
* replies are blocking writes of the one thread: a client that does not read stops all
  others (`jsonrpc-c.c:40`).
* `jrpc_server_destroy` frees the data of each procedure, also the string literal
  that one of them is registered with (`jsonrpc-c.c:369`, `server.c:239`).
* JSON values that are no objects are dropped without an answer, notifications
  are answered, and of a number sent as id the fraction is dropped
  (`jsonrpc-c.c:58-134`).
* deregistering a name removes the oldest of its procedures, calling it reaches
  the newest (`jsonrpc-c.c:87`, `416`).
* a text cut off behind a backslash, inside a `\u` escape (`cJSON.c:195`), behind a
  decimal point or the last letter of a literal is refused as malformed
  (`jsonrpc-c.c:199`).
* the result of `jrpc_server_init` is ignored, and `jrpc_server_destroy` leaves
  the sockets open (`server.c:233`, `jsonrpc-c.c:364`).
* configuring an analog input sets `ai_conf.current_voltage` and not `adev->mode`
  (`ldal_analog.c:402`), by which readings are corrected.

**Bounds.** Lifecycle: 2 threads and 2 devices let two users share a device
while the other takes over descriptor numbers; 3 descriptors, one of them the
program's, let opens fail for want of one and numbers be reused; `RefMax` 2 is
the largest count two users reach (the wrap is then out of reach, as with
65535). The run with 3 threads (14 million states) passes as well. Registry: 3
devices make a head, a middle and a tail; 2 threads a walker and a writer, or
two writers; two names, one a prefix of the other, and two classes, one of them
not in the switch of `ldal_device_class_set`; three programs, of locked calls
only, of unlocked traversals without unregistration, and of creation from a
table whose longer name comes first while devices are unregistered. Ring: a pool of 4, the smallest
the alignment allows, blocks up to 5, one more than the pool, 2 byte values.
TCP: 2 links, one with an address in its filename, with different settings; 2
descriptors, so that numbers are reused and run out; 2 users. Analog: 4 calibrations over 2 modes, so that each mode is fitted
twice. AT: 2 threads, 2 modems and 2 calls, so that any two dialogues overlap on
one modem or on two; one command length, in a buffer one longer. Drivers: 2
threads; a queue of 2 and blocks up to 2, a file of 3, so that writes wrap,
overwrite and append; every parity, stop bits and flow control with a word
length `termios` knows and one it does not; 2 peers and 2 waiting datagrams; one
byte of input, since the serial driver only tells none from some; panels of 2, 32,
33 and 100 steps, on either side of the limits of `backlight_init`, and all
levels; dates around the turn of a year, with a month too many, one too few and
a year of two digits. RPC: 2 clients, one with 2 requests so that texts are joined
and cut, who reads its answers, and one unsteady that may not; requests of every outcome of `eval_request`, an escaped
name, one that is a `\u` escape, an id with a fraction, a malformed text and the one that stops the server;
a table with a name registered twice, one taken back and one never bound; a
buffer of 8 in place of 1500, so that it grows up to three times.

Threads are symmetric, and the runs that use the symmetry check no liveness.
Deadlock is checked in every run but `rpc_server`, where a server that has
ended and clients that have sent what they had are the normal end.

**Fairness.** `registry` assumes that a thread inside a traversal
runs on (weak fairness of its steps): no lock or event is needed for these,
only the scheduler. `tcp_orderly` assumes that somebody keeps reading each link
(weak fairness of `ReadsEnd`), which is what the reader thread of
`tests/test_tcp.c` is for; nothing is assumed of the kernel or the peer.
`at_client` assumes that a thread in a call runs on, that its sleeps and timeouts
end, and that a modem takes what is written to it; nobody is promised a lock,
only that who has one gives it back (with a clock that fails, not even that). `driver_use` assumes that a callback that
can go on does; input need not come. `rpc_server` assumes that the server's thread goes on
while it has something to do and is not blocked in a `write`, which nothing is assumed
to end; clients may stop at any time. That an `accept` eventually succeeds is not
assumed.

## Proofs

`DeviceLifecycleProofs` proves, for any finite set of threads no larger than
`RefMax`, any devices and any descriptors (`LifecycleAssumption`):

* `TypeCorrect` (which no run repeats) and `CallbacksNeverOverlap` unconditionally: mutual exclusion
  of callbacks does not depend on how start and stop calls interleave;
* assuming `Serialised`, the other four properties of `lifecycle_serial`.

None of the four is inductive. `IInv` adds: at most one start/stop call is in
progress (`OneCall`); a device no call is about is `Consistent`, its descriptor
open exactly if `ref > 0` (`DeviceState`); at each label of a call, what the
call has established so far, such as `tmp = ref` at a store (`CallState`); a
thread starts what it does not use and calls back what it uses (`UserState`);
and `ref` never exceeds the number of users (`CountState`). The last is what
keeps `ref` below the wrap, and with `ref > 0` while anybody uses the device it
rules out a close under a callback. The proof has a step per action; within it,
the conjuncts the action can disturb.

`RingBufferProofs` proves, for every pool size below 2^15 and block length,
that indices and mirrors stay in range and that the mirrors agree exactly when
the write end has not wrapped past the read end (`RingAssumption`). `IInv` is
the conjunction of the two; the forced operations need both, since they move
the read end by what the write end did.

It also proves the refinement, `RingImplementsFifo`: what the
operations do to indices, mirrors and slots is what `BoundedFifo` promises of the
bytes. The contents are a `Run` of slots from the read end on, and the write end
is `Ahead` by their number; a write appends to the run (`Appended`), a read
removes from its beginning (`Consumed`), a forced write that passes the read end
leaves the newest pool of bytes or, the mirrors being flipped together, nothing
(`WrittenOver`). The operations on one character are those on a block of
length 1.

`RegistryProofs` proves seven theorems for any devices, threads, names, classes
and programs (`RegistryAssumption`): types, `ListWellFormed`, `LookupExact`,
`InitBeforeUse`, `OwnNameFound`, `CreatedCanBeFound`, and `TraversalOnList` for
programs that do not both unregister and walk without the lock (`Safe`). The invariant has a part for
each reason: what a thread holds in its hands belongs to it alone (`Hands`); who
is in the critical section, and that writers exclude readers (`LockHeld`); the
pointers at each label of an insertion or removal, relative to the list as a
sequence (`Ring`, `Counted`); where a traversal stands, under the lock (`OnRing`)
and without it (`OnRingUnlocked`); and, if registrations do not overlap, that no
name in front of a device's shadows it, including the one being inserted
(`NameFree`). For `CreatedCanBeFound`, where nothing is unregistered, it says
of a table half done that every entry behind the one being registered is found
by its name or is of a class that cannot be had, and that the object in hand is
the entry's, under its name (`Created`). The step that needs most is the removal: without a node the ring
is still one, and a locked traversal cannot stand on it, because its thread
would hold the lock as a reader.

`TcpLinkProofs` proves types for any program, and under `Orderly`
`SocketAccounting`, `ConnectedIsConnected` and `SettingsApplied`, for any links,
addresses, settings and descriptors. The invariant says which descriptors a link
owns in each status (`Owns`), that a reconnect has closed its socket when it sleeps
and has a new one when it connects (`Reconnects`), that who is connected
is connected to whom it says (`Holds`), and that options agree (`Applied`). Since what a
`connect` returns depends on what an earlier one left, it also says that a socket with a
connection which `connect` has not returned 0 for is one it gave up on (`Attempted`).

`AnalogCalibrationProofs` proves types and `LinesOfTheirMode` whatever fails, and
`ReportedIsStored` and `NeverStepsBack`, for any number of calibrations. Each
line kept anywhere was fitted, by a calibration of its mode (`FittedTo`); with an
MCU that answers and a program that restores first, the MCU has what has been
reported or better, and its lines are the ones in use (`Kept`).

`AtClientProofs` proves, for any threads, modems, commands and lengths of
`send_buf`: types, `RespOfCaller`, `OwnCommandSent`, `WholeCommands` and `OwnOk`.
`Held` says who holds which lock at which label, of `client->lock` where the clock
works, and always that a response that is set is that of the lock's holder; `OwnFormatted` that between
formatting and writing `send_buf` is the caller's, if there is one modem;
`WholeSoFar` that a command without its end is the last thing on the wire, if
there is one dialogue; `QuietWires` that no OK is on its way but to the message
that waits for it, if modems are timely.

`DriverUseProofs` proves every property of `driver_use` but the liveness one, for
any threads, bounds, word lengths, timeouts, peers, dates and panels
(`UseAssumption`; a device can be held once, and a file may have one byte). The
invariant keeps the use of the device and the drivers apart. Of the use: who is in
a callback holds the mutex and uses the device (`Calls`), no user is left out of
the count if opens do not fail (`Counted`), and what an open got is held while the
count is positive (`HeldByCount`). Of each driver, what its callbacks keep: the
buffer is there while the count is positive (`MemoryOK`), the position of a file
that has been read is its end (`FileOK`), and so on; a lemma per class
(`MemorySteps`, ...) says that nothing else touches its variables. `KeptForUsers`
follows from the count: whoever joins or leaves a device in use is neither the
first nor the last. The arithmetic of `LevelReadBack` is `ThereAndBack`: scaled to
`d` steps and back, a cut quotient each way, with the off-by-one of single
precision, loses at most `100 \div d + 1`.

`RpcServerProofs` proves, for any clients, texts, tables and sizes of the buffer
(`RpcAssumption`), that a text and its NUL fit into the buffer however the requests
are divided into reads (`TextsFit`), and that `read` is never asked for nothing, so
that its 0 always means a client that has hung up (`ReadsSomething`). What stays in
the buffer behind a request is from where the parser left its pointer, so both rest
on `ParserEnds`: on every text the parser comes to an end, and it ends inside the
text, at its NUL or at most four places behind, where a `\u` that was cut off leads it. Every step moves the pointer on, but
for the one behind a value, after which comes one that does (`Left`, `StepGoesOn`);
so `MostSteps` steps are enough. The induction this needs is over a set of numbers:
one that holds 0 and with each number the next is `Nat` (`Induction`), by a least
number outside it, by the library's theorem that the subsets of a finite set are well
founded. The invariant of the server has a part for each connection
(`Connection`): its text is shorter than its buffer, its watcher is pending
only while it is open, and it has been answered at most once for each value taken.

`Understands` is that the parser takes what has been read, cut anywhere and with blanks
in front, for the first request not yet taken, and so rests on what the parser makes of
a part of a text, or of more than one. The argument compares two runs, on a text `t` and
on a text `u` that has blanks, then all of `t`, then anything (`Holds`). A state of the
run on `t` is `Firm` while the parser has not looked behind `t`: its pointer is in the
text, not at a decimal point that ends it, or it has just closed an array or object.
A step to a firm state is the same step in `u` (`StepHeld`), so a run through firm
states is a run in both (`RunHeld`). A state that is not firm is `Lost`: two steps on the
parser has failed, or has found a string, a number or a literal. Hence an array or object
found in a part is what is found in all of it (`FoundInPart`), also with more behind it
(`FoundBehind`), and what is wrong before the end of a part stays wrong (`WrongInPart`);
of a part without a `FragileEnd` the pointer is left at its NUL
(`CutOff`, by `StepLeads`: the pointer never goes back, and only there passes the NUL). The
scans of strings are recursive functions, and are shown to be what their equations say
by an induction from the end of the text (`Downwards`, `ScanDefined`).

The invariant of the connections is `Untaken`: a buffer and what is still to be read are
blanks and then the texts of the requests sent and not taken. A request sent is joined to
it (`SendText`); a read moves symbols from one to the other (`ReceivedTexts`), and if a
value is found, what moves to the front is the rest from where the parser stopped: behind the value only blanks of its own text, and the next one (`LeftOf`). That is so
unless the shift drops a part of it. The invariant speaks of the clients that have
lost nothing (`TextInv`): if there is no further request a shift drops blanks only, and
leaves blanks (`BlanksKept`); if there is one it was sent ahead (`AheadInv`), and
the client becomes one of `lost`. `ClosesForCause` says
from the same invariant that a connection is closed only for one of the reasons of
`ClosedForCause`: the step of `connection_cb` that refuses a text has its pointer before
the end, which of a request that is not malformed it has only at a `FragileEnd`.

`ServiceImplemented` is the refinement, in two halves: what texts mean is a matter of the
parser and of the requests alone (`Understands`), and given that, growing buffers,
pieces, the rounds of the loop, the order of the callbacks, resets and hangups do not
matter, nor does the table (`ServesIfUnderstood`); what is done for a client that has lost
something is a `Muddle`. There are as many
functions bound to a name as entries of that name, in the table's order (`Bound`); a
registration binds one more behind them (`BoundAppended`), a deregistration takes the
first of them (`BoundRemoved`), and what `invoke_procedure` finds counting down is the
last (`BoundLast`, `FoundIsLast`). `Bound` counts through the table, so each of these is
an induction over its places (`Counts`, `Stepwise`). Of the server the steps need, beyond
`IInv`, where the loop is while something is registered, connected or pending
(`LoopInv`).

So every safety property and every refinement that a passing run checks is proved, for
every value of the constants that its module's assumptions allow. Only model-checked is
liveness (`TraversalsEnd`, `HangupNoticed`, `LocksReleased`, `MutexGivenBack`,
`AnsweredInTurn`): TLAPS does not prove from fairness.

## Not modelled

* `netdev.c`: functions without state of their own, which nothing else in the
  library calls; each is a sequence of ioctl calls, shell commands and edits of
  resolver files, whose failures the setters ignore.
* Of the analog class the configuration of an input, the averaging of samples, the
  fit and the scaling: arithmetic on floats.
* Of the AT client the parser, which is compiled out (`#if 0`), and the helpers
  that read a response it would have filled; `me_open`, which leaks its descriptor
  as `serial_open` does.
* Of `cJSON` printing, and in the parser exponents, which character a `\u` escape
  stands for (a surrogate pair is taken for two) and the case of
  names; `ev.h`; tests and tools.
* Allocations that fail, other than that of `memory_open`; signals that interrupt
  a call other than `connect`; SIGPIPE, which the RPC server does not ignore: a client keeps its
  receiving half open; what is queued on a connection when it is reset, which the server
  may still be able to read.
* Procedures that dereference parameters they were not given
  (`server.c`), and texts so deep that the parser's recursion ends the stack.
* The contents of what devices transfer, where no property is about them; baud
  rates; the options of sockets that leave no state that is told apart (O_NONBLOCK, `bind`,
  SO_REUSEADDR,
  SO_BINDTODEVICE).
* The two failing exits of `serial_open` and `me_open` that keep the descriptor
  open are the reason these two drivers are not among those of `DeviceLifecycle`.

## Plan

What could follow are properties for the hazards that have none yet: a `ref` that wraps in
`DeviceLifecycle` (a run with a small `RefMax` and one program that only starts); the
test of `ref` in an unregistration, made before the lock, in `Registry`; lengths cut
to 16 bits in `MemoryDriver`; a command longer than `send_buf` in `AtClient`; and, in
`AnalogCalibration`, the mode of an input beside its configuration and a calibration that
the MCU refuses.
