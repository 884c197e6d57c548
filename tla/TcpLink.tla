------------------------------ MODULE TcpLink ------------------------------
(***************************************************************************)
(* The TCP class, src/src/class/ldal_tcp.c: link->status, the descriptor   *)
(* in device->fd, the settings and the address a link remembers, and the   *)
(* sockets of the process, which the devices share with the rest of the    *)
(* program.                                                                *)
(*                                                                         *)
(* The callbacks of a device exclude each other (device->mutex, see        *)
(* DeviceLifecycle), but open and close, which startup_device and          *)
(* stop_device call without that mutex, may fall between the steps of a    *)
(* tcp_connect_server_addr, which sleeps a second between closing a socket *)
(* and creating the next.  Startup and stop calls themselves are           *)
(* serialised here.                                                        *)
(*                                                                         *)
(* Every socket gets a send timeout of 3 s (tcp_init), and connect() obeys *)
(* it: it can give up, with -1 and EINPROGRESS, on a connection that is    *)
(* made later.  The next connect() then returns 0 for it, whatever address *)
(* it was given.  O_NONBLOCK, with which it gives up at once, is therefore *)
(* nothing the state tells apart.                                          *)
(***************************************************************************)
EXTENDS Naturals, FiniteSets

CONSTANTS
  Devices,
  Addrs, NoAddr,
  Named,        \* the address in the filename of each device, if there is one
  Settings,     \* the settings the program makes of each device
  Fds, MaxRef,  \* descriptor numbers; bound on the count of users
  Orderly,      \* TRUE: the program leaves a device alone once it is closed,
                \* and neither starts nor stops one that is reconnecting
  Free, App, NoFd

ASSUME TcpAssumption ==
  /\ NoAddr \notin Addrs /\ Named \in [Devices -> Addrs \cup {NoAddr}]
  /\ Settings \in [Devices -> SUBSET {"recv", "send", "keepalive"}]
  /\ Fds \subseteq Nat /\ MaxRef \in Nat \ {0} /\ Orderly \in BOOLEAN
  /\ Free \notin Devices /\ App \notin Devices /\ Free # App /\ NoFd \notin Fds

VARIABLES
  status, fd, ref,   \* link->status, device->fd, device->ref
  server,            \* link->server, which is what device->filename says
  recv_timeout, send_timeout,  \* of link: SOCKET_DEFAULT_TIMEOUT or another
  keepalive,         \* link->keepalive
  phase,             \* how far a tcp_connect_server_addr in progress has come
  target,            \* and the address it was given
  owner,             \* on whose behalf a descriptor is open
  sock               \* what the kernel knows of the socket behind it

settings == <<recv_timeout, send_timeout, keepalive>>
connecting == <<phase, target>>
vars == <<status, fd, ref, server, settings, connecting, owner, sock>>

\* link: "fresh" may connect, "connecting" waits for its peer to answer, "hangup"
\* is a connection its peer has closed.  joined: connect() has returned 0; late:
\* the connect() that began the connection did not wait for it.
Fresh == [link |-> "fresh", peer |-> NoAddr, joined |-> FALSE, late |-> FALSE,
          recv |-> "system", send |-> "system", keepalive |-> FALSE]

\* calloc'ed objects that no registration has reached yet.
Init ==
  /\ status = [d \in Devices |-> "UNREGISTERED"]
  /\ fd = [d \in Devices |-> NoFd]
  /\ ref = [d \in Devices |-> 0]
  /\ server = Named
  /\ recv_timeout = [d \in Devices |-> "zero"] /\ send_timeout = recv_timeout
  /\ keepalive = [d \in Devices |-> FALSE]
  /\ phase = [d \in Devices |-> "none"] /\ target = [d \in Devices |-> NoAddr]
  /\ owner = [f \in Fds |-> Free]
  /\ sock = [f \in Fds |-> Fresh]

Registered(d) == status[d] # "UNREGISTERED"
OwnFds(d) == {f \in Fds : owner[f] = d}

\* A socket of some device: system calls on any other number fail with EBADF
\* or ENOTSOCK.
IsSocket(f) == f \in Fds /\ owner[f] \in Devices

LowestFree(f) == owner[f] = Free /\ \A g \in Fds : owner[g] = Free => f <= g

-----------------------------------------------------------------------------
(* The functions of ldal_tcp.c that change state                            *)

\* Seeded fault: the new socket is not given the times it is recorded to have.
Untimed == Fresh

Timed == [Fresh EXCEPT !.recv = "default", !.send = "default"]

\* tcp_init: the new socket has the default timeouts, and the link records them;
\* keepalive is forgotten about.
TcpInit(d) ==
  /\ \/ \E f \in Fds :
          /\ LowestFree(f)
          /\ owner' = [owner EXCEPT ![f] = d]
          /\ sock' = [sock EXCEPT ![f] = Timed]
          /\ fd' = [fd EXCEPT ![d] = f]
          /\ recv_timeout' = [recv_timeout EXCEPT ![d] = "default"]
          /\ send_timeout' = [send_timeout EXCEPT ![d] = "default"]
          /\ status' = [status EXCEPT ![d] = "ESTABLISHED"]
     \/ /\ fd' = [fd EXCEPT ![d] = NoFd]
        /\ status' = [status EXCEPT ![d] = "INIT"]
        /\ UNCHANGED <<owner, sock, recv_timeout, send_timeout>>
  /\ UNCHANGED keepalive

Joining(s, a) ==
  [s EXCEPT !.joined = TRUE,
            !.link = IF s.link = "hangup" THEN "hangup" ELSE "connected",
            !.peer = IF s.link = "fresh" THEN a ELSE s.peer]

\* connect() returns 0 once for each connection, whoever owns the socket: to the
\* call that made it or, if that one gave up, to the next, whose address is ignored.
Connected(d, a) ==
  /\ IsSocket(fd[d]) /\ ~sock[fd[d]].joined
  /\ sock' = [sock EXCEPT ![fd[d]] = Joining(@, a)]

\* EINPROGRESS or EINTR: the send timeout has run out, the socket does not block,
\* or a signal came; the connection goes on to be made.
GivenUp(d, a) ==
  /\ IsSocket(fd[d]) /\ sock[fd[d]].link = "fresh"
  /\ sock' = [sock EXCEPT ![fd[d]] =
                 [@ EXCEPT !.link = "connecting", !.peer = a, !.late = TRUE]]

\* The next connect() is told that the peer has refused after all.
Failed(d) ==
  /\ IsSocket(fd[d]) /\ sock[fd[d]].link = "connecting"
  /\ sock' = [sock EXCEPT ![fd[d]] =
                 [@ EXCEPT !.link = "fresh", !.peer = NoAddr, !.late = FALSE]]

KernelConnects(d, a) ==
  Connected(d, a) /\ status' = [status EXCEPT ![d] = "CONNECTED"]

\* -1, whatever the reason
KernelRefuses(d, a) ==
  /\ GivenUp(d, a) \/ Failed(d) \/ UNCHANGED sock
  /\ status' = [status EXCEPT ![d] = "UNCONNECTED"]

\* Seeded fault: a link that lost its connection is taken for closed.
ClosesConnectedOnly(d) == status[d] = "CONNECTED"

MustClose(d) == status[d] # "CLOSED"

\* tcp_close
TcpClose(d) ==
  IF MustClose(d)
    THEN /\ owner' = IF fd[d] \in Fds THEN [owner EXCEPT ![fd[d]] = Free]
                                      ELSE owner
         /\ sock' = IF fd[d] \in Fds THEN [sock EXCEPT ![fd[d]] = Fresh] ELSE sock
         /\ status' = [status EXCEPT ![d] = "CLOSED"]
    ELSE UNCHANGED <<owner, sock, status>>

-----------------------------------------------------------------------------
(* Calls of the program                                                     *)

\* ldal_device_register runs tcp_init and drops its result.
Register(d) ==
  /\ ~Registered(d)
  /\ TcpInit(d)
  /\ UNCHANGED <<ref, server, connecting>>

Usable(d) ==
  Registered(d) /\ (Orderly => status[d] # "CLOSED" /\ phase[d] = "none")

\* startup_device and tcp_open: the address is the filename's, which may be the
\* one of an earlier connect.
Startup(d) ==
  /\ Usable(d) /\ ref[d] < MaxRef
  /\ IF ref[d] = 0 /\ server[d] # NoAddr
       THEN \/ KernelConnects(d, server[d]) /\ ref' = [ref EXCEPT ![d] = 1]
            \/ KernelRefuses(d, server[d]) /\ UNCHANGED ref
       ELSE ref' = [ref EXCEPT ![d] = @ + 1] /\ UNCHANGED <<status, sock>>
  /\ UNCHANGED <<fd, server, settings, connecting, owner>>

Counted(d) == ref[d] > 0

\* stop_device and tcp_close
Stop(d) ==
  /\ Usable(d) /\ Counted(d)
  /\ ref' = [ref EXCEPT ![d] = @ - 1]
  /\ IF ref[d] = 1 THEN TcpClose(d) ELSE UNCHANGED <<owner, sock, status>>
  /\ UNCHANGED <<fd, server, settings, connecting>>

\* tcp_connect_server_addr up to the sleep; a connected link is left alone, a
\* closed one goes straight to connect() on the descriptor it used to have.
ConnectCall(d, a) ==
  /\ Usable(d) /\ phase[d] = "none" /\ status[d] # "CONNECTED"
  /\ phase' = [phase EXCEPT ![d] =
                 IF status[d] # "CLOSED" THEN "sleep" ELSE "connect"]
  /\ target' = [target EXCEPT ![d] = a]
  /\ TcpClose(d)
  /\ UNCHANGED <<fd, ref, server, settings>>

ConnectReinit(d) ==
  /\ phase[d] = "sleep"
  /\ TcpInit(d)
  /\ phase' = [phase EXCEPT ![d] = "connect"]
  /\ UNCHANGED <<ref, server, target>>

set_server_addr(d) ==
  server' = [server EXCEPT ![d] = IF status'[d] = "CONNECTED" THEN target[d] ELSE @]

\* Seeded fault: the status is set whatever connect() returned.
BelievesConnected(d) ==
  /\ phase[d] = "connect" /\ phase' = [phase EXCEPT ![d] = "none"]
  /\ target' = [target EXCEPT ![d] = NoAddr]
  /\ status' = [status EXCEPT ![d] = "CONNECTED"]
  /\ UNCHANGED <<fd, ref, server, settings, owner, sock>>

ConnectFinish(d) ==
  /\ phase[d] = "connect"
  /\ KernelConnects(d, target[d]) \/ KernelRefuses(d, target[d])
  /\ set_server_addr(d)
  /\ phase' = [phase EXCEPT ![d] = "none"]
  /\ target' = [target EXCEPT ![d] = NoAddr]
  /\ UNCHANGED <<fd, ref, settings, owner>>

\* A callback that does not connect.
Calls(d) == Usable(d) /\ phase[d] = "none"

\* Seeded fault: the end of the stream is taken for an empty message.
IgnoresHangup(d) ==
  Calls(d) /\ IsSocket(fd[d]) /\ sock[fd[d]].link = "hangup" /\ UNCHANGED vars

\* tcp_read returns 0: the peer has closed.  (Data, a timeout or an error
\* leave the link as it is, and so does whatever tcp_write returns.)
ReadsEnd(d) ==
  /\ Calls(d) /\ IsSocket(fd[d]) /\ sock[fd[d]].link = "hangup"
  /\ status' = [status EXCEPT ![d] = "UNCONNECTED"]
  /\ UNCHANGED <<fd, ref, server, settings, connecting, owner, sock>>

\* setsockopt, which fails on what is no socket
Sockopt(d, option, value) ==
  sock' = IF IsSocket(fd[d]) THEN [sock EXCEPT ![fd[d]] = [@ EXCEPT ![option] = value]]
                             ELSE sock

\* tcp_control, SOCKET_SET_RECVTIMEO and SOCKET_SET_SENDTIMEO: recorded before
\* setsockopt is tried.
SetTimeout(d) ==
  /\ Calls(d)
  /\ \/ /\ "recv" \in Settings[d] /\ recv_timeout' = [recv_timeout EXCEPT ![d] = "chosen"]
        /\ Sockopt(d, "recv", "chosen") /\ UNCHANGED send_timeout
     \/ /\ "send" \in Settings[d] /\ send_timeout' = [send_timeout EXCEPT ![d] = "chosen"]
        /\ Sockopt(d, "send", "chosen") /\ UNCHANGED recv_timeout
  /\ UNCHANGED <<status, fd, ref, server, keepalive, connecting, owner>>

\* set_keepalive: recorded once setsockopt has succeeded; if the times cannot
\* be set it is switched off again.
SetKeepalive(d) ==
  /\ Calls(d) /\ "keepalive" \in Settings[d]
  /\ \/ \E enable \in BOOLEAN :
          /\ IsSocket(fd[d])
          /\ keepalive' = [keepalive EXCEPT ![d] = enable]
          /\ Sockopt(d, "keepalive", enable)
     \/ UNCHANGED <<keepalive, sock>>
  /\ UNCHANGED <<status, fd, ref, server, recv_timeout, send_timeout, connecting, owner>>

-----------------------------------------------------------------------------
(* The peer, and the rest of the program                                    *)

Handshake(f) ==
  /\ IsSocket(f) /\ sock[f].link = "connecting"
  /\ sock' = [sock EXCEPT ![f] = [@ EXCEPT !.link = "connected"]]
  /\ UNCHANGED <<status, fd, ref, server, settings, connecting, owner>>

PeerCloses(f) ==
  /\ IsSocket(f) /\ sock[f].link = "connected"
  /\ sock' = [sock EXCEPT ![f] = [@ EXCEPT !.link = "hangup"]]
  /\ UNCHANGED <<status, fd, ref, server, settings, connecting, owner>>

AppOpens(f) ==
  /\ LowestFree(f) /\ owner' = [owner EXCEPT ![f] = App]
  /\ UNCHANGED <<status, fd, ref, server, settings, connecting, sock>>

AppCloses(f) ==
  /\ owner[f] = App /\ owner' = [owner EXCEPT ![f] = Free]
  /\ UNCHANGED <<status, fd, ref, server, settings, connecting, sock>>

Next ==
  \/ \E d \in Devices :
       \/ Register(d) \/ Startup(d) \/ Stop(d)
       \/ \E a \in Addrs : ConnectCall(d, a)
       \/ ConnectReinit(d) \/ ConnectFinish(d) \/ ReadsEnd(d)
       \/ SetTimeout(d) \/ SetKeepalive(d)
  \/ \E f \in Fds : Handshake(f) \/ PeerCloses(f) \/ AppOpens(f) \/ AppCloses(f)

Spec == Init /\ [][Next]_vars

\* A thread keeps reading every device, as tests/test_tcp.c's reader does.
FairSpec == Spec /\ \A d \in Devices : WF_vars(ReadsEnd(d))

-----------------------------------------------------------------------------
(* Properties                                                               *)

Statuses == {"UNREGISTERED", "INIT", "ESTABLISHED", "UNCONNECTED", "CONNECTED",
             "CLOSED"}

Sockets ==
  [link : {"fresh", "connecting", "connected", "hangup"}, peer : Addrs \cup {NoAddr},
   joined : BOOLEAN, late : BOOLEAN,
   recv : {"system", "default", "chosen"}, send : {"system", "default", "chosen"},
   keepalive : BOOLEAN]

\* Every variable has its type.
TypeOK ==
  /\ status \in [Devices -> Statuses]
  /\ fd \in [Devices -> Fds \cup {NoFd}]
  /\ ref \in [Devices -> 0 .. MaxRef]
  /\ server \in [Devices -> Addrs \cup {NoAddr}]
  /\ recv_timeout \in [Devices -> {"zero", "default", "chosen"}]
  /\ send_timeout \in [Devices -> {"zero", "default", "chosen"}]
  /\ keepalive \in [Devices -> BOOLEAN]
  /\ phase \in [Devices -> {"none", "sleep", "connect"}]
  /\ target \in [Devices -> Addrs \cup {NoAddr}]
  /\ owner \in [Fds -> Devices \cup {Free, App}]
  /\ sock \in [Fds -> Sockets]

\* A link owns the one socket in device->fd from its creation to its close and
\* none after: whatever sequence of calls, no socket is lost or shared.
SocketAccounting ==
  \A d \in Devices :
    OwnFds(d) = IF status[d] \in {"UNREGISTERED", "CLOSED"} \/ fd[d] = NoFd
                  THEN {} ELSE {fd[d]}

\* What the callers ask before they read or write (tests/test_tcp.c:23); the
\* error of a socket that was reset is left out.
tcp_check_status(d) == IF IsSocket(fd[d]) THEN status[d] ELSE "UNCONNECTED"

\* A connection that was made, if its peer may have closed it since.
Made(f) == sock[f].link \in {"connected", "hangup"}

\* CONNECTED is only said of a link whose own socket has been connected, and to
\* the address that its filename now says, which the next startup will use; the
\* peer may have closed it without the link knowing (ldal_tcp.c:204-213, 280-287).
\* Which peer it is cannot be said of a socket on which a connect() gave up: the
\* link has that connection under the address of a later call.
ConnectedIsConnected ==
  \A d \in Devices :
    status[d] = "CONNECTED" =>
      /\ fd[d] \in OwnFds(d) /\ Made(fd[d]) /\ sock[fd[d]].joined
      /\ ~sock[fd[d]].late => sock[fd[d]].peer = server[d]

\* The timeouts the link records are those its socket has, also after a reconnect
\* has replaced the socket, and a socket with keepalive is recorded to have it.
\* (One without may be, too: the new socket of a reconnect, ldal_tcp.c:254-267.)
SettingsApplied ==
  \A d \in Devices : \A f \in OwnFds(d) :
    /\ sock[f].recv = recv_timeout[d] /\ sock[f].send = send_timeout[d]
    /\ sock[f].keepalive => keepalive[d]

\* When the peer closes and somebody reads, check_status stops saying CONNECTED,
\* which is what makes the callers reconnect (tests/test_tcp.c:23-35).
HangupNoticed ==
  \A d \in Devices :
    tcp_check_status(d) = "CONNECTED" /\ sock[fd[d]].link = "hangup"
      ~> tcp_check_status(d) # "CONNECTED"
=============================================================================
