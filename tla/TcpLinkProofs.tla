--------------------------- MODULE TcpLinkProofs ---------------------------
(***************************************************************************)
(* Theorems about TcpLink, for any number of links, addresses and          *)
(* descriptors.                                                            *)
(*                                                                         *)
(* Types are kept by every program.  The rest needs an orderly one, which  *)
(* leaves a link alone once it is closed and while it reconnects: then a   *)
(* link that is not closed owns the descriptor in device->fd, so that what *)
(* one link does to its socket is done to no other's.                      *)
(***************************************************************************)
EXTENDS TcpLink, TLAPS

Open(d) == status[d] \notin {"UNREGISTERED", "CLOSED"}

\* A link that is open owns what device->fd says, and one that is not owns nothing.
Owns(d) == \A f \in Fds : owner[f] = d <=> Open(d) /\ f = fd[d]

\* A reconnect has closed its socket, and has a new one when it connects.
Reconnects(d) ==
  /\ phase[d] = "sleep" => status[d] = "CLOSED"
  /\ phase[d] = "connect" => Open(d)

\* What CONNECTED says of the socket behind a descriptor, and of address a.
Joined(f, a) ==
  /\ f \in Fds /\ Made(f) /\ sock[f].joined
  /\ ~sock[f].late => sock[f].peer = a

Holds(d) == status[d] = "CONNECTED" => Joined(fd[d], server[d])

\* A connection that connect() has not returned 0 for is one it gave up on.
Attempted(d) ==
  \A f \in Fds : owner[f] = d => sock[f].link = "fresh" \/ sock[f].joined \/ sock[f].late

Applied(d) ==
  \A f \in Fds : owner[f] = d =>
    /\ sock[f].recv = recv_timeout[d] /\ sock[f].send = send_timeout[d]
    /\ sock[f].keepalive => keepalive[d]

Sound(d) == Owns(d) /\ Reconnects(d) /\ Holds(d) /\ Attempted(d) /\ Applied(d)

IInv == TypeOK /\ \A d \in Devices : Sound(d)

-----------------------------------------------------------------------------
(* Types                                                                    *)

LEMMA FreshSockets == Fresh \in Sockets /\ Timed \in Sockets
  BY DEF Fresh, Timed, Sockets

LEMMA TcpInitTypes ==
  ASSUME TypeOK, NEW d \in Devices, TcpInit(d)
  PROVE  /\ status' \in [Devices -> Statuses]
         /\ fd' \in [Devices -> Fds \cup {NoFd}]
         /\ recv_timeout' \in [Devices -> {"zero", "default", "chosen"}]
         /\ send_timeout' \in [Devices -> {"zero", "default", "chosen"}]
         /\ keepalive' = keepalive
         /\ owner' \in [Fds -> Devices \cup {Free, App}]
         /\ sock' \in [Fds -> Sockets]
  BY FreshSockets DEF TcpInit, TypeOK, Statuses

LEMMA ConnectTypes ==
  ASSUME TypeOK, NEW d \in Devices, NEW a \in Addrs \cup {NoAddr},
         KernelConnects(d, a) \/ KernelRefuses(d, a)
  PROVE  status' \in [Devices -> Statuses] /\ sock' \in [Fds -> Sockets]
  <1>1. ASSUME Connected(d, a) \/ GivenUp(d, a) \/ Failed(d)
        PROVE  sock' \in [Fds -> Sockets]
    <2>1. fd[d] \in Fds  BY <1>1 DEF Connected, GivenUp, Failed, IsSocket
    <2>2. sock[fd[d]] \in Sockets  BY <2>1 DEF TypeOK
    <2>3. CASE Connected(d, a)
      <3>1. Joining(sock[fd[d]], a) \in Sockets
        BY <2>2 DEF Sockets, Joining
      <3> QED  BY <2>1, <2>3, <3>1 DEF Connected, TypeOK
    <2>4. CASE GivenUp(d, a)
      <3>1. [sock[fd[d]] EXCEPT !.link = "connecting", !.peer = a, !.late = TRUE] \in Sockets
        BY <2>2 DEF Sockets
      <3> QED  BY <2>1, <2>4, <3>1 DEF GivenUp, TypeOK
    <2>5. CASE Failed(d)
      <3>1. [sock[fd[d]] EXCEPT !.link = "fresh", !.peer = NoAddr, !.late = FALSE] \in Sockets
        BY <2>2 DEF Sockets
      <3> QED  BY <2>1, <2>5, <3>1 DEF Failed, TypeOK
    <2> QED  BY <1>1, <2>3, <2>4, <2>5
  <1> QED  BY <1>1 DEF KernelConnects, KernelRefuses, TypeOK, Statuses

LEMMA TcpCloseTypes ==
  ASSUME TypeOK, NEW d \in Devices, TcpClose(d)
  PROVE  /\ status' \in [Devices -> Statuses]
         /\ owner' \in [Fds -> Devices \cup {Free, App}]
         /\ sock' \in [Fds -> Sockets]
  BY FreshSockets DEF TcpClose, TypeOK, Statuses

LEMMA SockoptTypes ==
  ASSUME TypeOK, NEW d \in Devices, NEW option, NEW value, Sockopt(d, option, value),
         \/ option \in {"recv", "send"} /\ value \in {"system", "default", "chosen"}
         \/ option = "keepalive" /\ value \in BOOLEAN
  PROVE  sock' \in [Fds -> Sockets]
  <1>1. CASE IsSocket(fd[d])
    <2>1. fd[d] \in Fds  BY <1>1 DEF IsSocket
    <2>2. sock[fd[d]] \in Sockets  BY <2>1 DEF TypeOK
    <2>3. [sock[fd[d]] EXCEPT ![option] = value] \in Sockets
      BY <2>2 DEF Sockets
    <2> QED  BY <1>1, <2>1, <2>3 DEF Sockopt, TypeOK
  <1>2. CASE ~IsSocket(fd[d])
    BY <1>2 DEF Sockopt, TypeOK
  <1> QED  BY <1>1, <1>2

LEMMA InitTypes == Init => TypeOK
  BY TcpAssumption, FreshSockets DEF Init, TypeOK, Statuses

LEMMA StepTypes == TypeOK /\ [Next]_vars => TypeOK'
  <1> SUFFICES ASSUME TypeOK, [Next]_vars PROVE TypeOK'  OBVIOUS
  <1> USE TcpAssumption DEF settings, connecting
  <1>1. ASSUME NEW d \in Devices, Register(d)  PROVE TypeOK'
    BY <1>1, TcpInitTypes DEF Register, TypeOK
  <1>2. ASSUME NEW d \in Devices, Startup(d)  PROVE TypeOK'
    <2>1. ref' \in [Devices -> 0 .. MaxRef]  BY <1>2 DEF Startup, TypeOK
    <2>2. server[d] \in Addrs \cup {NoAddr}  BY DEF TypeOK
    <2>3. status' \in [Devices -> Statuses] /\ sock' \in [Fds -> Sockets]
      BY <1>2, <2>2, ConnectTypes DEF Startup, TypeOK
    <2> QED  BY <1>2, <2>1, <2>3 DEF Startup, TypeOK
  <1>3. ASSUME NEW d \in Devices, Stop(d)  PROVE TypeOK'
    <2>1. ref' \in [Devices -> 0 .. MaxRef]
      BY <1>3 DEF Stop, Counted, TypeOK
    <2> QED  BY <1>3, <2>1, TcpCloseTypes DEF Stop, TypeOK
  <1>4. ASSUME NEW d \in Devices, NEW a \in Addrs, ConnectCall(d, a)  PROVE TypeOK'
    BY <1>4, TcpCloseTypes DEF ConnectCall, TypeOK
  <1>5. ASSUME NEW d \in Devices, ConnectReinit(d)  PROVE TypeOK'
    BY <1>5, TcpInitTypes DEF ConnectReinit, TypeOK
  <1>6. ASSUME NEW d \in Devices, ConnectFinish(d)  PROVE TypeOK'
    <2>1. target[d] \in Addrs \cup {NoAddr}  BY DEF TypeOK
    <2>2. status' \in [Devices -> Statuses] /\ sock' \in [Fds -> Sockets]
      BY <1>6, <2>1, ConnectTypes DEF ConnectFinish
    <2> QED  BY <1>6, <2>1, <2>2 DEF ConnectFinish, set_server_addr, TypeOK
  <1>7. ASSUME NEW d \in Devices, ReadsEnd(d)  PROVE TypeOK'
    BY <1>7 DEF ReadsEnd, TypeOK, Statuses
  <1>8. ASSUME NEW d \in Devices, SetTimeout(d)  PROVE TypeOK'
    BY <1>8, SockoptTypes DEF SetTimeout, TypeOK
  <1>9. ASSUME NEW d \in Devices, SetKeepalive(d)  PROVE TypeOK'
    BY <1>9, SockoptTypes DEF SetKeepalive, TypeOK
  <1>10. ASSUME NEW f \in Fds, Handshake(f)  PROVE TypeOK'
    <2>0. sock[f] \in Sockets  BY DEF TypeOK
    <2>1. [sock[f] EXCEPT !.link = "connected"] \in Sockets  BY <2>0 DEF Sockets
    <2> QED  BY <1>10, <2>1 DEF Handshake, TypeOK
  <1>11. ASSUME NEW f \in Fds, PeerCloses(f)  PROVE TypeOK'
    <2>0. sock[f] \in Sockets  BY DEF TypeOK
    <2>1. [sock[f] EXCEPT !.link = "hangup"] \in Sockets  BY <2>0 DEF Sockets
    <2> QED  BY <1>11, <2>1 DEF PeerCloses, TypeOK
  <1>12. ASSUME NEW f \in Fds, AppOpens(f) \/ AppCloses(f)  PROVE TypeOK'
    BY <1>12 DEF AppOpens, AppCloses, TypeOK
  <1>13. CASE UNCHANGED vars
    BY <1>13 DEF vars, TypeOK
  <1> QED
    BY <1>1, <1>2, <1>3, <1>4, <1>5, <1>6, <1>7, <1>8, <1>9, <1>10, <1>11, <1>12,
       <1>13 DEF Next

\* The variables of the TCP class keep their types in every program.
THEOREM TcpTypeCorrect == Spec => []TypeOK
  BY InitTypes, StepTypes, PTL DEF Spec

-----------------------------------------------------------------------------
(* Sockets of orderly programs                                              *)

\* A step that leaves link e and its socket alone, but for what a peer does.
Untouched(e) ==
  /\ status'[e] = status[e] /\ fd'[e] = fd[e] /\ server'[e] = server[e]
  /\ phase'[e] = phase[e] /\ keepalive'[e] = keepalive[e]
  /\ recv_timeout'[e] = recv_timeout[e] /\ send_timeout'[e] = send_timeout[e]
  /\ \A f \in Fds :
       /\ owner'[f] = e <=> owner[f] = e
       /\ owner[f] = e =>
            /\ sock'[f].link = "fresh" <=> sock[f].link = "fresh"
            /\ sock[f].link \in {"connected", "hangup"} =>
                 sock'[f].link \in {"connected", "hangup"}
            /\ sock'[f].peer = sock[f].peer
            /\ sock'[f].joined = sock[f].joined /\ sock'[f].late = sock[f].late
            /\ sock'[f].recv = sock[f].recv /\ sock'[f].send = sock[f].send
            /\ sock'[f].keepalive = sock[f].keepalive

LEMMA UntouchedIsSound ==
  ASSUME NEW e \in Devices, Sound(e), Untouched(e)
  PROVE  Sound(e)'
  <1>1. Owns(e)'  BY DEF Sound, Owns, Open, Untouched
  <1>2. Reconnects(e)'  BY DEF Sound, Reconnects, Open, Untouched
  <1>3. Holds(e)'
    <2> SUFFICES ASSUME status[e] = "CONNECTED" PROVE Joined(fd[e], server[e])'
      BY DEF Holds, Untouched
    <2>1. Joined(fd[e], server[e]) /\ owner[fd[e]] = e
      BY DEF Sound, Holds, Joined, Owns, Open
    <2> QED  BY <2>1 DEF Joined, Made, Untouched
  <1>4. Applied(e)'  BY DEF Sound, Applied, Untouched
  <1>5. Attempted(e)'  BY DEF Sound, Attempted, Untouched
  <1> QED  BY <1>1, <1>2, <1>3, <1>4, <1>5 DEF Sound

\* A socket that open link d can use or close is its own.
LEMMA OwnSocket ==
  ASSUME TypeOK, NEW d \in Devices, Owns(d), Open(d)
  PROVE  fd[d] \in Fds => owner[fd[d]] = d
  BY DEF Owns

\* connect() on an open link: the others keep their sockets, and the link says
\* CONNECTED of a socket that is.
LEMMA ConnectSound ==
  ASSUME TypeOK, NEW d \in Devices, NEW a, Owns(d), Attempted(d), Applied(d), Open(d),
         KernelConnects(d, a) \/ KernelRefuses(d, a), UNCHANGED <<owner, fd, settings>>
  PROVE  /\ Owns(d)' /\ Attempted(d)' /\ Applied(d)' /\ Open(d)'
         /\ status'[d] = "CONNECTED" => Joined(fd[d], a)'
         /\ \A e \in Devices \ {d} : status'[e] = status[e]
         /\ \A f \in Fds : owner[f] # d => sock'[f] = sock[f]
  <1> USE DEF settings
  <1>1. /\ status'[d] \in {"CONNECTED", "UNCONNECTED"}
        /\ \A e \in Devices \ {d} : status'[e] = status[e]
    BY DEF KernelConnects, KernelRefuses, TypeOK
  <1>2. Open(d)'  BY <1>1 DEF Open
  <1>3. Owns(d)'  BY <1>2 DEF Owns
  <1>4. ASSUME Connected(d, a) \/ GivenUp(d, a) \/ Failed(d)
        PROVE  /\ fd[d] \in Fds /\ owner[fd[d]] = d
               /\ sock[fd[d]] \in Sockets
               /\ \A f \in Fds \ {fd[d]} : sock'[f] = sock[f]
    <2>1. fd[d] \in Fds /\ owner[fd[d]] = d
      BY <1>4, OwnSocket DEF Connected, GivenUp, Failed, IsSocket
    <2>2. sock[fd[d]] \in Sockets  BY <2>1 DEF TypeOK
    <2> QED  BY <1>4, <2>1, <2>2 DEF Connected, GivenUp, Failed, TypeOK
  <1>5. ASSUME Connected(d, a)
        PROVE  /\ Joined(fd[d], a)' /\ sock'[fd[d]].joined
               /\ sock'[fd[d]].recv = sock[fd[d]].recv
               /\ sock'[fd[d]].send = sock[fd[d]].send
               /\ sock'[fd[d]].keepalive = sock[fd[d]].keepalive
    <2>1. sock'[fd[d]] = Joining(sock[fd[d]], a)
      BY <1>4, <1>5 DEF Connected, TypeOK
    <2>2. /\ sock'[fd[d]].joined /\ sock'[fd[d]].late = sock[fd[d]].late
          /\ sock'[fd[d]].link \in {"connected", "hangup"}
          /\ sock[fd[d]].link = "fresh" => sock'[fd[d]].peer = a
          /\ sock'[fd[d]].recv = sock[fd[d]].recv
          /\ sock'[fd[d]].send = sock[fd[d]].send
          /\ sock'[fd[d]].keepalive = sock[fd[d]].keepalive
      BY <1>4, <1>5, <2>1 DEF Sockets, Joining
    <2>3. ~sock[fd[d]].joined  BY <1>5 DEF Connected
    <2>4. ~sock[fd[d]].late => sock[fd[d]].link = "fresh"
      BY <1>4, <1>5, <2>3 DEF Attempted
    <2> QED  BY <1>4, <1>5, <2>2, <2>4 DEF Joined, Made
  <1>6. ASSUME GivenUp(d, a) \/ Failed(d)
        PROVE  /\ sock'[fd[d]].late \/ sock'[fd[d]].link = "fresh"
               /\ sock'[fd[d]].recv = sock[fd[d]].recv
               /\ sock'[fd[d]].send = sock[fd[d]].send
               /\ sock'[fd[d]].keepalive = sock[fd[d]].keepalive
    <2>1. sock'[fd[d]] \in
            {[sock[fd[d]] EXCEPT !.link = "connecting", !.peer = a, !.late = TRUE],
             [sock[fd[d]] EXCEPT !.link = "fresh", !.peer = NoAddr, !.late = FALSE]}
      BY <1>4, <1>6 DEF GivenUp, Failed, TypeOK
    <2> QED  BY <1>4, <1>6, <2>1 DEF Sockets
  <1>7. Connected(d, a) \/ GivenUp(d, a) \/ Failed(d) \/ UNCHANGED sock
    BY DEF KernelConnects, KernelRefuses
  <1>8. \A f \in Fds : owner[f] # d => sock'[f] = sock[f]
    BY <1>4, <1>7
  <1>9. Applied(d)'  BY <1>4, <1>5, <1>6, <1>7 DEF Applied
  <1>10. Attempted(d)'  BY <1>4, <1>5, <1>6, <1>7 DEF Attempted
  <1>11. status'[d] = "CONNECTED" => Connected(d, a)
    BY <1>1 DEF KernelConnects, KernelRefuses, TypeOK
  <1> QED  BY <1>1, <1>2, <1>3, <1>5, <1>8, <1>9, <1>10, <1>11

\* tcp_init on a link that owns nothing.
LEMMA TcpInitSound ==
  ASSUME TypeOK, NEW d \in Devices, Owns(d), ~Open(d), TcpInit(d)
  PROVE  /\ Owns(d)' /\ Attempted(d)' /\ Applied(d)' /\ Open(d)'
         /\ status'[d] # "CONNECTED"
         /\ \A e \in Devices \ {d} :
              /\ status'[e] = status[e] /\ fd'[e] = fd[e]
              /\ recv_timeout'[e] = recv_timeout[e] /\ send_timeout'[e] = send_timeout[e]
              /\ \A f \in Fds : owner'[f] = e <=> owner[f] = e
         /\ \A f \in Fds : owner[f] \in Devices => sock'[f] = sock[f]
  <1> USE TcpAssumption
  <1>1. \A f \in Fds : owner[f] # d  BY DEF Owns
  <1>2. CASE \E f \in Fds :
               /\ LowestFree(f)
               /\ owner' = [owner EXCEPT ![f] = d]
               /\ sock' = [sock EXCEPT ![f] = Timed]
               /\ fd' = [fd EXCEPT ![d] = f]
               /\ recv_timeout' = [recv_timeout EXCEPT ![d] = "default"]
               /\ send_timeout' = [send_timeout EXCEPT ![d] = "default"]
               /\ status' = [status EXCEPT ![d] = "ESTABLISHED"]
    <2> PICK f \in Fds :
               /\ LowestFree(f)
               /\ owner' = [owner EXCEPT ![f] = d]
               /\ sock' = [sock EXCEPT ![f] = Timed]
               /\ fd' = [fd EXCEPT ![d] = f]
               /\ recv_timeout' = [recv_timeout EXCEPT ![d] = "default"]
               /\ send_timeout' = [send_timeout EXCEPT ![d] = "default"]
               /\ status' = [status EXCEPT ![d] = "ESTABLISHED"]
      BY <1>2
    <2>1. owner[f] = Free  BY DEF LowestFree
    <2>2. Open(d)' /\ status'[d] # "CONNECTED"  BY DEF Open, TypeOK
    <2>3. Owns(d)'  BY <1>1, <2>2 DEF Owns, TypeOK
    <2>4. /\ Timed.recv = "default" /\ Timed.send = "default" /\ ~Timed.keepalive
          /\ Timed.link = "fresh"
      BY DEF Timed, Fresh
    <2>5. Applied(d)' /\ Attempted(d)'  BY <1>1, <2>4 DEF Applied, Attempted, TypeOK
    <2> QED  BY <2>1, <2>2, <2>3, <2>5 DEF TypeOK
  <1>3. CASE /\ fd' = [fd EXCEPT ![d] = NoFd]
             /\ status' = [status EXCEPT ![d] = "INIT"]
             /\ UNCHANGED <<owner, sock, recv_timeout, send_timeout>>
    BY <1>1, <1>3 DEF Open, Owns, Attempted, Applied, TypeOK
  <1> QED  BY <1>2, <1>3 DEF TcpInit

\* tcp_close of an open link.
LEMMA TcpCloseSound ==
  ASSUME TypeOK, NEW d \in Devices, Owns(d), Open(d), TcpClose(d), fd' = fd
  PROVE  /\ Owns(d)' /\ status'[d] = "CLOSED" /\ \A f \in Fds : owner'[f] # d
         /\ \A e \in Devices \ {d} :
              /\ status'[e] = status[e]
              /\ \A f \in Fds : owner'[f] = e <=> owner[f] = e
         /\ \A f \in Fds : owner[f] # d => sock'[f] = sock[f]
  <1> USE TcpAssumption
  <1>1. status' = [status EXCEPT ![d] = "CLOSED"]
    BY DEF TcpClose, MustClose, Open
  <1>2. CASE fd[d] \in Fds
    <2>1. owner[fd[d]] = d /\ \A f \in Fds : owner[f] = d => f = fd[d]
      BY <1>2 DEF Owns
    <2>2. owner' = [owner EXCEPT ![fd[d]] = Free] /\ sock' = [sock EXCEPT ![fd[d]] = Fresh]
      BY <1>2 DEF TcpClose, MustClose, Open
    <2> QED  BY <1>1, <2>1, <2>2 DEF Owns, Open, TypeOK
  <1>3. CASE fd[d] \notin Fds
    BY <1>1, <1>3 DEF TcpClose, MustClose, Open, Owns, TypeOK
  <1> QED  BY <1>2, <1>3

\* A setting changes the socket of an open link only.
LEMMA SockoptSound ==
  ASSUME TypeOK, NEW d \in Devices, Owns(d), Open(d),
         NEW option \in {"recv", "send", "keepalive"}, NEW value,
         Sockopt(d, option, value)
  PROVE  \A f \in Fds :
           /\ owner[f] # d => sock'[f] = sock[f]
           /\ owner[f] = d => sock'[f] = [sock[f] EXCEPT ![option] = value]
  <1> USE TcpAssumption
  <1>1. CASE IsSocket(fd[d])
    <2>1. fd[d] \in Fds /\ owner[fd[d]] = d
      BY <1>1 DEF IsSocket, Owns
    <2>2. \A f \in Fds : owner[f] = d => f = fd[d]  BY DEF Owns
    <2> QED  BY <1>1, <2>1, <2>2 DEF Sockopt, TypeOK
  <1>2. CASE ~IsSocket(fd[d])
    BY <1>2 DEF Sockopt, IsSocket, Owns
  <1> QED  BY <1>1, <1>2

LEMMA InitSound == Init => IInv
  <1> SUFFICES ASSUME Init, NEW d \in Devices PROVE Sound(d)
    BY InitTypes DEF IInv
  <1> QED
    BY TcpAssumption
    DEF Init, Sound, Owns, Open, Reconnects, Holds, Attempted, Applied

LEMMA StepSound == Orderly /\ IInv /\ [Next]_vars => IInv'
  <1> SUFFICES ASSUME Orderly, IInv, [Next]_vars PROVE IInv'  OBVIOUS
  <1>a. TypeOK /\ TypeOK'  BY StepTypes DEF IInv
  <1>b. \A d \in Devices :
          Owns(d) /\ Reconnects(d) /\ Holds(d) /\ Attempted(d) /\ Applied(d)
    BY DEF IInv, Sound
  <1>c. ASSUME NEW d \in Devices, Sound(d)',
               \A e \in Devices \ {d} : Untouched(e)
        PROVE  IInv'
    BY <1>a, <1>c, UntouchedIsSound DEF IInv
  <1>d. \A d \in Devices : Usable(d) => Open(d) /\ phase[d] = "none"
    BY DEF Usable, Registered, Open
  <1> USE <1>a DEF settings, connecting
  <1>1. ASSUME NEW d \in Devices, Register(d)  PROVE IInv'
    <2>1. ~Open(d) /\ TcpInit(d)  BY <1>1 DEF Register, Registered, Open
    <2>2. Reconnects(d)'
      BY <1>1, <2>1, <1>b, TcpInitSound DEF Register, Registered, Reconnects, Open
    <2>3. Sound(d)'  BY <2>1, <2>2, <1>b, TcpInitSound DEF Sound, Holds
    <2>4. ASSUME NEW e \in Devices \ {d}  PROVE Untouched(e)
      BY <1>1, <2>1, <1>b, TcpInitSound DEF Register, TcpInit, Untouched
    <2> QED  BY <2>3, <2>4, <1>c
  <1>2. ASSUME NEW d \in Devices, Startup(d)  PROVE IInv'
    <2>1. Open(d) /\ phase[d] = "none"  BY <1>2, <1>d DEF Startup
    <2>2. CASE ref[d] = 0 /\ server[d] # NoAddr
      <3>1. (KernelConnects(d, server[d]) \/ KernelRefuses(d, server[d]))
            /\ UNCHANGED <<owner, fd, server, settings, connecting>>
        BY <1>2, <2>2 DEF Startup
      <3>2. Owns(d)' /\ Attempted(d)' /\ Applied(d)' /\ Open(d)' /\ Holds(d)'
        BY <2>1, <3>1, <1>b, ConnectSound DEF Holds
      <3>3. Sound(d)'  BY <2>1, <3>1, <3>2 DEF Sound, Reconnects
      <3>4. ASSUME NEW e \in Devices \ {d}  PROVE Untouched(e)
        BY <2>1, <3>1, <1>b, ConnectSound DEF Untouched
      <3> QED  BY <3>3, <3>4, <1>c
    <2>3. CASE ~(ref[d] = 0 /\ server[d] # NoAddr)
      <3>1. ASSUME NEW e \in Devices  PROVE Untouched(e)
        BY <1>2, <2>3 DEF Startup, Untouched
      <3> QED  BY <3>1, UntouchedIsSound DEF IInv
    <2> QED  BY <2>2, <2>3
  <1>3. ASSUME NEW d \in Devices, Stop(d)  PROVE IInv'
    <2>1. Open(d) /\ phase[d] = "none"  BY <1>3, <1>d DEF Stop
    <2>2. CASE TcpClose(d)
      <3>1. Owns(d)' /\ Reconnects(d)' /\ Holds(d)' /\ Attempted(d)' /\ Applied(d)'
        BY <1>3, <2>1, <2>2, <1>b, TcpCloseSound DEF Stop, Reconnects, Holds, Attempted, Applied
      <3>2. ASSUME NEW e \in Devices \ {d}  PROVE Untouched(e)
        BY <1>3, <2>1, <2>2, <1>b, TcpCloseSound DEF Stop, Untouched
      <3> QED  BY <3>1, <3>2, <1>c DEF Sound
    <2>3. CASE UNCHANGED <<owner, sock, status>>
      <3>1. ASSUME NEW e \in Devices  PROVE Untouched(e)
        BY <1>3, <2>3 DEF Stop, Untouched
      <3> QED  BY <3>1, UntouchedIsSound DEF IInv
    <2> QED  BY <1>3, <2>2, <2>3 DEF Stop
  <1>4. ASSUME NEW d \in Devices, NEW a \in Addrs, ConnectCall(d, a)  PROVE IInv'
    <2>1. Open(d)  BY <1>4, <1>d DEF ConnectCall
    <2>2. phase'[d] = "sleep" /\ TcpClose(d) /\ UNCHANGED <<fd, server, settings>>
          /\ \A e \in Devices \ {d} : phase'[e] = phase[e]
      BY <1>4, <2>1 DEF ConnectCall, Open, TypeOK
    <2>3. Owns(d)' /\ Reconnects(d)' /\ Holds(d)' /\ Attempted(d)' /\ Applied(d)'
      BY <2>1, <2>2, <1>b, TcpCloseSound DEF Reconnects, Holds, Attempted, Applied
    <2>4. ASSUME NEW e \in Devices \ {d}  PROVE Untouched(e)
      BY <2>1, <2>2, <1>b, TcpCloseSound DEF Untouched
    <2> QED  BY <2>3, <2>4, <1>c DEF Sound
  <1>5. ASSUME NEW d \in Devices, ConnectReinit(d)  PROVE IInv'
    <2>1. ~Open(d) /\ TcpInit(d) /\ UNCHANGED server
      BY <1>5, <1>b DEF ConnectReinit, Reconnects, Open
    <2>2. phase'[d] = "connect" /\ \A e \in Devices \ {d} : phase'[e] = phase[e]
      BY <1>5 DEF ConnectReinit, TypeOK
    <2>3. Sound(d)'
      BY <2>1, <2>2, <1>b, TcpInitSound DEF Sound, Holds, Reconnects
    <2>4. ASSUME NEW e \in Devices \ {d}  PROVE Untouched(e)
      BY <2>1, <2>2, <1>b, TcpInitSound DEF TcpInit, Untouched
    <2> QED  BY <2>3, <2>4, <1>c
  <1>6. ASSUME NEW d \in Devices, ConnectFinish(d)  PROVE IInv'
    <2>1. /\ KernelConnects(d, target[d]) \/ KernelRefuses(d, target[d])
          /\ Open(d) /\ UNCHANGED <<owner, fd, settings>>
      BY <1>6, <1>b DEF ConnectFinish, Reconnects
    <2>2. /\ phase'[d] = "none"
          /\ server'[d] = IF status'[d] = "CONNECTED" THEN target[d] ELSE server[d]
          /\ \A e \in Devices \ {d} : phase'[e] = phase[e] /\ server'[e] = server[e]
      BY <1>6 DEF ConnectFinish, set_server_addr, TypeOK
    <2>3. Owns(d)' /\ Attempted(d)' /\ Applied(d)' /\ Holds(d)'
      BY <2>1, <2>2, <1>b, ConnectSound DEF Holds
    <2>4. Sound(d)'  BY <2>2, <2>3 DEF Sound, Reconnects
    <2>5. ASSUME NEW e \in Devices \ {d}  PROVE Untouched(e)
      BY <2>1, <2>2, <1>b, ConnectSound DEF Untouched
    <2> QED  BY <2>4, <2>5, <1>c
  <1>7. ASSUME NEW d \in Devices, ReadsEnd(d)  PROVE IInv'
    <2>1. Open(d) /\ status'[d] = "UNCONNECTED" /\ phase[d] = "none"
      BY <1>7, <1>d DEF ReadsEnd, Calls, TypeOK
    <2>2. Sound(d)'
      BY <1>7, <2>1, <1>b
      DEF ReadsEnd, Sound, Owns, Open, Reconnects, Holds, Attempted, Applied
    <2>3. ASSUME NEW e \in Devices \ {d}  PROVE Untouched(e)
      BY <1>7 DEF ReadsEnd, Untouched, TypeOK
    <2> QED  BY <2>2, <2>3, <1>c
  <1>s. ASSUME NEW d \in Devices, Usable(d),
               NEW option \in {"recv", "send", "keepalive"}, NEW value,
               Sockopt(d, option, value) \/ UNCHANGED sock,
               UNCHANGED <<status, fd, server, connecting, owner>>,
               \A e \in Devices \ {d} :
                 /\ recv_timeout'[e] = recv_timeout[e] /\ send_timeout'[e] = send_timeout[e]
                 /\ keepalive'[e] = keepalive[e],
               Applied(d)'
        PROVE  IInv'
    <2>1. Open(d)  BY <1>s, <1>d
    <2>2. /\ \A f \in Fds : owner[f] # d => sock'[f] = sock[f]
          /\ \A f \in Fds : owner[f] = d =>
               sock'[f] \in {sock[f], [sock[f] EXCEPT ![option] = value]}
      <3>1. CASE Sockopt(d, option, value)
        <4>1. \A f \in Fds :
                /\ owner[f] # d => sock'[f] = sock[f]
                /\ owner[f] = d => sock'[f] = [sock[f] EXCEPT ![option] = value]
          BY <2>1, <3>1, <1>b, SockoptSound
        <4> QED  BY <4>1
      <3>2. CASE UNCHANGED sock
        BY <3>2
      <3> QED  BY <1>s, <3>1, <3>2
    <2>3. \A f \in Fds :
            /\ sock'[f].link = sock[f].link /\ sock'[f].peer = sock[f].peer
            /\ sock'[f].joined = sock[f].joined /\ sock'[f].late = sock[f].late
      <3> SUFFICES ASSUME NEW f \in Fds
                   PROVE  /\ sock'[f].link = sock[f].link /\ sock'[f].peer = sock[f].peer
                          /\ sock'[f].joined = sock[f].joined
                          /\ sock'[f].late = sock[f].late
        OBVIOUS
      <3>1. sock[f] \in Sockets  BY DEF TypeOK
      <3> QED  BY <3>1, <2>2 DEF Sockets
    <2>4. Sound(d)'
      BY <1>s, <2>3, <1>b
      DEF Sound, Owns, Open, Reconnects, Holds, Joined, Made, Attempted
    <2>5. ASSUME NEW e \in Devices \ {d}  PROVE Untouched(e)
      BY <1>s, <2>2 DEF Untouched
    <2> QED  BY <2>4, <2>5, <1>c
  <1>8. ASSUME NEW d \in Devices, SetTimeout(d)  PROVE IInv'
    <2>1. Usable(d) /\ Open(d)  BY <1>8, <1>d DEF SetTimeout, Calls
    <2>2. CASE /\ recv_timeout' = [recv_timeout EXCEPT ![d] = "chosen"]
               /\ Sockopt(d, "recv", "chosen") /\ UNCHANGED send_timeout
      <3>1. \A f \in Fds : owner[f] = d =>
              sock[f] \in Sockets /\ sock'[f] = [sock[f] EXCEPT !["recv"] = "chosen"]
        BY <2>1, <2>2, <1>b, SockoptSound DEF TypeOK
      <3>2. Applied(d)'
        BY <1>8, <2>2, <3>1, <1>b DEF SetTimeout, Applied, Sockets, TypeOK
      <3> QED  BY <1>8, <2>1, <2>2, <3>2, <1>s DEF SetTimeout, TypeOK
    <2>3. CASE /\ send_timeout' = [send_timeout EXCEPT ![d] = "chosen"]
               /\ Sockopt(d, "send", "chosen") /\ UNCHANGED recv_timeout
      <3>1. \A f \in Fds : owner[f] = d =>
              sock[f] \in Sockets /\ sock'[f] = [sock[f] EXCEPT !["send"] = "chosen"]
        BY <2>1, <2>3, <1>b, SockoptSound DEF TypeOK
      <3>2. Applied(d)'
        BY <1>8, <2>3, <3>1, <1>b DEF SetTimeout, Applied, Sockets, TypeOK
      <3> QED  BY <1>8, <2>1, <2>3, <3>2, <1>s DEF SetTimeout, TypeOK
    <2> QED  BY <1>8, <2>2, <2>3 DEF SetTimeout
  <1>9. ASSUME NEW d \in Devices, SetKeepalive(d)  PROVE IInv'
    <2>1. Usable(d) /\ Open(d)  BY <1>9, <1>d DEF SetKeepalive, Calls
    <2>2. ASSUME NEW enable \in BOOLEAN,
                 keepalive' = [keepalive EXCEPT ![d] = enable],
                 Sockopt(d, "keepalive", enable)
          PROVE  IInv'
      <3>1. \A f \in Fds : owner[f] = d =>
              sock[f] \in Sockets /\ sock'[f] = [sock[f] EXCEPT !["keepalive"] = enable]
        BY <2>1, <2>2, <1>b, SockoptSound DEF TypeOK
      <3>2. \A f \in Fds : owner[f] = d =>
              /\ sock'[f].keepalive = enable
              /\ sock'[f].recv = sock[f].recv /\ sock'[f].send = sock[f].send
        BY <3>1 DEF Sockets
      <3>3. keepalive'[d] = enable  BY <2>2 DEF TypeOK
      <3>4. Applied(d)'
        BY <1>9, <3>2, <3>3, <1>b DEF SetKeepalive, Applied
      <3> QED  BY <1>9, <2>1, <2>2, <3>4, <1>s DEF SetKeepalive, TypeOK
    <2>3. CASE UNCHANGED <<keepalive, sock>>
      <3>1. ASSUME NEW e \in Devices  PROVE Untouched(e)
        BY <1>9, <2>3 DEF SetKeepalive, Untouched
      <3> QED  BY <3>1, UntouchedIsSound DEF IInv
    <2> QED  BY <1>9, <2>2, <2>3 DEF SetKeepalive
  <1>10. ASSUME NEW f \in Fds, Handshake(f)  PROVE IInv'
    <2>1. sock[f] \in Sockets /\ sock[f].link = "connecting"
      BY <1>10 DEF Handshake, TypeOK
    <2>2. sock' = [sock EXCEPT ![f] = [sock[f] EXCEPT !.link = "connected"]]
      BY <1>10 DEF Handshake
    <2>3. ASSUME NEW e \in Devices  PROVE Untouched(e)
      BY <1>10, <2>1, <2>2 DEF Handshake, Untouched, Sockets, TypeOK
    <2> QED  BY <2>3, UntouchedIsSound DEF IInv
  <1>11. ASSUME NEW f \in Fds, PeerCloses(f)  PROVE IInv'
    <2>1. sock[f] \in Sockets /\ sock[f].link = "connected"
      BY <1>11 DEF PeerCloses, TypeOK
    <2>2. sock' = [sock EXCEPT ![f] = [sock[f] EXCEPT !.link = "hangup"]]
      BY <1>11 DEF PeerCloses
    <2>3. ASSUME NEW e \in Devices  PROVE Untouched(e)
      BY <1>11, <2>1, <2>2 DEF PeerCloses, Untouched, Sockets, TypeOK
    <2> QED  BY <2>3, UntouchedIsSound DEF IInv
  <1>12. ASSUME NEW f \in Fds, AppOpens(f) \/ AppCloses(f)  PROVE IInv'
    <2>1. ASSUME NEW e \in Devices  PROVE Untouched(e)
      BY <1>12, TcpAssumption DEF AppOpens, AppCloses, LowestFree, Untouched, TypeOK
    <2> QED  BY <2>1, UntouchedIsSound DEF IInv
  <1>13. CASE UNCHANGED vars
    <2>1. ASSUME NEW e \in Devices  PROVE Untouched(e)
      BY <1>13 DEF vars, Untouched
    <2> QED  BY <2>1, UntouchedIsSound DEF IInv
  <1> QED
    BY <1>1, <1>2, <1>3, <1>4, <1>5, <1>6, <1>7, <1>8, <1>9, <1>10, <1>11, <1>12,
       <1>13 DEF Next

-----------------------------------------------------------------------------

\* SocketAccounting: in an orderly program no socket is lost or shared, however
\* many links connect, reconnect and close.
THEOREM OrderlySockets == ASSUME Orderly PROVE Spec => []SocketAccounting
  <1>1. IInv => SocketAccounting
    <2> SUFFICES ASSUME IInv, NEW d \in Devices
                 PROVE  OwnFds(d) = IF status[d] \in {"UNREGISTERED", "CLOSED"} \/ fd[d] = NoFd
                                      THEN {} ELSE {fd[d]}
      BY DEF SocketAccounting
    <2>1. Owns(d) /\ fd[d] \in Fds \cup {NoFd}  BY DEF IInv, Sound, TypeOK
    <2> QED  BY <2>1, TcpAssumption DEF OwnFds, Owns, Open
  <1>2. IInv /\ [Next]_vars => IInv'  BY StepSound
  <1> QED  BY <1>1, <1>2, InitSound, PTL DEF Spec

\* ConnectedIsConnected: in such a program CONNECTED is only said of a link whose
\* own socket was connected, and to the address its name says unless a connect()
\* gave up on that socket before.
THEOREM OrderlyConnections == ASSUME Orderly PROVE Spec => []ConnectedIsConnected
  <1>1. IInv => ConnectedIsConnected
    <2> SUFFICES ASSUME IInv, NEW d \in Devices, status[d] = "CONNECTED"
                 PROVE  /\ fd[d] \in OwnFds(d) /\ Made(fd[d]) /\ sock[fd[d]].joined
                        /\ ~sock[fd[d]].late => sock[fd[d]].peer = server[d]
      BY DEF ConnectedIsConnected
    <2>1. Joined(fd[d], server[d]) /\ owner[fd[d]] = d
      BY DEF IInv, Sound, Owns, Open, Holds, Joined
    <2> QED  BY <2>1 DEF OwnFds, Joined
  <1>2. IInv /\ [Next]_vars => IInv'  BY StepSound
  <1> QED  BY <1>1, <1>2, InitSound, PTL DEF Spec

\* SettingsApplied: in such a program a socket has the timeouts its link records.
THEOREM OrderlySettings == ASSUME Orderly PROVE Spec => []SettingsApplied
  <1>1. IInv => SettingsApplied
    BY DEF IInv, Sound, Applied, SettingsApplied, OwnFds
  <1>2. IInv /\ [Next]_vars => IInv'  BY StepSound
  <1> QED  BY <1>1, <1>2, InitSound, PTL DEF Spec
=============================================================================
