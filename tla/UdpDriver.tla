----------------------------- MODULE UdpDriver ------------------------------
(***************************************************************************)
(* The callbacks of the UDP class, src/src/class/ldal_udp.c, and as much   *)
(* of a datagram socket as they see.                                       *)
(***************************************************************************)
EXTENDS Naturals, Sequences

CONSTANTS
  Addrs, NoAddr,
  MaxInbox      \* bound: datagrams that wait to be read

VARIABLES
  saddr, raddr, echo_flag,   \* of link
  filename,                  \* the address in dev->filename
  bound, filter,             \* of the socket: has a port; its peer, if connected
  inbox                      \* the senders of the datagrams that wait

link == <<saddr, raddr, echo_flag>>
socket == <<bound, filter, inbox>>
udpVars == <<link, filename, socket>>

Init ==
  /\ saddr = NoAddr /\ raddr = NoAddr /\ echo_flag = FALSE
  /\ filename \in Addrs \cup {NoAddr}
  /\ bound = FALSE /\ filter = NoAddr /\ inbox = <<>>

NewSocket == bound' = FALSE /\ filter' = NoAddr /\ inbox' = <<>>

\* import_ipaddr_from_filename changes nothing if the name is no address.
Open ==
  /\ NewSocket
  /\ saddr' = IF filename = NoAddr THEN saddr ELSE filename
  /\ UNCHANGED <<raddr, echo_flag, filename>>

Close == NewSocket /\ UNCHANGED <<link, filename>>

Bind == bound' = TRUE /\ UNCHANGED <<link, filename, filter, inbox>>

\* Seeded fault: the name keeps the address the device had before.
ForgetsName(a) == saddr' = a /\ UNCHANGED filename

set_remote_addr(a) == saddr' = a /\ filename' = a

\* Datagrams that wait are not filtered afterwards.
Connect(a) ==
  /\ bound' = TRUE /\ filter' = a
  /\ set_remote_addr(a)
  /\ UNCHANGED <<raddr, echo_flag, inbox>>

\* recvfrom waits for a datagram.
Read ==
  /\ inbox # <<>>
  /\ inbox' = Tail(inbox) /\ raddr' = Head(inbox)
  /\ saddr' = IF echo_flag THEN Head(inbox) ELSE saddr
  /\ UNCHANGED <<echo_flag, filename, bound, filter>>

\* sendto gives the socket a port.
Write == bound' = TRUE /\ UNCHANGED <<link, filename, filter, inbox>>

SetEcho(b) == echo_flag' = b /\ UNCHANGED <<saddr, raddr, filename, socket>>

\* Calls that fail or only set options of the socket.
Quiet == UNCHANGED udpVars

Arrives(a) ==
  /\ bound /\ filter \in {a, NoAddr} /\ Len(inbox) < MaxInbox
  /\ inbox' = Append(inbox, a)
  /\ UNCHANGED <<link, filename, bound, filter>>
=============================================================================
