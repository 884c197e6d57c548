------------------------------ MODULE AtClient ------------------------------
(***************************************************************************)
(* The modems of the ME class, src/src/class/ldal_me.c, and the AT client, *)
(* src/src/at.c.  Two dialogues share a modem's port: at_obj_exec_cmd,     *)
(* under client->lock, and the short message of me_write, under the        *)
(* device->mutex of write_device.  All clients share send_buf.             *)
(*                                                                         *)
(* The body of at_client_parser is compiled out (#if 0): nobody posts      *)
(* resp_notice, and whoever waits for a response waits until its timeout.  *)
(***************************************************************************)
EXTENDS Naturals, Sequences

CONSTANTS
  Threads, Clients,
  Capacity,     \* AT_CMD_MAX_LEN
  Lengths,      \* the lengths of the commands the program sends
  MaxCalls,     \* bound: calls of the program
  NoThread, NoClient

ASSUME AtAssumption ==
  /\ Capacity \in Nat \ {0, 1} /\ Lengths \subseteq 1 .. Capacity - 1
  /\ MaxCalls \in Nat /\ NoThread \notin Threads /\ NoClient \notin Clients

VARIABLES
  used,               \* the clients the program has
  use,                \* what it does with them: "commands", "messages", "both"
  timely,             \* every modem answers before the sleeps of me_write end
  clock,              \* clock_gettime never fails
  lock, mutex,        \* client->lock, device->mutex
  resp,               \* the thread whose response client->resp is
  send_buf,           \* the command formatted last
  last_cmd_len,
  port,               \* what has been written to a modem and it has not taken
  answers,            \* what it has answered and nobody has read
  pc, client, cmd,    \* of each thread in a call: its step, modem and command
  waits,              \* whether it gave a response object
  calls               \* how many calls there have been

conditions == <<used, use, timely, clock>>
locks == <<lock, mutex>>
shared == <<send_buf, last_cmd_len>>
wires == <<port, answers>>
mine == <<client, cmd, waits>>
vars == <<conditions, locks, resp, shared, wires, pc, mine, calls>>

\* Written text: whose, which part of a dialogue, and of what length.
Text(t, what, len) == [by |-> t, what |-> what, len |-> len]
NoText == Text(NoThread, "command", 0)

Init ==
  /\ used \in SUBSET Clients \ {{}}
  /\ use \in {"commands", "messages", "both"} /\ timely \in BOOLEAN
  /\ clock \in BOOLEAN
  /\ lock = [c \in Clients |-> NoThread] /\ mutex = [c \in Clients |-> NoThread]
  /\ resp = [c \in Clients |-> NoThread]
  /\ send_buf = NoText /\ last_cmd_len = 0
  /\ port = [c \in Clients |-> <<>>] /\ answers = [c \in Clients |-> <<>>]
  /\ pc = [t \in Threads |-> "idle"]
  /\ client = [t \in Threads |-> NoClient]
  /\ cmd = [t \in Threads |-> NoText]
  /\ waits = [t \in Threads |-> FALSE] /\ calls = 0

Goto(t, l) == pc' = [pc EXCEPT ![t] = l]

\* The thread returns to the program.
Return(t) ==
  /\ Goto(t, "idle")
  /\ client' = [client EXCEPT ![t] = NoClient]
  /\ cmd' = [cmd EXCEPT ![t] = NoText]
  /\ waits' = [waits EXCEPT ![t] = FALSE]

\* write(): one call is taken by the port in one piece; "end" says whether it
\* ends what the modem takes for a line.
Write(t, text, end) ==
  /\ port' = [port EXCEPT ![client[t]] = Append(@, [text |-> text, end |-> end])]
  /\ UNCHANGED answers

-----------------------------------------------------------------------------
(* at_obj_exec_cmd                                                          *)

ExecCall(t) ==
  /\ use # "messages" /\ pc[t] = "idle" /\ calls < MaxCalls
  /\ \E c \in used, n \in Lengths, w \in BOOLEAN :
       /\ client' = [client EXCEPT ![t] = c]
       /\ cmd' = [cmd EXCEPT ![t] = Text(t, "command", n)]
       /\ waits' = [waits EXCEPT ![t] = w]
  /\ calls' = calls + 1
  /\ Goto(t, "lock")
  /\ UNCHANGED <<conditions, locks, resp, shared, wires>>

\* Seeded fault: client->lock is not taken.
NoLock(t) == TRUE

LockFree(t) == lock[client[t]] = NoThread

ExecLock(t) ==
  /\ pc[t] = "lock" /\ LockFree(t)
  /\ lock' = [lock EXCEPT ![client[t]] = t]
  /\ resp' = [resp EXCEPT ![client[t]] = IF waits[t] THEN t ELSE NoThread]
  /\ Goto(t, "format")
  /\ UNCHANGED <<conditions, mutex, shared, wires, mine, calls>>

LengthOf(text) == text.len

\* vsnprintf, then its result
ExecFormat(t) ==
  /\ pc[t] = "format"
  /\ send_buf' = cmd[t]
  /\ Goto(t, "length")
  /\ UNCHANGED <<conditions, locks, resp, last_cmd_len, wires, mine, calls>>

ExecLength(t) ==
  /\ pc[t] = "length"
  /\ last_cmd_len' = LengthOf(cmd[t])
  /\ Goto(t, "write")
  /\ UNCHANGED <<conditions, locks, resp, send_buf, wires, mine, calls>>

ExecWrite(t) ==
  /\ pc[t] = "write"
  /\ Write(t, [send_buf EXCEPT !.len = last_cmd_len], FALSE)
  /\ Goto(t, "end")
  /\ UNCHANGED <<conditions, locks, resp, shared, mine, calls>>

\* Seeded fault: only a caller that waits ends its command.
EndsIfWaiting(t) ==
  /\ pc[t] = "end"
  /\ IF waits[t] THEN Write(t, NoText, TRUE) ELSE UNCHANGED wires
  /\ Goto(t, IF waits[t] THEN "wait" ELSE "exit")
  /\ UNCHANGED <<conditions, locks, resp, shared, mine, calls>>

\* The terminator; a caller without a response object does not wait.
ExecEnd(t) ==
  /\ pc[t] = "end"
  /\ Write(t, NoText, TRUE)
  /\ Goto(t, IF waits[t] THEN "wait" ELSE "exit")
  /\ UNCHANGED <<conditions, locks, resp, shared, mine, calls>>

\* Seeded fault: a wait that timed out is begun again.
WaitsAgain(t) == pc[t] = "wait" /\ UNCHANGED vars

\* sem_timedwait can only time out.
ExecTimeout(t) ==
  /\ pc[t] = "wait"
  /\ Goto(t, "exit")
  /\ UNCHANGED <<conditions, locks, resp, shared, wires, mine, calls>>

\* Without the time no wait begins, and the call returns from where it stands:
\* with client->lock, and with client->resp on what the caller may now free.
ExecNoClock(t) ==
  /\ pc[t] = "wait" /\ ~clock
  /\ Return(t)
  /\ UNCHANGED <<conditions, locks, resp, shared, wires, calls>>

\* Seeded fault: the response stays with the client.
KeepsResp(t) ==
  /\ pc[t] = "exit" /\ Return(t)
  /\ lock' = [lock EXCEPT ![client[t]] = NoThread]
  /\ UNCHANGED <<conditions, mutex, resp, shared, wires, calls>>

\* __exit, after which the caller may free the response object
ExecExit(t) ==
  /\ pc[t] = "exit" /\ Return(t)
  /\ resp' = [resp EXCEPT ![client[t]] = NoThread]
  /\ lock' = [lock EXCEPT ![client[t]] = NoThread]
  /\ UNCHANGED <<conditions, mutex, shared, wires, calls>>

-----------------------------------------------------------------------------
(* write_device and me_ec25_send_messages                                   *)

MessageCall(t) ==
  /\ use # "commands" /\ pc[t] = "idle" /\ calls < MaxCalls
  /\ \E c \in used : client' = [client EXCEPT ![t] = c]
  /\ calls' = calls + 1
  /\ Goto(t, "mutex")
  /\ UNCHANGED <<conditions, locks, resp, shared, wires, cmd, waits>>

MessageLock(t) ==
  /\ pc[t] = "mutex" /\ mutex[client[t]] = NoThread
  /\ mutex' = [mutex EXCEPT ![client[t]] = t]
  /\ Goto(t, "CMGF")
  /\ UNCHANGED <<conditions, lock, resp, shared, wires, mine, calls>>

\* The mode, the length of the message, the message.
MessageWrite(t) ==
  /\ pc[t] \in {"CMGF", "CMGS", "PDU"}
  /\ Write(t, Text(t, pc[t], 1), TRUE)
  /\ Goto(t, CASE pc[t] = "CMGF" -> "mode" [] pc[t] = "CMGS" -> "prompt"
               [] OTHER -> "sent")
  /\ UNCHANGED <<conditions, locks, resp, shared, mine, calls>>

\* The sleep is over; a timely modem has taken all and answered by then.
Slept(t) == timely => port[client[t]] = <<>>

SaysOk(c) == \E i \in 1 .. Len(answers[c]) : answers[c][i].ok

\* read() on a port set to O_NONBLOCK: whatever is there.
ReadAll(c) == answers' = [answers EXCEPT ![c] = <<>>] /\ UNCHANGED port

\* Seeded fault: the answer is looked at and left where it is.
LooksOnly(t) ==
  /\ pc[t] = "mode" /\ Slept(t)
  /\ Goto(t, IF SaysOk(client[t]) THEN "CMGS" ELSE "done")
  /\ UNCHANGED <<conditions, locks, resp, shared, wires, mine, calls>>

MessageMode(t) ==
  /\ pc[t] = "mode" /\ Slept(t)
  /\ ReadAll(client[t])
  /\ Goto(t, IF SaysOk(client[t]) THEN "CMGS" ELSE "done")
  /\ UNCHANGED <<conditions, locks, resp, shared, mine, calls>>

\* What is read after the length and after the message is not looked at.
MessageRead(t) ==
  /\ pc[t] \in {"prompt", "sent"} /\ Slept(t)
  /\ ReadAll(client[t])
  /\ Goto(t, IF pc[t] = "prompt" THEN "PDU" ELSE "done")
  /\ UNCHANGED <<conditions, locks, resp, shared, mine, calls>>

MessageDone(t) ==
  /\ pc[t] = "done" /\ Return(t)
  /\ mutex' = [mutex EXCEPT ![client[t]] = NoThread]
  /\ UNCHANGED <<conditions, lock, resp, shared, wires, calls>>

\* read_device and me_read: one system call under the mutex
ReadDevice(c) ==
  /\ mutex[c] = NoThread /\ answers[c] # <<>>
  /\ ReadAll(c)
  /\ UNCHANGED <<conditions, locks, resp, shared, pc, mine, calls>>

-----------------------------------------------------------------------------
(* The modem takes a line at a time; what is not one text is no command.    *)

FirstLine(c, n) ==
  /\ n \in 1 .. Len(port[c]) /\ port[c][n].end
  /\ \A i \in 1 .. n - 1 : ~port[c][i].end

\* Those of the first n pieces that are not a terminator.
Spoken(c, n) == {i \in 1 .. n : port[c][i].text # NoText}

ModemTakes(c) ==
  \E n \in 1 .. Len(port[c]) :
    /\ FirstLine(c, n)
    /\ port' = [port EXCEPT ![c] = SubSeq(@, n + 1, Len(@))]
    /\ \/ Spoken(c, n) = {} /\ UNCHANGED answers
       \/ \E first \in Spoken(c, n), ok \in BOOLEAN :
            /\ \A i \in Spoken(c, n) : first <= i
            /\ ok => Spoken(c, n) = {first} /\ port[c][first].text.what # "CMGS"  \* a prompt
            /\ answers' = [answers EXCEPT ![c] =
                             Append(@, [to |-> port[c][first].text, ok |-> ok])]
    /\ UNCHANGED <<conditions, locks, resp, shared, pc, mine, calls>>

Exec(t) ==
  \/ ExecLock(t) \/ ExecFormat(t) \/ ExecLength(t) \/ ExecWrite(t)
  \/ ExecEnd(t) \/ ExecTimeout(t) \/ ExecNoClock(t) \/ ExecExit(t)

Message(t) ==
  \/ MessageLock(t) \/ MessageWrite(t) \/ MessageMode(t) \/ MessageRead(t)
  \/ MessageDone(t)

\* All calls have been made; where the clock has failed, some may wait for ever for
\* a lock that was left behind.
Done ==
  /\ \A t \in Threads :
       \/ pc[t] = "idle" /\ calls = MaxCalls
       \/ pc[t] = "lock" /\ ~clock
  /\ UNCHANGED vars

Next ==
  \/ \E t \in Threads :
       ExecCall(t) \/ MessageCall(t) \/ Exec(t) \/ Message(t)
  \/ \E c \in Clients : ReadDevice(c) \/ ModemTakes(c)
  \/ Done

Spec == Init /\ [][Next]_vars

\* A thread in a call runs on and its timeouts expire; a modem reads its port.
FairSpec ==
  /\ Spec
  /\ \A t \in Threads : WF_vars(Exec(t)) /\ WF_vars(Message(t))
  /\ \A c \in Clients : WF_vars(ModemTakes(c))

-----------------------------------------------------------------------------
(* Properties                                                               *)

Steps == {"idle", "lock", "format", "length", "write", "end", "wait", "exit",
          "mutex", "CMGF", "mode", "CMGS", "prompt", "PDU", "sent", "done"}
Texts == [by : Threads \cup {NoThread}, what : {"command", "CMGF", "CMGS", "PDU"},
          len : 0 .. Capacity - 1]
Pieces == [text : Texts, end : BOOLEAN]
Answers == [to : Texts, ok : BOOLEAN]

\* Every variable has its type; a length stays below the size of send_buf.
TypeOK ==
  /\ used \subseteq Clients /\ timely \in BOOLEAN /\ clock \in BOOLEAN
  /\ use \in {"commands", "messages", "both"}
  /\ lock \in [Clients -> Threads \cup {NoThread}]
  /\ mutex \in [Clients -> Threads \cup {NoThread}]
  /\ resp \in [Clients -> Threads \cup {NoThread}]
  /\ send_buf \in Texts /\ last_cmd_len \in 0 .. Capacity - 1
  /\ port \in [Clients -> Seq(Pieces)]
  /\ answers \in [Clients -> Seq(Answers)]
  /\ pc \in [Threads -> Steps] /\ client \in [Threads -> used \cup {NoClient}]
  /\ cmd \in [Threads -> Texts] /\ waits \in [Threads -> BOOLEAN]
  /\ calls \in 0 .. MaxCalls

\* client->resp is the object of the thread that holds the lock, so that no caller
\* can be given the response of another; and unless the clock fails (at.c:471) it
\* never dangles: it is gone before its caller returns and frees it.
RespOfCaller ==
  \A c \in Clients : resp[c] # NoThread =>
    /\ lock[c] = resp[c]
    /\ clock => /\ client[resp[c]] = c /\ waits[resp[c]]
                /\ pc[resp[c]] \in {"format", "length", "write", "end", "wait", "exit"}

\* In a program that sends no messages a modem is sent whole commands: behind
\* each comes its terminator, whichever threads share the modem.
WholeCommands ==
  use = "commands" =>
    \A c \in Clients : \A i \in 2 .. Len(port[c]) :
      port[c][i].end # port[c][i - 1].end

\* With one client, what goes out of send_buf is the command of the thread
\* that writes it, in its full length.
OwnCommandSent ==
  \A t \in Threads :
    pc[t] = "write" /\ used = {client[t]} =>
      send_buf = cmd[t] /\ last_cmd_len = cmd[t].len

\* A program that only sends messages, to modems that answer in time: the OK
\* a message goes on with is the one its own AT+CMGF has been given.
OwnOk ==
  [][use = "messages" /\ timely =>
       \A t \in Threads : pc[t] = "mode" /\ pc'[t] = "CMGS" =>
         \A i \in 1 .. Len(answers[client[t]]) :
           answers[client[t]][i].to = Text(t, "CMGF", 1)]_vars

\* Whatever the modems do, a thread gives back the mutex it has taken, and the
\* lock too unless the clock fails (at.c:471).
LocksReleased ==
  \A t \in Threads :
    LET Holds == \E c \in Clients : mutex[c] = t \/ (clock /\ lock[c] = t)
    IN  Holds ~> ~Holds
=============================================================================
