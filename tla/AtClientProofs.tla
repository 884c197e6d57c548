--------------------------- MODULE AtClientProofs ---------------------------
(***************************************************************************)
(* Theorems about AtClient, for any number of threads, modems, calls and   *)
(* lengths of commands.                                                    *)
(*                                                                         *)
(* Everything rests on who holds what: a thread in the body of             *)
(* at_obj_exec_cmd holds the lock of its client, one in the body of        *)
(* me_write the mutex of its device (Held); nobody else holds one, unless  *)
(* the clock has failed and a thread has left with its lock.  With that,   *)
(* the texts on a port and in send_buf can be followed back to one thread, *)
(* in programs that use one of the two dialogues.                          *)
(***************************************************************************)
EXTENDS AtClient, SequenceTheorems, TLAPS

\* Where a thread holds client->lock, and where device->mutex.
InExec == {"format", "length", "write", "end", "wait", "exit"}
InMessage == {"CMGF", "mode", "CMGS", "prompt", "PDU", "sent", "done"}

Held ==
  /\ \A t \in Threads :
       /\ pc[t] # "idle" => client[t] \in Clients
       /\ pc[t] \in InExec => lock[client[t]] = t
       /\ pc[t] \in InMessage => mutex[client[t]] = t
  /\ \A c \in Clients :
       /\ clock /\ lock[c] # NoThread => pc[lock[c]] \in InExec /\ client[lock[c]] = c
       /\ resp[c] # NoThread => resp[c] = lock[c] /\ (clock => waits[resp[c]])

-----------------------------------------------------------------------------
(* Types                                                                    *)

LEMMA TextTypes ==
  /\ NoText \in Texts
  /\ \A t \in Threads, what \in {"CMGF", "CMGS", "PDU"} : Text(t, what, 1) \in Texts
  /\ \A t \in Threads, n \in Lengths : Text(t, "command", n) \in Texts
  BY AtAssumption DEF Texts, NoText, Text

LEMMA FormattedTypes ==
  ASSUME TypeOK
  PROVE  [send_buf EXCEPT !.len = last_cmd_len] \in Texts
  BY DEF TypeOK, Texts

LEMMA WriteTypes ==
  ASSUME TypeOK, NEW t \in Threads, NEW text \in Texts, NEW end \in BOOLEAN,
         Write(t, text, end)
  PROVE  port' \in [Clients -> Seq(Pieces)] /\ answers' = answers
  <1> DEFINE piece == [text |-> text, end |-> end]
  <1>1. piece \in Pieces  BY DEF Pieces
  <1>2. port' = [port EXCEPT ![client[t]] = Append(@, piece)] /\ answers' = answers
    BY DEF Write
  <1> HIDE DEF piece
  <1>3. \A c \in Clients : Append(port[c], piece) \in Seq(Pieces)
    BY <1>1 DEF TypeOK
  <1> QED  BY <1>2, <1>3 DEF TypeOK

LEMMA ReturnTypes ==
  ASSUME TypeOK, NEW t \in Threads, Return(t)
  PROVE  /\ pc' \in [Threads -> Steps] /\ client' \in [Threads -> used \cup {NoClient}]
         /\ cmd' \in [Threads -> Texts] /\ waits' \in [Threads -> BOOLEAN]
  BY TextTypes DEF Return, Goto, TypeOK, Steps

LEMMA ReadTypes ==
  ASSUME TypeOK, NEW c, ReadAll(c)
  PROVE  answers' \in [Clients -> Seq(Answers)] /\ port' = port
  <1>1. << >> \in Seq(Answers)  BY EmptySeq
  <1> QED  BY <1>1 DEF ReadAll, TypeOK

LEMMA InitTypes == Init => TypeOK
  BY TextTypes, AtAssumption DEF Init, TypeOK, Steps

LEMMA ModemTypes ==
  ASSUME TypeOK, NEW c \in Clients, ModemTakes(c)
  PROVE  /\ port' \in [Clients -> Seq(Pieces)]
         /\ answers' \in [Clients -> Seq(Answers)]
  <1> PICK n \in 1 .. Len(port[c]) :
        /\ port' = [port EXCEPT ![c] = SubSeq(@, n + 1, Len(@))]
        /\ \/ Spoken(c, n) = {} /\ UNCHANGED answers
           \/ \E first \in Spoken(c, n), ok \in BOOLEAN :
                answers' = [answers EXCEPT ![c] =
                              Append(@, [to |-> port[c][first].text, ok |-> ok])]
    BY DEF ModemTakes
  <1>1. port[c] \in Seq(Pieces)  BY DEF TypeOK
  <1>2. SubSeq(port[c], n + 1, Len(port[c])) \in Seq(Pieces)
    BY <1>1
  <1>3. ASSUME NEW first \in Spoken(c, n), NEW ok \in BOOLEAN
        PROVE  [to |-> port[c][first].text, ok |-> ok] \in Answers
    <2>1. first \in 1 .. Len(port[c])  BY <1>1 DEF Spoken
    <2>2. port[c][first] \in Pieces  BY <1>1, <2>1
    <2> QED  BY <2>2 DEF Pieces, Answers
  <1>4. ASSUME NEW first \in Spoken(c, n), NEW ok \in BOOLEAN
        PROVE  Append(answers[c], [to |-> port[c][first].text, ok |-> ok]) \in Seq(Answers)
    <2> DEFINE answer == [to |-> port[c][first].text, ok |-> ok]
    <2>1. answer \in Answers  BY <1>3
    <2> HIDE DEF answer
    <2>3. answers[c] \in Seq(Answers)  BY DEF TypeOK
    <2>2. Append(answers[c], answer) \in Seq(Answers)  BY <2>1, <2>3, AppendProperties
    <2> QED  BY <2>2 DEF answer
  <1>5. port' \in [Clients -> Seq(Pieces)]  BY <1>2 DEF TypeOK
  <1>6. CASE UNCHANGED answers  BY <1>5, <1>6 DEF TypeOK
  <1>7. ASSUME NEW first \in Spoken(c, n), NEW ok \in BOOLEAN,
               answers' = [answers EXCEPT ![c] =
                             Append(@, [to |-> port[c][first].text, ok |-> ok])]
        PROVE  answers' \in [Clients -> Seq(Answers)]
    <2> DEFINE longer == Append(answers[c], [to |-> port[c][first].text, ok |-> ok])
    <2>1. longer \in Seq(Answers)  BY <1>4
    <2>2. answers' = [answers EXCEPT ![c] = longer]  BY <1>7
    <2> HIDE DEF longer
    <2> QED  BY <2>1, <2>2 DEF TypeOK
  <1> QED  BY <1>5, <1>6, <1>7

LEMMA StepTypes == TypeOK /\ [Next]_vars => TypeOK'
  <1> SUFFICES ASSUME TypeOK, [Next]_vars PROVE TypeOK'  OBVIOUS
  <1> USE AtAssumption, TextTypes DEF conditions, locks, shared, wires, mine, Goto
  <1>1. ASSUME NEW t \in Threads, ExecCall(t)  PROVE TypeOK'
    BY <1>1 DEF ExecCall, TypeOK, Steps
  <1>2. ASSUME NEW t \in Threads, MessageCall(t)  PROVE TypeOK'
    BY <1>2 DEF MessageCall, TypeOK, Steps
  <1>3. ASSUME NEW t \in Threads, ExecLock(t)  PROVE TypeOK'
    BY <1>3 DEF ExecLock, TypeOK, Steps
  <1>4. ASSUME NEW t \in Threads, ExecFormat(t)  PROVE TypeOK'
    BY <1>4 DEF ExecFormat, TypeOK, Steps
  <1>5. ASSUME NEW t \in Threads, ExecLength(t)  PROVE TypeOK'
    <2>1. cmd[t].len \in 0 .. Capacity - 1  BY DEF TypeOK, Texts
    <2> QED  BY <1>5, <2>1 DEF ExecLength, LengthOf, TypeOK, Steps
  <1>6. ASSUME NEW t \in Threads, ExecWrite(t)  PROVE TypeOK'
    <2>1. port' \in [Clients -> Seq(Pieces)] /\ answers' = answers
      BY <1>6, FormattedTypes, WriteTypes DEF ExecWrite
    <2> QED  BY <1>6, <2>1 DEF ExecWrite, TypeOK, Steps
  <1>7. ASSUME NEW t \in Threads, ExecEnd(t)  PROVE TypeOK'
    <2>1. port' \in [Clients -> Seq(Pieces)] /\ answers' = answers
      BY <1>7, WriteTypes DEF ExecEnd
    <2> QED  BY <1>7, <2>1 DEF ExecEnd, TypeOK, Steps
  <1>8. ASSUME NEW t \in Threads, ExecTimeout(t)  PROVE TypeOK'
    BY <1>8 DEF ExecTimeout, TypeOK, Steps
  <1>9. ASSUME NEW t \in Threads, ExecExit(t)  PROVE TypeOK'
    BY <1>9, ReturnTypes DEF ExecExit, TypeOK
  <1>10. ASSUME NEW t \in Threads, MessageLock(t)  PROVE TypeOK'
    BY <1>10 DEF MessageLock, TypeOK, Steps
  <1>11. ASSUME NEW t \in Threads, MessageWrite(t)  PROVE TypeOK'
    <2>1. port' \in [Clients -> Seq(Pieces)] /\ answers' = answers
      BY <1>11, WriteTypes DEF MessageWrite
    <2> QED  BY <1>11, <2>1 DEF MessageWrite, TypeOK, Steps
  <1>12. ASSUME NEW t \in Threads, MessageMode(t)  PROVE TypeOK'
    BY <1>12, ReadTypes DEF MessageMode, TypeOK, Steps
  <1>13. ASSUME NEW t \in Threads, MessageRead(t)  PROVE TypeOK'
    BY <1>13, ReadTypes DEF MessageRead, TypeOK, Steps
  <1>14. ASSUME NEW t \in Threads, MessageDone(t)  PROVE TypeOK'
    BY <1>14, ReturnTypes DEF MessageDone, TypeOK
  <1>15. ASSUME NEW c \in Clients, ReadDevice(c)  PROVE TypeOK'
    BY <1>15, ReadTypes DEF ReadDevice, TypeOK
  <1>16. ASSUME NEW c \in Clients, ModemTakes(c)  PROVE TypeOK'
    BY <1>16, ModemTypes DEF ModemTakes, TypeOK
  <1>17. ASSUME NEW t \in Threads, ExecNoClock(t)  PROVE TypeOK'
    BY <1>17, ReturnTypes DEF ExecNoClock, TypeOK
  <1>18. CASE UNCHANGED vars
    BY <1>18 DEF vars, TypeOK
  <1> QED
    BY <1>1, <1>2, <1>3, <1>4, <1>5, <1>6, <1>7, <1>8, <1>9, <1>10, <1>11, <1>12,
       <1>13, <1>14, <1>15, <1>16, <1>17, <1>18
    DEF Next, Exec, Message, Done

\* The variables of the AT client keep their types; every length stays within
\* send_buf.
THEOREM AtTypeCorrect == Spec => []TypeOK
  BY InitTypes, StepTypes, PTL DEF Spec

-----------------------------------------------------------------------------
(* Locks and responses                                                      *)

LEMMA InitHeld == Init => Held
  BY AtAssumption DEF Init, Held, InExec, InMessage

LEMMA StepHeld == TypeOK /\ Held /\ [Next]_vars => Held'
  <1> SUFFICES ASSUME TypeOK, Held, [Next]_vars PROVE Held'  OBVIOUS
  <1> USE AtAssumption
      DEF conditions, locks, shared, wires, mine, Goto, InExec, InMessage
  <1>1. ASSUME NEW t \in Threads, ExecCall(t)  PROVE Held'
    <2>1. clock => \A c \in Clients : lock[c] # t  BY <1>1 DEF ExecCall, Held
    <2> QED  BY <1>1, <2>1 DEF ExecCall, TypeOK, Held
  <1>2. ASSUME NEW t \in Threads, MessageCall(t)  PROVE Held'
    <2>1. clock => \A c \in Clients : lock[c] # t  BY <1>2 DEF MessageCall, Held
    <2> QED  BY <1>2, <2>1 DEF MessageCall, TypeOK, Held
  <1>3. ASSUME NEW t \in Threads, ExecLock(t)  PROVE Held'
    <2>1. client[t] \in Clients /\ lock[client[t]] = NoThread
      BY <1>3 DEF ExecLock, LockFree, Held
    <2>2. clock => \A c \in Clients : lock[c] # t  BY <1>3 DEF ExecLock, Held
    <2> QED  BY <1>3, <2>1, <2>2 DEF ExecLock, TypeOK, Held
  <1>4. ASSUME NEW t \in Threads,
               ExecFormat(t) \/ ExecLength(t) \/ ExecWrite(t) \/ ExecEnd(t) \/ ExecTimeout(t)
        PROVE  Held'
    <2>1. /\ pc[t] \in InExec /\ \E l \in InExec : pc' = [pc EXCEPT ![t] = l]
          /\ UNCHANGED <<clock, locks, resp, client, waits>>
      BY <1>4 DEF ExecFormat, ExecLength, ExecWrite, ExecEnd, ExecTimeout
    <2> QED  BY <2>1 DEF TypeOK, Held
  <1>5. ASSUME NEW t \in Threads, ExecExit(t)  PROVE Held'
    <2>1. client[t] \in Clients /\ lock[client[t]] = t
      BY <1>5 DEF ExecExit, Held
    <2>2. \A u \in Threads \ {t} : pc[u] \in InExec => client[u] # client[t]
      BY <2>1 DEF Held
    <2>3. clock => \A c \in Clients \ {client[t]} : lock[c] # t
      BY <1>5 DEF ExecExit, Held
    <2> QED  BY <1>5, <2>1, <2>2, <2>3 DEF ExecExit, Return, TypeOK, Held
  <1>6. ASSUME NEW t \in Threads, MessageLock(t)  PROVE Held'
    <2>1. client[t] \in Clients /\ mutex[client[t]] = NoThread
          /\ (clock => \A c \in Clients : lock[c] # t)
      BY <1>6 DEF MessageLock, Held
    <2> QED  BY <1>6, <2>1 DEF MessageLock, TypeOK, Held
  <1>7. ASSUME NEW t \in Threads, MessageWrite(t) \/ MessageMode(t) \/ MessageRead(t)
        PROVE  Held'
    <2>1. /\ pc[t] \in InMessage /\ \E l \in InMessage : pc' = [pc EXCEPT ![t] = l]
          /\ UNCHANGED <<clock, locks, resp, client, waits>>
      BY <1>7 DEF MessageWrite, MessageMode, MessageRead
    <2> QED  BY <2>1 DEF TypeOK, Held
  <1>8. ASSUME NEW t \in Threads, MessageDone(t)  PROVE Held'
    <2>1. client[t] \in Clients /\ mutex[client[t]] = t
          /\ (clock => \A c \in Clients : lock[c] # t)
      BY <1>8 DEF MessageDone, Held
    <2>2. \A u \in Threads \ {t} : pc[u] \in InMessage => client[u] # client[t]
      BY <2>1 DEF Held
    <2> QED  BY <1>8, <2>1, <2>2 DEF MessageDone, Return, TypeOK, Held
  <1>9. ASSUME NEW c \in Clients, ReadDevice(c) \/ ModemTakes(c)  PROVE Held'
    <2>1. UNCHANGED <<clock, locks, resp, pc, client, waits>>
      BY <1>9 DEF ReadDevice, ModemTakes
    <2> QED  BY <2>1 DEF Held
  <1>10. ASSUME NEW t \in Threads, ExecNoClock(t)  PROVE Held'
    <2>1. ~clock /\ pc' = [pc EXCEPT ![t] = "idle"]
          /\ client' = [client EXCEPT ![t] = NoClient]
          /\ UNCHANGED <<clock, lock, mutex, resp>>
      BY <1>10 DEF ExecNoClock, Return
    <2>2. pc'[t] = "idle" /\ \A u \in Threads \ {t} : pc'[u] = pc[u] /\ client'[u] = client[u]
      BY <2>1 DEF TypeOK
    <2> QED  BY <2>1, <2>2 DEF Held
  <1>11. CASE UNCHANGED vars
    BY <1>11 DEF vars, Held
  <1> QED
    BY <1>1, <1>2, <1>3, <1>4, <1>5, <1>6, <1>7, <1>8, <1>9, <1>10, <1>11
    DEF Next, Exec, Message, Done

\* RespOfCaller: whatever threads share whatever modems, client->resp belongs to the
\* thread that holds the lock, even if the clock fails; and if it does not,
\* client->resp never outlives the call it was given for.
THEOREM ResponsesStayWithCallers == Spec => []RespOfCaller
  <1>1. TypeOK /\ Held => RespOfCaller
    BY DEF TypeOK, Held, RespOfCaller, InExec
  <1> QED  BY <1>1, InitTypes, StepTypes, InitHeld, StepHeld, PTL DEF Spec

-----------------------------------------------------------------------------
(* The command in send_buf                                                  *)

\* With one modem, nobody formats a command between another's and its write.
OwnFormatted ==
  \A t \in Threads : used = {client[t]} =>
    /\ pc[t] \in {"length", "write"} => send_buf = cmd[t]
    /\ pc[t] = "write" => last_cmd_len = cmd[t].len

LEMMA AloneInExec ==
  ASSUME TypeOK, Held, NEW t \in Threads, NEW u \in Threads, used = {client[t]},
         pc[t] \in InExec, pc[u] \in InExec
  PROVE  t = u
  <1>1. client[u] = client[t]
    BY AtAssumption DEF TypeOK, Held, InExec
  <1> QED  BY <1>1 DEF Held

LEMMA StepFormatted == TypeOK /\ Held /\ OwnFormatted /\ [Next]_vars => OwnFormatted'
  <1> SUFFICES ASSUME TypeOK, Held, OwnFormatted, [Next]_vars, NEW t \in Threads,
                      used' = {client'[t]}, pc'[t] \in {"length", "write"}
               PROVE  /\ send_buf' = cmd'[t]
                      /\ pc'[t] = "write" => last_cmd_len' = cmd'[t].len
    BY DEF OwnFormatted
  <1> USE DEF conditions, locks, shared, wires, mine, Goto
  <1>a. used' = used
    BY DEF Next, vars, Exec, Message, Done, ExecCall, MessageCall, ExecLock, ExecFormat,
           ExecLength, ExecWrite, ExecEnd, ExecTimeout, ExecNoClock, ExecExit,
           MessageLock, MessageWrite, MessageMode, MessageRead, MessageDone, ReadDevice, ModemTakes
  <1>1. CASE ExecFormat(t)
    BY <1>1 DEF ExecFormat, TypeOK
  <1>2. CASE ExecLength(t)
    BY <1>2, <1>a DEF ExecLength, LengthOf, OwnFormatted, TypeOK
  <1>3. ASSUME NEW u \in Threads \ {t}, ExecFormat(u) \/ ExecLength(u)  PROVE FALSE
    <2>1. pc[u] \in InExec /\ pc[t] = pc'[t] /\ client'[t] = client[t]
      BY <1>3 DEF ExecFormat, ExecLength, InExec, TypeOK
    <2> QED  BY <2>1, <1>a, AloneInExec DEF InExec
  <1>4. ASSUME NEW u \in Threads,
               \/ ExecCall(u) \/ MessageCall(u) \/ ExecLock(u) \/ ExecWrite(u) \/ ExecEnd(u)
               \/ ExecTimeout(u) \/ ExecNoClock(u) \/ ExecExit(u)
               \/ MessageLock(u) \/ MessageWrite(u)
               \/ MessageMode(u) \/ MessageRead(u) \/ MessageDone(u)
        PROVE  /\ UNCHANGED <<send_buf, last_cmd_len>>
               /\ u # t /\ pc'[t] = pc[t] /\ client'[t] = client[t] /\ cmd'[t] = cmd[t]
    <2>1. CASE ExecCall(u)  BY <2>1, <1>a DEF TypeOK, ExecCall
    <2>2. CASE MessageCall(u)  BY <2>2, <1>a DEF TypeOK, MessageCall
    <2>3. CASE ExecLock(u) \/ ExecWrite(u) \/ ExecEnd(u) \/ ExecTimeout(u)
      BY <2>3, <1>a DEF TypeOK, ExecLock, ExecWrite, ExecEnd, ExecTimeout
    <2>4. CASE ExecNoClock(u) \/ ExecExit(u) \/ MessageDone(u)
      BY <2>4, <1>a DEF TypeOK, ExecNoClock, ExecExit, MessageDone, Return
    <2>5. CASE MessageLock(u) \/ MessageWrite(u)
      BY <2>5, <1>a DEF TypeOK, MessageLock, MessageWrite
    <2>6. CASE MessageMode(u) \/ MessageRead(u)
      BY <2>6, <1>a DEF TypeOK, MessageMode, MessageRead
    <2> QED  BY <1>4, <2>1, <2>2, <2>3, <2>4, <2>5, <2>6
  <1>5. ASSUME NEW c \in Clients, ReadDevice(c) \/ ModemTakes(c)
        PROVE  UNCHANGED <<send_buf, last_cmd_len, pc, client, cmd>>
    BY <1>5 DEF ReadDevice, ModemTakes
  <1>6. CASE UNCHANGED <<send_buf, last_cmd_len>>
             /\ pc'[t] = pc[t] /\ client'[t] = client[t] /\ cmd'[t] = cmd[t]
    BY <1>6, <1>a DEF OwnFormatted
  <1> QED
    BY <1>1, <1>2, <1>3, <1>4, <1>5, <1>6 DEF Next, Exec, Message, Done, vars

\* OwnCommandSent: any number of threads may send commands to one modem, and each
\* sends its own.
THEOREM OwnCommandsSent == Spec => []OwnCommandSent
  <1>1. Init => OwnFormatted  BY DEF Init, OwnFormatted
  <1>2. OwnFormatted => OwnCommandSent  BY DEF OwnFormatted, OwnCommandSent
  <1> QED
    BY <1>1, <1>2, InitTypes, StepTypes, InitHeld, StepHeld, StepFormatted, PTL DEF Spec

-----------------------------------------------------------------------------
(* Whole commands                                                           *)

Alternate(s) == \A i \in 2 .. Len(s) : s[i].end # s[i - 1].end

\* A thread has written its command to c and is about to end it.
Ending(c) == \E t \in Threads : pc[t] = "end" /\ client[t] = c

\* A port ends with a command that lacks its terminator exactly while a thread is
\* about to write that.
WholeSoFar ==
  use = "commands" =>
    /\ \A t \in Threads : pc[t] \in {"idle", "lock"} \cup InExec
    /\ \A c \in Clients :
         /\ Alternate(port[c])
         /\ Ending(c) <=> port[c] # << >> /\ ~port[c][Len(port[c])].end

\* One more piece of the other kind.
LEMMA AlternateAppend ==
  ASSUME NEW s \in Seq(Pieces), NEW piece \in Pieces, Alternate(s),
         s = << >> \/ s[Len(s)].end # piece.end
  PROVE  /\ Alternate(Append(s, piece)) /\ Append(s, piece) # << >>
         /\ Append(s, piece)[Len(Append(s, piece))] = piece
  <1>1. /\ Len(Append(s, piece)) = Len(s) + 1
        /\ \A i \in 1 .. Len(s) : Append(s, piece)[i] = s[i]
        /\ Append(s, piece)[Len(s) + 1] = piece
    BY AppendProperties
  <1>2. Len(s) \in Nat /\ (s = << >> <=> Len(s) = 0)  BY EmptySeq
  <1>3. ASSUME NEW i \in 2 .. Len(s) + 1
        PROVE  Append(s, piece)[i].end # Append(s, piece)[i - 1].end
    BY <1>1, <1>2, <1>3 DEF Alternate
  <1>4. Alternate(Append(s, piece))  BY <1>1, <1>3 DEF Alternate
  <1>5. Append(s, piece) # << >>
    <2>1. Len(<< >>) = 0  OBVIOUS
    <2> QED  BY <2>1, <1>1, <1>2
  <1>6. Append(s, piece)[Len(Append(s, piece))] = piece  BY <1>1
  <1> QED  BY <1>4, <1>5, <1>6

\* What is left when the modem has taken n pieces.
LEMMA AlternateRest ==
  ASSUME NEW s \in Seq(Pieces), NEW n \in 1 .. Len(s), Alternate(s), s[n].end
  PROVE  LET rest == SubSeq(s, n + 1, Len(s))
         IN  /\ Alternate(rest)
             /\ (rest # << >> /\ ~rest[Len(rest)].end) <=> ~s[Len(s)].end
  <1> DEFINE rest == SubSeq(s, n + 1, Len(s))
  <1>1. /\ rest \in Seq(Pieces)
        /\ Len(rest) = Len(s) - n
        /\ \A i \in 1 .. Len(s) - n : rest[i] = s[n + i]
    <2>1. \A i \in n + 1 .. Len(s) : s[i] \in Pieces  BY ElementOfSeq
    <2> QED  BY <2>1, SubSeqProperties
  <1>2. rest = << >> <=> Len(rest) = 0  BY <1>1, EmptySeq
  <1> HIDE DEF rest
  <1>3. Alternate(rest)
    <2> SUFFICES ASSUME NEW i \in 2 .. Len(rest)  PROVE rest[i].end # rest[i - 1].end
      BY DEF Alternate
    <2>1. n \in Nat /\ i \in Nat /\ Len(s) \in Nat /\ n + i - 1 = n + (i - 1)
      OBVIOUS
    <2>2. i \in 1 .. Len(s) - n /\ i - 1 \in 1 .. Len(s) - n /\ n + i \in 2 .. Len(s)
      BY <1>1, <2>1
    <2>3. rest[i] = s[n + i] /\ rest[i - 1] = s[n + i - 1]
      <3>1. \A j \in 1 .. Len(s) - n : rest[j] = s[n + j]  BY <1>1
      <3> QED  BY <2>1, <2>2, <3>1
    <2> QED  BY <2>2, <2>3 DEF Alternate
  <1>4. (rest # << >> /\ ~rest[Len(rest)].end) <=> ~s[Len(s)].end
    <2>1. CASE n = Len(s)
      BY <1>1, <1>2, <2>1
    <2>2. CASE n < Len(s)
      <3>0. /\ Len(s) \in Nat /\ n \in Nat /\ Len(s) - n \in 1 .. Len(s) - n
            /\ n + (Len(s) - n) = Len(s) /\ Len(s) - n # 0
        BY <2>2
      <3>1. rest[Len(rest)] = s[Len(s)] /\ Len(rest) # 0  BY <1>1, <3>0
      <3> QED  BY <3>1, <1>2
    <2> QED  BY <2>1, <2>2
  <1> QED  BY <1>3, <1>4 DEF rest

\* Nobody else is about to end a command where t is in the body of at_obj_exec_cmd.
LEMMA AloneEnding ==
  ASSUME TypeOK, Held, NEW t \in Threads, pc[t] \in InExec
  PROVE  /\ client[t] \in Clients
         /\ \A u \in Threads : pc[u] = "end" /\ client[u] = client[t] => u = t
  BY DEF Held, InExec

LEMMA StepWhole ==
  TypeOK /\ Held /\ WholeSoFar /\ [Next]_vars => WholeSoFar'
  <1> SUFFICES ASSUME TypeOK, Held, WholeSoFar, [Next]_vars, use' = "commands"
               PROVE  WholeSoFar'
    BY DEF WholeSoFar
  <1>a. use = "commands"
    BY DEF Next, vars, conditions, Exec, Message, Done, ExecCall, MessageCall, ExecLock,
           ExecFormat, ExecLength, ExecWrite, ExecEnd, ExecTimeout, ExecNoClock, ExecExit,
           MessageLock, MessageWrite, MessageMode, MessageRead, MessageDone, ReadDevice, ModemTakes
  <1>b. /\ \A t \in Threads : pc[t] \in {"idle", "lock"} \cup InExec
        /\ \A c \in Clients :
             /\ Alternate(port[c])
             /\ Ending(c) <=> port[c] # << >> /\ ~port[c][Len(port[c])].end
    BY <1>a DEF WholeSoFar
  <1> USE DEF Goto
  <1>1. ASSUME NEW t \in Threads,
               ExecCall(t) \/ ExecLock(t) \/ ExecFormat(t) \/ ExecLength(t)
               \/ ExecTimeout(t) \/ ExecNoClock(t) \/ ExecExit(t)
        PROVE  WholeSoFar'
    <2>1. /\ port' = port
          /\ pc[t] # "end" /\ \E l \in ({"idle", "lock"} \cup InExec) \ {"end"} :
                                pc' = [pc EXCEPT ![t] = l]
          /\ \A u \in Threads \ {t} : client'[u] = client[u]
      BY <1>1 DEF TypeOK, wires, mine, InExec, Return, ExecCall, ExecLock, ExecFormat,
                  ExecLength, ExecTimeout, ExecNoClock, ExecExit
    <2>2. /\ \A u \in Threads : pc'[u] \in {"idle", "lock"} \cup InExec
          /\ \A u \in Threads : pc'[u] = "end" <=> pc[u] = "end"
          /\ pc'[t] # "end"
      BY <2>1, <1>b DEF TypeOK
    <2>3. \A c \in Clients : Ending(c)' <=> Ending(c)
      BY <2>1, <2>2 DEF Ending
    <2> QED  BY <2>1, <2>2, <2>3, <1>b DEF WholeSoFar, Alternate
  <1>2. ASSUME NEW t \in Threads, ExecWrite(t)  PROVE WholeSoFar'
    <2> DEFINE text == [send_buf EXCEPT !.len = last_cmd_len]
               piece == [text |-> text, end |-> FALSE]
    <2>1. /\ pc[t] = "write" /\ pc' = [pc EXCEPT ![t] = "end"] /\ client' = client
          /\ port' = [port EXCEPT ![client[t]] = Append(@, piece)]
      BY <1>2 DEF ExecWrite, Write, mine
    <2>2. piece \in Pieces /\ piece.end = FALSE
      BY FormattedTypes DEF Pieces
    <2> HIDE DEF piece
    <2>3. client[t] \in Clients /\ ~Ending(client[t])
      BY <2>1, AloneEnding DEF Ending, InExec
    <2>4. port[client[t]] = << >> \/ port[client[t]][Len(port[client[t]])].end # piece.end
      BY <2>2, <2>3, <1>b
    <2>5. port[client[t]] \in Seq(Pieces)  BY <2>3 DEF TypeOK
    <2>6. /\ Alternate(Append(port[client[t]], piece))
          /\ Append(port[client[t]], piece) # << >>
          /\ Append(port[client[t]], piece)[Len(Append(port[client[t]], piece))] = piece
      BY <2>2, <2>3, <2>4, <2>5, <1>b, AlternateAppend
    <2>7. /\ \A u \in Threads : pc'[u] \in {"idle", "lock"} \cup InExec
          /\ \A c \in Clients : IF c = client[t] THEN Ending(c)' ELSE Ending(c)' <=> Ending(c)
      BY <2>1, <1>b DEF Ending, TypeOK, InExec
    <2>8. /\ port'[client[t]] = Append(port[client[t]], piece)
          /\ \A c \in Clients \ {client[t]} : port'[c] = port[c]
      BY <2>1, <2>3 DEF TypeOK
    <2>9. ASSUME NEW c \in Clients
          PROVE  /\ Alternate(port'[c])
                 /\ Ending(c)' <=> port'[c] # << >> /\ ~port'[c][Len(port'[c])].end
      <3>1. CASE c = client[t]  BY <3>1, <2>2, <2>6, <2>7, <2>8
      <3>2. CASE c # client[t]  BY <3>2, <2>7, <2>8, <1>b
      <3> QED  BY <3>1, <3>2
    <2> QED  BY <2>7, <2>9 DEF WholeSoFar, Alternate
  <1>3. ASSUME NEW t \in Threads, ExecEnd(t)  PROVE WholeSoFar'
    <2> DEFINE piece == [text |-> NoText, end |-> TRUE]
    <2>1. /\ pc[t] = "end" /\ client' = client
          /\ \E l \in {"wait", "exit"} : pc' = [pc EXCEPT ![t] = l]
          /\ port' = [port EXCEPT ![client[t]] = Append(@, piece)]
      BY <1>3 DEF ExecEnd, Write, mine
    <2>2. piece \in Pieces /\ piece.end = TRUE
      BY TextTypes DEF Pieces
    <2> HIDE DEF piece
    <2>3. client[t] \in Clients /\ Ending(client[t])
      BY <2>1, AloneEnding DEF Ending, InExec
    <2>4. port[client[t]][Len(port[client[t]])].end # piece.end
      BY <2>2, <2>3, <1>b
    <2>5. port[client[t]] \in Seq(Pieces)  BY <2>3 DEF TypeOK
    <2>6. /\ Alternate(Append(port[client[t]], piece))
          /\ Append(port[client[t]], piece) # << >>
          /\ Append(port[client[t]], piece)[Len(Append(port[client[t]], piece))] = piece
      BY <2>2, <2>3, <2>4, <2>5, <1>b, AlternateAppend
    <2>7. /\ \A u \in Threads : pc'[u] \in {"idle", "lock"} \cup InExec
          /\ \A u \in Threads \ {t} : pc'[u] = pc[u]
          /\ pc'[t] # "end"
      BY <2>1, <1>b DEF TypeOK, InExec
    <2>8. \A c \in Clients : IF c = client[t] THEN ~Ending(c)' ELSE Ending(c)' <=> Ending(c)
      BY <2>1, <2>7, AloneEnding DEF Ending, InExec
    <2>9. /\ port'[client[t]] = Append(port[client[t]], piece)
          /\ \A c \in Clients \ {client[t]} : port'[c] = port[c]
      BY <2>1, <2>3 DEF TypeOK
    <2>10. ASSUME NEW c \in Clients
           PROVE  /\ Alternate(port'[c])
                  /\ Ending(c)' <=> port'[c] # << >> /\ ~port'[c][Len(port'[c])].end
      <3>1. CASE c = client[t]  BY <3>1, <2>2, <2>6, <2>8, <2>9
      <3>2. CASE c # client[t]  BY <3>2, <2>8, <2>9, <1>b
      <3> QED  BY <3>1, <3>2
    <2> QED  BY <2>7, <2>10 DEF WholeSoFar, Alternate
  <1>4. ASSUME NEW c \in Clients, ModemTakes(c)  PROVE WholeSoFar'
    <2> PICK n \in 1 .. Len(port[c]) :
          FirstLine(c, n) /\ port' = [port EXCEPT ![c] = SubSeq(@, n + 1, Len(@))]
      BY <1>4 DEF ModemTakes
    <2> DEFINE rest == SubSeq(port[c], n + 1, Len(port[c]))
    <2>1. port[c] \in Seq(Pieces) /\ Alternate(port[c]) /\ port[c][n].end
      BY <1>b DEF TypeOK, FirstLine
    <2>2. /\ Alternate(rest)
          /\ (rest # << >> /\ ~rest[Len(rest)].end) <=> ~port[c][Len(port[c])].end
      BY <2>1, AlternateRest
    <2>3. port[c] # << >>
      <3>1. Len(<< >>) = 0  OBVIOUS
      <3> QED  BY <3>1
    <2>4. UNCHANGED <<pc, client>>  BY <1>4 DEF ModemTakes, mine
    <2>5. \A d \in Clients : Ending(d)' <=> Ending(d)
      BY <2>4 DEF Ending
    <2>6. port'[c] = rest /\ \A d \in Clients \ {c} : port'[d] = port[d]
      BY DEF TypeOK
    <2> HIDE DEF rest
    <2>7. ASSUME NEW d \in Clients
          PROVE  /\ Alternate(port'[d])
                 /\ Ending(d)' <=> port'[d] # << >> /\ ~port'[d][Len(port'[d])].end
      <3>1. CASE d = c  BY <3>1, <2>2, <2>3, <2>5, <2>6, <1>b
      <3>2. CASE d # c  BY <3>2, <2>5, <2>6, <1>b
      <3> QED  BY <3>1, <3>2
    <2> QED  BY <2>4, <2>7, <1>b DEF WholeSoFar, Alternate
  <1>5. ASSUME NEW c \in Clients, ReadDevice(c)  PROVE WholeSoFar'
    <2>1. UNCHANGED <<port, pc, client>>  BY <1>5 DEF ReadDevice, ReadAll, mine
    <2> QED  BY <2>1, <1>b DEF WholeSoFar, Alternate, Ending
  <1>6. ASSUME NEW t \in Threads, MessageCall(t) \/ Message(t)  PROVE FALSE
    BY <1>6, <1>a, <1>b
    DEF InExec, MessageCall, Message, MessageLock, MessageWrite, MessageMode, MessageRead,
        MessageDone
  <1>7. CASE UNCHANGED vars
    BY <1>7, <1>b DEF vars, wires, mine, WholeSoFar, Alternate, Ending
  <1> QED
    BY <1>1, <1>2, <1>3, <1>4, <1>5, <1>6, <1>7 DEF Next, Exec, Done

\* WholeCommands: in a program that sends no messages, any number of threads may share
\* any number of modems, and each command is followed by its own terminator.
THEOREM CommandsStayWhole == Spec => []WholeCommands
  <1>1. Init => WholeSoFar
    <2>1. Len(<< >>) = 0  OBVIOUS
    <2> QED  BY <2>1 DEF Init, WholeSoFar, Alternate, Ending
  <1>2. WholeSoFar => WholeCommands
    BY DEF WholeSoFar, WholeCommands, Alternate
  <1> QED
    BY <1>1, <1>2, InitTypes, StepTypes, InitHeld, StepHeld, StepWhole, PTL DEF Spec

-----------------------------------------------------------------------------
(* The OK of a message                                                      *)

\* All that is on the wires of c, either way, is t's AT+CMGF.
OnlyModeOf(t, c) ==
  /\ \A i \in 1 .. Len(port[c]) : port[c][i].text = Text(t, "CMGF", 1)
  /\ \A i \in 1 .. Len(answers[c]) : answers[c][i].to = Text(t, "CMGF", 1)

\* A modem that answers in time has nothing left to take or to be read wherever
\* nobody waits for it.
QuietWires ==
  use = "messages" /\ timely =>
    /\ \A t \in Threads : pc[t] \in {"idle", "mutex"} \cup InMessage
    /\ \A t \in Threads : pc[t] \in {"CMGF", "CMGS", "PDU", "done"} =>
         port[client[t]] = << >> /\ answers[client[t]] = << >>
    /\ \A t \in Threads : pc[t] = "mode" => OnlyModeOf(t, client[t])
    /\ \A c \in Clients :
         (\A t \in Threads : pc[t] \in InMessage => client[t] # c) =>
           port[c] = << >> /\ answers[c] = << >>

\* Two threads in the body of me_write talk to two modems.
LEMMA OneMessageEach ==
  ASSUME TypeOK, Held, NEW t \in Threads, pc[t] \in InMessage
  PROVE  /\ client[t] \in Clients
         /\ \A u \in Threads : pc[u] \in InMessage /\ client[u] = client[t] => u = t
  BY DEF Held, InMessage

LEMMA StepQuiet ==
  TypeOK /\ Held /\ QuietWires /\ [Next]_vars => QuietWires'
  <1> SUFFICES ASSUME TypeOK, Held, QuietWires, [Next]_vars,
                      use' = "messages", timely' = TRUE
               PROVE  QuietWires'
    BY DEF QuietWires
  <1>a. use = "messages" /\ timely = TRUE
    BY DEF Next, vars, conditions, Exec, Message, Done, ExecCall, MessageCall, ExecLock,
           ExecFormat, ExecLength, ExecWrite, ExecEnd, ExecTimeout, ExecNoClock, ExecExit,
           MessageLock, MessageWrite, MessageMode, MessageRead, MessageDone, ReadDevice, ModemTakes
  <1>b. /\ \A t \in Threads : pc[t] \in {"idle", "mutex"} \cup InMessage
        /\ \A t \in Threads : pc[t] \in {"CMGF", "CMGS", "PDU", "done"} =>
             port[client[t]] = << >> /\ answers[client[t]] = << >>
        /\ \A t \in Threads : pc[t] = "mode" => OnlyModeOf(t, client[t])
        /\ \A c \in Clients :
             (\A t \in Threads : pc[t] \in InMessage => client[t] # c) =>
               port[c] = << >> /\ answers[c] = << >>
    BY <1>a DEF QuietWires
  <1>c. Len(<< >>) = 0  OBVIOUS
  <1> USE AtAssumption DEF Goto
  <1>1. ASSUME NEW t \in Threads, ExecCall(t) \/ Exec(t)  PROVE FALSE
    BY <1>1, <1>a, <1>b
    DEF InMessage, ExecCall, Exec, ExecLock, ExecFormat, ExecLength, ExecWrite, ExecEnd,
        ExecTimeout, ExecNoClock, ExecExit
  <1>2. ASSUME NEW t \in Threads, MessageCall(t)  PROVE QuietWires'
    <2>1. /\ UNCHANGED <<port, answers>> /\ pc[t] = "idle" /\ pc' = [pc EXCEPT ![t] = "mutex"]
          /\ \A u \in Threads \ {t} : client'[u] = client[u]
      BY <1>2 DEF MessageCall, TypeOK, wires
    <2>2. \A u \in Threads : u # t => pc'[u] = pc[u] /\ client'[u] = client[u]
      BY <2>1 DEF TypeOK
    <2>3. pc'[t] = "mutex"  BY <2>1 DEF TypeOK
    <2>4. /\ \A u \in Threads : pc'[u] \in {"idle", "mutex"} \cup InMessage
          /\ \A u \in Threads : pc'[u] \in {"CMGF", "CMGS", "PDU", "done"} =>
               port[client'[u]] = << >> /\ answers[client'[u]] = << >>
      BY <2>2, <2>3, <1>b
    <2>5. \A u \in Threads : pc'[u] = "mode" => OnlyModeOf(u, client[u])'
      <3> SUFFICES ASSUME NEW u \in Threads, pc'[u] = "mode"
                   PROVE  OnlyModeOf(u, client[u])'
        OBVIOUS
      <3>1. u # t  BY <2>3
      <3>2. pc[u] = "mode" /\ client'[u] = client[u]  BY <2>2, <3>1
      <3>3. OnlyModeOf(u, client[u])  BY <1>b, <3>2
      <3> QED  BY <2>1, <3>2, <3>3 DEF OnlyModeOf
    <2>6. ASSUME NEW c \in Clients,
                 \A u \in Threads : pc'[u] \in InMessage => client'[u] # c
          PROVE  port[c] = << >> /\ answers[c] = << >>
      <3>1. \A u \in Threads : pc[u] \in InMessage => client[u] # c
        BY <2>1, <2>2, <2>6 DEF InMessage
      <3> QED  BY <3>1, <1>b
    <2> QED  BY <2>1, <2>4, <2>5, <2>6 DEF QuietWires
  <1>3. ASSUME NEW t \in Threads, MessageLock(t)  PROVE QuietWires'
    <2>1. /\ UNCHANGED <<port, answers, client>>
          /\ pc[t] = "mutex" /\ pc' = [pc EXCEPT ![t] = "CMGF"]
      BY <1>3 DEF MessageLock, wires, mine
    <2>2. client[t] \in Clients /\ \A u \in Threads : pc[u] \in InMessage => client[u] # client[t]
      BY <1>3, <2>1 DEF MessageLock, Held, InMessage
    <2>3. port[client[t]] = << >> /\ answers[client[t]] = << >>
      BY <2>2, <1>b
    <2> QED  BY <2>1, <2>2, <2>3, <1>b DEF QuietWires, OnlyModeOf, InMessage, TypeOK
  <1>4. ASSUME NEW t \in Threads, MessageWrite(t)  PROVE QuietWires'
    <2> DEFINE piece == [text |-> Text(t, pc[t], 1), end |-> TRUE]
    <2>1. /\ pc[t] \in {"CMGF", "CMGS", "PDU"} /\ UNCHANGED <<answers, client>>
          /\ pc' = [pc EXCEPT ![t] = CASE pc[t] = "CMGF" -> "mode" [] pc[t] = "CMGS" -> "prompt"
                                       [] OTHER -> "sent"]
          /\ port' = [port EXCEPT ![client[t]] = Append(@, piece)]
      BY <1>4 DEF MessageWrite, Write, mine
    <2>2. /\ client[t] \in Clients
          /\ \A u \in Threads \ {t} : pc[u] \in InMessage => client[u] # client[t]
      BY <2>1, OneMessageEach DEF InMessage
    <2>3. /\ pc'[t] \in {"mode", "prompt", "sent"} /\ (pc'[t] = "mode" => pc[t] = "CMGF")
          /\ \A u \in Threads \ {t} : pc'[u] = pc[u]
      BY <2>1 DEF TypeOK
    <2>4. port[client[t]] = << >> /\ answers[client[t]] = << >>
      BY <2>1, <1>b
    <2>5. port'[client[t]] = << piece >>
          /\ \A c \in Clients \ {client[t]} : port'[c] = port[c]
      <3>1. port'[client[t]] = Append(port[client[t]], piece)
            /\ \A c \in Clients \ {client[t]} : port'[c] = port[c]
        BY <2>1, <2>2 DEF TypeOK
      <3> HIDE DEF piece
      <3>2. Append(<< >>, piece) = << piece >>  OBVIOUS
      <3> QED  BY <3>1, <3>2, <2>4
    <2>6. pc'[t] = "mode" =>
            /\ \A i \in 1 .. Len(port'[client[t]]) :
                 port'[client[t]][i].text = Text(t, "CMGF", 1)
            /\ Len(answers[client[t]]) = 0
      BY <2>3, <2>4, <2>5, <1>c
    <2>7. \A u \in Threads \ {t} : pc[u] = "mode" => OnlyModeOf(u, client[u])'
      BY <2>1, <2>2, <2>5, <1>b, OneMessageEach DEF OnlyModeOf, InMessage
    <2>8. pc'[t] = "mode" => OnlyModeOf(t, client[t])'
      BY <2>1, <2>6 DEF OnlyModeOf
    <2>9. \A u \in Threads : pc'[u] = "mode" => OnlyModeOf(u, client[u])'
      BY <2>3, <2>7, <2>8
    <2>10. \A u \in Threads : pc'[u] \in {"CMGF", "CMGS", "PDU", "done"} =>
             port'[client'[u]] = << >> /\ answers'[client'[u]] = << >>
      BY <2>1, <2>2, <2>3, <2>5, <1>b, OneMessageEach DEF InMessage
    <2>11. /\ \A u \in Threads : pc'[u] \in {"idle", "mutex"} \cup InMessage
           /\ \A c \in Clients :
                (\A u \in Threads : pc'[u] \in InMessage => client'[u] # c) =>
                  port'[c] = << >> /\ answers'[c] = << >>
      BY <2>1, <2>3, <2>5, <1>b DEF InMessage
    <2> QED  BY <2>9, <2>10, <2>11 DEF QuietWires
  <1>5. ASSUME NEW t \in Threads, MessageMode(t) \/ MessageRead(t)  PROVE QuietWires'
    <2>1. /\ pc[t] \in {"mode", "prompt", "sent"} /\ UNCHANGED <<port, client>>
          /\ \E l \in {"CMGS", "PDU", "done"} : pc' = [pc EXCEPT ![t] = l]
          /\ port[client[t]] = << >>
          /\ answers' = [answers EXCEPT ![client[t]] = << >>]
      BY <1>5, <1>a DEF MessageMode, MessageRead, ReadAll, Slept, mine
    <2>2. client[t] \in Clients
          /\ \A u \in Threads \ {t} : pc[u] \in InMessage => client[u] # client[t]
      BY <2>1, OneMessageEach DEF InMessage
    <2>3. answers'[client[t]] = << >>
          /\ \A c \in Clients \ {client[t]} : answers'[c] = answers[c]
      BY <2>1, <2>2 DEF TypeOK
    <2>4. /\ pc'[t] \in {"CMGS", "PDU", "done"}
          /\ \A u \in Threads \ {t} : pc'[u] = pc[u]
      BY <2>1 DEF TypeOK
    <2>5. \A u \in Threads : pc'[u] = "mode" => OnlyModeOf(u, client[u])'
      BY <2>1, <2>2, <2>3, <2>4, <1>b, OneMessageEach DEF OnlyModeOf, InMessage
    <2>6. \A u \in Threads : pc'[u] \in {"CMGF", "CMGS", "PDU", "done"} =>
            port'[client'[u]] = << >> /\ answers'[client'[u]] = << >>
      BY <2>1, <2>2, <2>3, <2>4, <1>b, OneMessageEach DEF InMessage
    <2>7. /\ \A u \in Threads : pc'[u] \in {"idle", "mutex"} \cup InMessage
          /\ \A c \in Clients :
               (\A u \in Threads : pc'[u] \in InMessage => client'[u] # c) =>
                 port'[c] = << >> /\ answers'[c] = << >>
      BY <2>1, <2>3, <2>4, <1>b DEF InMessage
    <2> QED  BY <2>5, <2>6, <2>7 DEF QuietWires
  <1>6. ASSUME NEW t \in Threads, MessageDone(t)  PROVE QuietWires'
    <2>1. /\ UNCHANGED <<port, answers>> /\ pc[t] = "done" /\ pc' = [pc EXCEPT ![t] = "idle"]
          /\ \A u \in Threads \ {t} : client'[u] = client[u]
      BY <1>6 DEF MessageDone, Return, TypeOK, wires
    <2>2. port[client[t]] = << >> /\ answers[client[t]] = << >>
      BY <2>1, <1>b
    <2>3. pc'[t] = "idle" /\ \A u \in Threads \ {t} : pc'[u] = pc[u]
      BY <2>1 DEF TypeOK
    <2>4. \A c \in Clients :
            (\A u \in Threads : pc'[u] \in InMessage => client'[u] # c) =>
              port'[c] = << >> /\ answers'[c] = << >>
      BY <2>1, <2>2, <2>3, <1>b
    <2> QED  BY <2>1, <2>3, <2>4, <1>b DEF QuietWires, OnlyModeOf, InMessage
  <1>7. ASSUME NEW c \in Clients, ReadDevice(c)  PROVE FALSE
    <2>1. mutex[c] = NoThread /\ answers[c] # << >>  BY <1>7 DEF ReadDevice
    <2>2. \A t \in Threads : pc[t] \in InMessage => client[t] # c
      BY <2>1 DEF Held
    <2> QED  BY <2>1, <2>2, <1>b
  <1>8. ASSUME NEW c \in Clients, ModemTakes(c)  PROVE QuietWires'
    <2>1. /\ UNCHANGED <<pc, client>> /\ port[c] # << >>
          /\ \A d \in Clients \ {c} : port'[d] = port[d] /\ answers'[d] = answers[d]
      <3>1. PICK n \in 1 .. Len(port[c]) :
              /\ port' = [port EXCEPT ![c] = SubSeq(@, n + 1, Len(@))]
              /\ UNCHANGED answers \/ \E answer : answers' = [answers EXCEPT ![c] = answer]
        BY <1>8 DEF ModemTakes
      <3>2. port[c] # << >>  BY <1>c
      <3> QED  BY <1>8, <3>1, <3>2 DEF ModemTakes, mine, TypeOK
    <2>2. PICK t \in Threads : pc[t] \in {"mode", "prompt", "sent"} /\ client[t] = c
      BY <2>1, <1>b DEF InMessage
    <2>3. \A u \in Threads \ {t} : pc[u] \in InMessage => client[u] # c
      BY <2>2, OneMessageEach DEF InMessage
    <2>4. ASSUME pc[t] = "mode"
          PROVE  /\ \A i \in 1 .. Len(port'[c]) : port'[c][i].text = Text(t, "CMGF", 1)
                 /\ \A i \in 1 .. Len(answers'[c]) : answers'[c][i].to = Text(t, "CMGF", 1)
      <3> PICK n \in 1 .. Len(port[c]) :
            /\ port' = [port EXCEPT ![c] = SubSeq(@, n + 1, Len(@))]
            /\ \/ UNCHANGED answers
               \/ \E first \in Spoken(c, n), ok \in BOOLEAN :
                    answers' = [answers EXCEPT ![c] =
                                  Append(@, [to |-> port[c][first].text, ok |-> ok])]
        BY <1>8 DEF ModemTakes
      <3>1. OnlyModeOf(t, c)  BY <2>2, <2>4, <1>b
      <3>2. port[c] \in Seq(Pieces) /\ answers[c] \in Seq(Answers)  BY DEF TypeOK
      <3>3. port'[c] = SubSeq(port[c], n + 1, Len(port[c]))  BY DEF TypeOK
      <3>4. \A i \in 1 .. Len(port'[c]) : port'[c][i] = port[c][n + i] /\ n + i \in 1 .. Len(port[c])
        BY <3>2, <3>3
      <3>5. CASE UNCHANGED answers
        BY <3>1, <3>4, <3>5 DEF OnlyModeOf
      <3>6. ASSUME NEW first \in Spoken(c, n), NEW ok \in BOOLEAN,
                   answers' = [answers EXCEPT ![c] =
                                 Append(@, [to |-> port[c][first].text, ok |-> ok])]
            PROVE  \A i \in 1 .. Len(answers'[c]) : answers'[c][i].to = Text(t, "CMGF", 1)
        <4> DEFINE answer == [to |-> port[c][first].text, ok |-> ok]
        <4>1. first \in 1 .. Len(port[c])  BY <3>2 DEF Spoken
        <4>2. answer.to = Text(t, "CMGF", 1) /\ answer \in Answers
          <5>1. port[c][first] \in Pieces  BY <3>2, <4>1
          <5> QED  BY <4>1, <5>1, <3>1 DEF OnlyModeOf, Pieces, Answers
        <4>3. answers'[c] = Append(answers[c], answer)  BY <3>6 DEF TypeOK
        <4> HIDE DEF answer
        <4>4. /\ Len(answers'[c]) = Len(answers[c]) + 1
              /\ \A i \in 1 .. Len(answers[c]) : answers'[c][i] = answers[c][i]
              /\ answers'[c][Len(answers[c]) + 1] = answer
          BY <3>2, <4>2, <4>3, AppendProperties
        <4>5. Len(answers[c]) \in Nat  BY <3>2
        <4>6. \A i \in 1 .. Len(answers[c]) : answers[c][i].to = Text(t, "CMGF", 1)
          BY <3>1 DEF OnlyModeOf
        <4>7. answer.to = Text(t, "CMGF", 1)  BY <4>2
        <4> SUFFICES ASSUME NEW i \in 1 .. Len(answers'[c])
                     PROVE  answers'[c][i].to = Text(t, "CMGF", 1)
          OBVIOUS
        <4>8. CASE i = Len(answers[c]) + 1  BY <4>4, <4>7, <4>8
        <4>9. CASE i \in 1 .. Len(answers[c])  BY <4>4, <4>6, <4>9
        <4> QED  BY <4>4, <4>5, <4>8, <4>9
      <3> QED  BY <3>1, <3>4, <3>5, <3>6 DEF OnlyModeOf
    <2>5. \A u \in Threads : pc'[u] = "mode" => OnlyModeOf(u, client[u])'
      <3>1. ASSUME NEW u \in Threads, pc[u] = "mode", u # t
            PROVE  OnlyModeOf(u, client[u])'
        <4>1. client[u] \in Clients \ {c} /\ client'[u] = client[u]
          BY <3>1, <2>1, <2>3, OneMessageEach DEF InMessage
        <4>2. port'[client[u]] = port[client[u]] /\ answers'[client[u]] = answers[client[u]]
          BY <4>1, <2>1
        <4>3. OnlyModeOf(u, client[u])  BY <3>1, <1>b
        <4> QED  BY <4>1, <4>2, <4>3 DEF OnlyModeOf
      <3>2. ASSUME pc[t] = "mode"  PROVE OnlyModeOf(t, client[t])'
        BY <3>2, <2>1, <2>2, <2>4 DEF OnlyModeOf
      <3> QED  BY <3>1, <3>2, <2>1
    <2>6. \A u \in Threads : pc'[u] \in {"CMGF", "CMGS", "PDU", "done"} =>
            port'[client'[u]] = << >> /\ answers'[client'[u]] = << >>
      <3> SUFFICES ASSUME NEW u \in Threads, pc[u] \in {"CMGF", "CMGS", "PDU", "done"}
                   PROVE  port'[client[u]] = << >> /\ answers'[client[u]] = << >>
        BY <2>1
      <3>1. client[u] \in Clients \ {c}
        BY <2>2, <2>3, OneMessageEach DEF InMessage
      <3> QED  BY <3>1, <2>1, <1>b
    <2>7. \A d \in Clients :
            (\A u \in Threads : pc'[u] \in InMessage => client'[u] # d) =>
              port'[d] = << >> /\ answers'[d] = << >>
      BY <2>1, <2>2, <1>b DEF InMessage
    <2> QED  BY <2>1, <2>5, <2>6, <2>7, <1>b DEF QuietWires
  <1>9. CASE UNCHANGED vars
    BY <1>9, <1>b DEF vars, wires, mine, QuietWires, OnlyModeOf
  <1> QED
    BY <1>1, <1>2, <1>3, <1>4, <1>5, <1>6, <1>7, <1>8, <1>9 DEF Next, Message, Done

\* OwnOk: in a program that only sends messages, through modems that answer in time,
\* a thread goes on with its message only on the OK its own AT+CMGF was given.
THEOREM MessagesHeedTheirOwnOk == Spec => OwnOk
  <1> DEFINE Heeds ==
        use = "messages" /\ timely =>
          \A t \in Threads : pc[t] = "mode" /\ pc'[t] = "CMGS" =>
            \A i \in 1 .. Len(answers[client[t]]) :
              answers[client[t]][i].to = Text(t, "CMGF", 1)
  <1>1. Init => QuietWires
    BY DEF Init, QuietWires, InMessage, TypeOK
  <1>2. QuietWires => Heeds
    BY DEF QuietWires, OnlyModeOf
  <1>3. QuietWires /\ [Next]_vars => [Heeds]_vars  BY <1>2
  <1> QED
    BY <1>1, <1>3, InitTypes, StepTypes, InitHeld, StepHeld, StepQuiet, PTL DEF Spec, OwnOk
=============================================================================
