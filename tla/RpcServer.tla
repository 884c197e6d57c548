------------------------------ MODULE RpcServer ------------------------------
(***************************************************************************)
(* The JSON-RPC server of src/src/jsonrpc-c.c as serve_thread_entry of     *)
(* src/src/server.c runs it: one thread, which initialises the server,     *)
(* fills the table of procedures, runs the event loop until a procedure    *)
(* stops it, and destroys the table.  Clients are other processes; what    *)
(* one sends arrives in pieces of any size.                                *)
(*                                                                         *)
(* Allocations do not fail, procedures get the parameters they need, and a *)
(* client keeps its receiving half open while it waits for an answer: the  *)
(* server does not ignore SIGPIPE.  What is queued on a connection when it *)
(* is reset is not read any more.                                          *)
(***************************************************************************)
EXTENDS JsonText, FiniteSets, SequencesExt

CONSTANTS
  Clients,
  Names, Functions, ExitServer, NoFunction,
  Requests,        \* records: kind, name, id (the meaning), and text
  Programs,        \* Programs[c]: the requests client c chooses from
  MaxRequests,     \* how many requests each client sends
  Unsteady,        \* the clients that may hang up before the server does
  Readers,         \* the clients that read what they are answered
  Setups,          \* what the host may do to the table: sequences of calls
  InitialSize      \* buffer_size of a new connection: 1500

HostCalls == [op : {"register", "deregister"}, name : Names, function : Functions]

Listener == "listen_watcher"

ASSUME RpcAssumption ==
  /\ ExitServer \in Functions /\ NoFunction \notin Functions
  /\ \A r \in Requests : r.text \in Seq(STRING) /\ r.name \in Names
  /\ Setups \subseteq Seq(HostCalls)
  /\ Listener \notin Clients
  /\ Programs \in [Clients -> SUBSET Requests]
  /\ MaxRequests \in [Clients -> Nat] /\ Unsteady \cup Readers \subseteq Clients
  /\ InitialSize \in Nat \ {0, 1}

VARIABLES
  procedures,  \* the first procedure_count entries; NULL when there are none
  calls,       \* the calls the host has still to make to fill it
  listening,   \* __jrpc_server_start got its socket
  loop,        \* "init", "setup", "running", "stopping", "blocked", "ended"
  pending,     \* the watchers libev has still to invoke in this round
  state,       \* of each connection: "none", "backlog", "open", "closed"
  buffer_size, buffer,  \* pos is the length of the buffer
  wire,        \* what the client has sent and read has not yet returned
  eof,         \* the clients that have closed their sending half
  broken,      \* the clients whose connection was reset
  answers,     \* what was written to each client
  sent,        \* ghost: the requests of each client
  taken,       \* ghost: how many of them the server has parsed
  ahead,       \* ghost: the clients that did not wait for an answer
  lost         \* ghost: those the server has dropped a part of a request of

host == <<procedures, calls, listening>>
client == <<wire, eof, broken, sent, ahead>>
server == <<state, buffer_size, buffer, answers, taken, lost>>
vars == <<host, loop, pending, client, server>>

Init ==
  /\ procedures = << >> /\ calls \in Setups
  /\ listening = FALSE
  /\ loop = "init" /\ pending = {}
  /\ state = [c \in Clients |-> "none"]
  /\ buffer_size = [c \in Clients |-> InitialSize]
  /\ buffer = [c \in Clients |-> << >>]
  /\ wire = buffer /\ answers = buffer /\ sent = buffer
  /\ eof = {} /\ broken = {} /\ ahead = {} /\ lost = {}
  /\ taken = [c \in Clients |-> 0]

-----------------------------------------------------------------------------
(* The table of procedures                                                  *)

Entries(name) == {i \in DOMAIN procedures : procedures[i].name = name}

jrpc_register_procedure(name, f) ==
  procedures' = Append(procedures, [name |-> name, function |-> f])

\* Seeded fault: the last entry of that name goes.
DeregisteredLast(name) ==
  IF Entries(name) = {} THEN procedures
  ELSE RemoveAt(procedures, Max(Entries(name)))

\* The entries behind the first of that name move down by one.
Deregistered(name) ==
  IF Entries(name) = {} THEN procedures
  ELSE RemoveAt(procedures, Min(Entries(name)))

jrpc_deregister_procedure(name) == procedures' = Deregistered(name)

HostCall ==
  /\ loop = "setup" /\ calls # << >>
  /\ \/ calls[1].op = "register" /\ jrpc_register_procedure(calls[1].name, calls[1].function)
     \/ calls[1].op = "deregister" /\ jrpc_deregister_procedure(calls[1].name)
  /\ calls' = Tail(calls)
  /\ UNCHANGED <<listening, loop, pending, client, server>>

\* invoke_procedure counts down from procedure_count.
Found(name) ==
  IF Entries(name) = {} THEN NoFunction
  ELSE procedures[Max(Entries(name))].function

-----------------------------------------------------------------------------
(* The event loop                                                           *)

\* getaddrinfo or every bind may fail, and serve_thread_entry goes on all the
\* same; if an option cannot be set or listen fails the whole program exits.
jrpc_server_init ==
  /\ loop = "init"
  /\ \/ loop' = "setup" /\ listening' \in BOOLEAN
     \/ loop' = "ended" /\ UNCHANGED listening
  /\ UNCHANGED <<procedures, calls, pending, client, server>>

jrpc_server_run ==
  /\ loop = "setup" /\ calls = << >>
  /\ loop' = "running"
  /\ UNCHANGED <<host, pending, client, server>>

Backlog == {c \in Clients : state[c] = "backlog"}

\* Seeded fault: a connection with a part of a request is not watched any more.
ReadableOnce(c) ==
  state[c] = "open" /\ buffer[c] = << >> /\ (wire[c] # << >> \/ c \in eof \cup broken)

Readable(c) == state[c] = "open" /\ (wire[c] # << >> \/ c \in eof \cup broken)

Ready == {c \in Clients : Readable(c)} \cup
         (IF listening /\ Backlog # {} THEN {Listener} ELSE {})

Poll ==
  /\ loop = "running" /\ pending = {} /\ Ready # {}
  /\ pending' = Ready
  /\ UNCHANGED <<host, loop, client, server>>

\* ev_run returns when ev_break was called, after the round, or when nothing is
\* watched; jrpc_server_destroy frees the table (and, with each entry, its data:
\* one of server.c's is a string literal).  Sockets stay as they are.
EndLoop ==
  /\ \/ loop = "stopping" /\ pending = {}
     \/ loop = "running" /\ ~listening
  /\ loop' = "ended"
  /\ procedures' = << >>
  /\ UNCHANGED <<calls, listening, pending, client, server>>

Invoked(w) == loop # "blocked" /\ w \in pending /\ pending' = pending \ {w}

\* accept may fail; the client then waits for another round.
accept_cb ==
  /\ Invoked(Listener)
  /\ \/ \E c \in Backlog : state' = [state EXCEPT ![c] = "open"]
     \/ UNCHANGED state
  /\ UNCHANGED <<host, loop, client, buffer_size, buffer, answers, taken, lost>>

-----------------------------------------------------------------------------
(* A request                                                                *)

Reply(code, f, id) == [code |-> code, by |-> f, id |-> id]

Invoke(name, id) ==
  IF Found(name) = NoFunction THEN Reply("method not found", NoFunction, id)
  ELSE Reply("result", Found(name), id)

IsRequest(members) ==
  /\ GetObjectItem(members, "method").type = "string"
  /\ GetObjectItem(members, "params").type \in {"absent", "array", "object"}
  /\ GetObjectItem(members, "id").type \in {"absent", "string", "number"}

\* A request without an id is answered too; a fraction of an id is cut off.
eval_request(members) ==
  IF IsRequest(members)
    THEN Invoke(GetObjectItem(members, "method").content,
                GetObjectItem(members, "id").content)
    ELSE Reply("invalid request", NoFunction, << >>)

\* The value the parser has found is what the request says.
Means(parsed, r) ==
  /\ r.kind # "malformed"
  /\ r.kind = "no object" <=> parsed.value.type # "object"
  /\ r.kind \notin {"no object", "invalid"} =>
       /\ IsRequest(parsed.members)
       /\ GetObjectItem(parsed.members, "method").content = r.name
       /\ GetObjectItem(parsed.members, "id").content = r.id
  /\ r.kind = "invalid" => ~IsRequest(parsed.members)

\* A client sends an object or an array with nothing but blanks behind it, or a text
\* with something wrong before its end.  (Not a string or a number alone: what is read
\* of one first is taken for a shorter one.)
ASSUME TextAssumption ==
  \A r \in Requests : \A parsed \in {ParseStream(r.text)} :
    IF r.kind = "malformed"
      THEN /\ parsed.rule = "failed" /\ parsed.at \in 1 .. Len(r.text)
           /\ parsed.at = Len(r.text) => r.text[parsed.at] # "."
      ELSE /\ parsed.rule = "done" /\ parsed.value.type \in {"array", "object"}
           /\ Means(parsed, r)
           /\ \A i \in parsed.at .. Len(r.text) : r.text[i] = " "

-----------------------------------------------------------------------------
(* A connection                                                             *)

\* Seeded fault: the buffer is doubled one character too late.
GrownLate(c) == IF Len(buffer[c]) = buffer_size[c] THEN 2 * buffer_size[c]
                                                   ELSE buffer_size[c]

\* The buffer is doubled when only the terminating NUL fits behind the text.
Grown(c) == IF Len(buffer[c]) = buffer_size[c] - 1 THEN 2 * buffer_size[c]
                                                   ELSE buffer_size[c]

\* Seeded fault: no place is kept for the NUL.
WholeBuffer(c) == Grown(c) - Len(buffer[c])

max_read_size(c) == Grown(c) - Len(buffer[c]) - 1

close_connection(c) ==
  /\ state' = [state EXCEPT ![c] = "closed"]
  /\ buffer' = [buffer EXCEPT ![c] = << >>]

\* read returns -1, or 0: nothing more will come, or nothing was asked for.
NothingRead(c) ==
  /\ \/ c \in broken
     \/ wire[c] = << >>
     \/ max_read_size(c) = 0
  /\ close_connection(c)
  /\ UNCHANGED <<loop, wire, buffer_size, answers, taken, lost>>

\* Seeded fault: the request is not discarded.
NotShifted(text, at) == text

\* What is behind a request: the text from *end_ptr on.
Rest(text, at) == SubSeq(text, at, Len(text))

\* pos after memmove(buffer, end_ptr, rest + 2): strlen(end_ptr) is asked for once
\* more, of a place that the rest, or the two NULs behind it, may by now have been
\* moved over.  (If the buffer was full, the second NUL is not one of the buffer's.)
PosLeft(rest, processed) ==
  IF rest + 1 < processed THEN rest
  ELSE IF rest < processed THEN 0 ELSE rest - processed

\* What is left in the buffer behind a request: as much of the rest as pos says.
Shifted(text, at) == SubSeq(text, at, at - 1 + PosLeft(Len(Rest(text, at)), at - 1))

\* The shift has dropped a part of the rest, and there is a request to be in it.
Drops(c, text, at) ==
  Shifted(text, at) # Rest(text, at) /\ taken[c] + 1 < Len(sent[c])

\* One value is taken out of the text; what is behind it waits for more input.
TakeValue(c, text, parsed) ==
  /\ parsed.rule = "done"
  /\ buffer' = [buffer EXCEPT ![c] = Shifted(text, parsed.at)]
  /\ taken' = [taken EXCEPT ![c] = @ + 1]
  /\ lost' = IF Drops(c, text, parsed.at) THEN lost \cup {c} ELSE lost
  /\ IF parsed.value.type = "object"
       THEN \E reply \in {eval_request(parsed.members)} :
              /\ answers' = [answers EXCEPT ![c] = Append(@, reply)]
              /\ loop' = IF reply.by = ExitServer THEN "stopping" ELSE loop
       ELSE UNCHANGED <<answers, loop>>
  /\ UNCHANGED state

\* The parser has got as far as the NUL: the rest is still to come.
AwaitRest(c, text, parsed) ==
  /\ parsed.rule = "failed" /\ parsed.at = Len(text) + 1
  /\ buffer' = [buffer EXCEPT ![c] = text]
  /\ UNCHANGED <<loop, state, answers, taken, lost>>

RefuseText(c, text, parsed) ==
  /\ parsed.rule = "failed" /\ parsed.at # Len(text) + 1
  /\ answers' = [answers EXCEPT
       ![c] = Append(@, Reply("parse error", NoFunction, << >>))]
  /\ close_connection(c)
  /\ UNCHANGED <<loop, taken, lost>>

\* An answer is written before anything else, and write does not return while the
\* socket is full of answers that the client has not read.
BlockInWrite(c, text, parsed) ==
  /\ c \notin Readers
  /\ IF parsed.rule = "done" THEN parsed.value.type = "object" ELSE parsed.at # Len(text) + 1
  /\ loop' = "blocked"
  /\ buffer' = [buffer EXCEPT ![c] = text]
  /\ UNCHANGED <<state, answers, taken, lost>>

Received(c, n) ==
  /\ c \notin broken
  /\ wire' = [wire EXCEPT ![c] = SubSeq(@, n + 1, Len(@))]
  /\ buffer_size' = [buffer_size EXCEPT ![c] = Grown(c)]
  /\ \E text \in {buffer[c] \o SubSeq(wire[c], 1, n)} :
       \E parsed \in {ParseStream(text)} :
         \/ TakeValue(c, text, parsed)
         \/ AwaitRest(c, text, parsed)
         \/ RefuseText(c, text, parsed)
         \/ BlockInWrite(c, text, parsed)

connection_cb(c) ==
  /\ Invoked(c)
  /\ \/ NothingRead(c)
     \/ \E n \in 1 .. Min({max_read_size(c), Len(wire[c])}) : Received(c, n)
  /\ UNCHANGED <<host, eof, broken, sent, ahead>>

-----------------------------------------------------------------------------
(* Clients                                                                  *)

Connect(c) ==
  /\ state[c] = "none" /\ listening
  /\ state' = [state EXCEPT ![c] = "backlog"]
  /\ UNCHANGED <<host, loop, pending, client, buffer_size, buffer, answers, taken, lost>>

Sending(c) == state[c] \in {"backlog", "open"} /\ c \notin eof \cup broken

Send(c, r) ==
  /\ Sending(c) /\ Len(sent[c]) < MaxRequests[c]
  /\ wire' = [wire EXCEPT ![c] = @ \o r.text]
  /\ sent' = [sent EXCEPT ![c] = Append(@, r)]
  /\ ahead' = IF taken[c] < Len(sent[c]) THEN ahead \cup {c} ELSE ahead
  /\ UNCHANGED <<host, loop, pending, eof, broken, server>>

StopSending(c) ==
  /\ Sending(c) /\ c \in Unsteady
  /\ eof' = eof \cup {c}
  /\ UNCHANGED <<host, loop, pending, wire, broken, sent, ahead, server>>

Reset(c) ==
  /\ Sending(c) /\ c \in Unsteady
  /\ broken' = broken \cup {c}
  /\ UNCHANGED <<host, loop, pending, wire, eof, sent, ahead, server>>

Serve ==
  \/ jrpc_server_init \/ HostCall \/ jrpc_server_run
  \/ Poll \/ EndLoop \/ accept_cb \/ \E c \in Clients : connection_cb(c)

Next ==
  \/ Serve
  \/ \E c \in Clients : \/ Connect(c) \/ StopSending(c) \/ Reset(c)
                        \/ \E r \in Programs[c] : Send(c, r)

\* The server's thread goes on as long as it has something to do and is not blocked
\* in a write: a scheduler runs it.
Spec == Init /\ [][Next]_vars /\ WF_vars(Serve)

-----------------------------------------------------------------------------
(* Properties                                                               *)

\* Every variable has its type; only an open connection has a text, and the text
\* and its NUL fit into the buffer, over any division of the requests into reads
\* (jsonrpc-c.c:144-153).
TypeOK ==
  /\ procedures \in Seq([name : Names, function : Functions])
  /\ Len(calls) \in Nat /\ listening \in BOOLEAN
  /\ loop \in {"init", "setup", "running", "stopping", "blocked", "ended"}
  /\ pending \subseteq Clients \cup {Listener}
  /\ state \in [Clients -> {"none", "backlog", "open", "closed"}]
  /\ buffer_size \in [Clients -> Nat]
  /\ \A c \in Clients : /\ Len(buffer[c]) < buffer_size[c] /\ Len(wire[c]) \in Nat
                        /\ buffer[c] # << >> => state[c] = "open"
                        /\ sent[c] \in Seq(Programs[c])
                        /\ taken[c] \in Nat
                        /\ Len(answers[c]) <= taken[c] + 1
  /\ eof \subseteq Clients /\ broken \subseteq Clients /\ ahead \subseteq Clients
  /\ lost \subseteq Clients

\* A text must not be cut off inside an escape, or behind a decimal point or the last
\* letter of a literal.
InEscape(text) ==
  \E i \in 1 .. Len(text) : text[i] = Backslash /\ i + Taken(text, i) > Len(text) + 1

FragileEnd(text) == text[Len(text)] \in {".", "ll"} \/ InEscape(text)

\* What the parser is given when so much of the wire is left.
ReadSoFar(c, left) == buffer[c] \o SubSeq(wire[c], 1, Len(wire[c]) - Len(left))

\* The server closes a connection only on a client that has hung up, on one
\* that has sent something malformed or of whose requests the server itself has lost
\* a part, and, for want of a better parser, on one whose text a read has cut off
\* at a fragile point (jsonrpc-c.c:155-205, cJSON.c:180-226).
ClosedForCause ==
  [][\A c \in Clients :
       state[c] = "open" /\ state'[c] = "closed" =>
         \/ c \in broken
         \/ c \in eof /\ wire[c] = << >>
         \/ c \in lost
         \/ \E i \in taken[c] + 1 .. Len(sent[c]) : sent[c][i].kind = "malformed"
         \/ wire'[c] # wire[c] /\ FragileEnd(ReadSoFar(c, wire'[c]))]_vars

\* A client whose connection was accepted and that waits for each request to be taken
\* before it sends the next is answered, unless it hangs up, the server is stopped, or
\* a client that does not read its answers has blocked the one thread for all.  (One
\* that does not wait may be left: what is behind a request stays in the buffer until
\* more input comes, jsonrpc-c.c:178-193.)
Waiting(c) ==
  state[c] = "open" /\ Sending(c) /\ c \notin ahead /\ taken[c] < Len(sent[c])
AnsweredInTurn ==
  \A c \in Clients : Waiting(c) ~> ~Waiting(c) \/ loop \in {"ended", "blocked"}

\* The functions a table binds to a name, in its order.
Bound(table, name) ==
  LET bound[i \in 0 .. Len(table)] ==
        IF i = 0 THEN << >>
        ELSE IF table[i].name = name THEN Append(bound[i - 1], table[i].function)
        ELSE bound[i - 1] IN
    bound[Len(table)]

\* However much of what a client has sent is read next, a value the parser finds in
\* it is the first request not yet taken, with its meaning: none is found in a part
\* of a text, and none is made of what another has left in the buffer
\* (jsonrpc-c.c:161-195).  The clients of whose requests the server drops a part, after
\* which this is lost, are some of those that did not wait for their answers.
Understood ==
  /\ lost \subseteq ahead
  /\ \A c \in Clients \ lost : state[c] = "open" =>
       \A n \in 1 .. Min({max_read_size(c), Len(wire[c])}) :
         \A parsed \in {ParseStream(buffer[c] \o SubSeq(wire[c], 1, n))} :
           parsed.rule = "done" =>
             taken[c] < Len(sent[c]) /\ Means(parsed, sent[c][taken[c] + 1])

Service == INSTANCE RpcService WITH
  bindings <- [n \in Names |-> Bound(procedures, n)],
  open <- {c \in Clients : state[c] = "open" /\ loop # "ended"}

\* Every request is taken once and in order and answered by its meaning, whatever
\* pieces its text arrived in, until a part of one is lost, which happens only to
\* those of a client that has sent the next before the last was taken
\* (jsonrpc-c.c:76-134, 168-208).
ImplementsService == Service!Spec
=============================================================================
