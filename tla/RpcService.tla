----------------------------- MODULE RpcService -----------------------------
(***************************************************************************)
(* What the clients and the host of the JSON-RPC server may rely on: every *)
(* request of a client is taken once and in order, and answered by what    *)
(* its meaning and the procedures of its name say, however its text was    *)
(* cut up on the way.  A name may be registered several times: the latest  *)
(* registration serves, the oldest is the first to be taken back.  What a  *)
(* client has sent before its last request was taken may get lost; from    *)
(* then on nothing is promised to that client.                             *)
(***************************************************************************)
EXTENDS Naturals, Sequences

CONSTANTS
  Clients, Names, Functions, NoFunction,
  Requests  \* records with the meaning of a request: kind, name, id

VARIABLES
  bindings,  \* of each name, the oldest first
  sent,      \* the requests of each client
  taken,     \* how many of them have been dealt with
  answers,   \* what each client was answered
  open,      \* the clients that are connected
  lost       \* those that a part of a request was lost of

vars == <<bindings, sent, taken, answers, open, lost>>

Answered(code, f, id) == [code |-> code, by |-> f, id |-> id]

Answer(r) ==
  IF r.kind = "invalid" THEN Answered("invalid request", NoFunction, << >>)
  ELSE IF bindings[r.name] = << >> THEN Answered("method not found", NoFunction, r.id)
  ELSE Answered("result", bindings[r.name][Len(bindings[r.name])], r.id)

Init ==
  /\ bindings = [n \in Names |-> << >>]
  /\ sent = [c \in Clients |-> << >>] /\ answers = sent
  /\ taken = [c \in Clients |-> 0]
  /\ open = {} /\ lost = {}

Register(n, f) ==
  /\ bindings' = [bindings EXCEPT ![n] = Append(@, f)]
  /\ UNCHANGED <<sent, taken, answers, open, lost>>

Deregister(n) ==
  /\ bindings[n] # << >>
  /\ bindings' = [bindings EXCEPT ![n] = Tail(@)]
  /\ UNCHANGED <<sent, taken, answers, open, lost>>

Connect(c) ==
  /\ open' = open \cup {c}
  /\ UNCHANGED <<bindings, sent, taken, answers, lost>>

Send(c, r) ==
  /\ sent' = [sent EXCEPT ![c] = Append(@, r)]
  /\ UNCHANGED <<bindings, taken, answers, open, lost>>

\* A JSON value that is no object is dropped without an answer.
Take(c) ==
  /\ c \in open /\ taken[c] < Len(sent[c])
  /\ LET r == sent[c][taken[c] + 1] IN
       /\ r.kind # "malformed"
       /\ answers' = IF r.kind = "no object" THEN answers
                     ELSE [answers EXCEPT ![c] = Append(@, Answer(r))]
  /\ taken' = [taken EXCEPT ![c] = @ + 1]
  /\ \/ UNCHANGED lost
     \/ taken[c] + 1 < Len(sent[c]) /\ lost' = lost \cup {c}
  /\ UNCHANGED <<bindings, sent, open>>

\* Of a client with a request lost anything may be taken, and it may be answered
\* anything; the others do not notice.
Muddle(c) ==
  /\ c \in open \cap lost
  /\ answers' = [answers EXCEPT ![c] = answers'[c]]
  /\ taken' = [taken EXCEPT ![c] = taken'[c]]
  /\ UNCHANGED <<bindings, sent, open, lost>>

Refuse(c) ==
  /\ c \in open
  /\ answers' = [answers EXCEPT
       ![c] = Append(@, Answered("parse error", NoFunction, << >>))]
  /\ open' = open \ {c}
  /\ UNCHANGED <<bindings, sent, taken, lost>>

Hangup(c) ==
  /\ open' = open \ {c}
  /\ UNCHANGED <<bindings, sent, taken, answers, lost>>

\* Nobody is served once the procedures are gone.
Retire ==
  /\ bindings' = [n \in Names |-> << >>]
  /\ UNCHANGED <<sent, taken, answers, lost>>
  /\ open' = {}

Next ==
  \/ \E n \in Names : Deregister(n) \/ \E f \in Functions : Register(n, f)
  \/ \E c \in Clients : \/ Connect(c) \/ Take(c) \/ Muddle(c) \/ Refuse(c) \/ Hangup(c)
                        \/ \E r \in Requests : Send(c, r)
  \/ Retire

Spec == Init /\ [][Next]_vars
=============================================================================
