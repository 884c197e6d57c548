---------------------------- MODULE MCRpcServer ----------------------------
(* A TLC instance of RpcServer: requests with their texts and meanings.     *)
EXTENDS RpcServer, TLC

CONSTANTS c1, c2, f, g, exit_server

Hello == <<"a", Quote>>   \* a name with a character that is escaped
Exit == <<"exit">>
Gone == <<"wide">>        \* and one that is a single \u escape

Member(name, value) == <<Quote, name, Quote, ":">> \o value
Object(members) == <<"{">> \o members \o <<"}">>
HelloMethod == Member("method", <<Quote, "a", Backslash, Quote, Quote>>)
Method(m) == Member("method", <<Quote, m, Quote>>)
Meaning(kind, name, id, text) ==
  [kind |-> kind, name |-> name, id |-> id, text |-> text]

\* A notification; the blank behind it stays in the buffer.
Notification == Meaning("call", Hello, << >>, Object(HelloMethod) \o <<" ">>)
\* Parameters, and an id of which the fraction is lost.
FractionId == Meaning("call", Hello, <<"1">>,
  Object(HelloMethod \o <<",">> \o Member("params", <<"[", "1", "]">>) \o
         <<",">> \o Member("id", <<"1", ".", "1">>)))
\* An id that is neither a string nor a number.
NullId == Meaning("invalid", Hello, << >>,
  Object(Method("exit") \o <<",">> \o Member("id", <<"nu", "ll">>)))
Unknown == Meaning("call", Gone, << >>,
  Object(Member("method", <<Quote, Backslash, "u", "h", "h", "h", "h", Quote>>)))
ExitText == Meaning("call", Exit, << >>, Object(Method("exit")))
EmptyObject == Meaning("invalid", Hello, << >>, <<"{", "}">>)
EmptyArray == Meaning("no object", Hello, << >>, <<"[", "]">>)
Bracket == Meaning("malformed", Hello, << >>, <<"}">>)

Register(name, fn) == [op |-> "register", name |-> name, function |-> fn]
Deregister(name) == [op |-> "deregister", name |-> name, function |-> f]
\* Of two registrations of one name the older is taken back; another name is taken
\* back altogether.
AllSetups ==
  { <<Register(Hello, f), Register(Gone, f), Register(Hello, g), Deregister(Gone),
      Register(Exit, exit_server), Deregister(Gone), Deregister(Hello)>> }

AllRequests == {Notification, FractionId, NullId, Unknown, ExitText, EmptyObject,
                EmptyArray, Bracket}
AllNames == {Hello, Exit, Gone}
AllPrograms == (c1 :> AllRequests \ {EmptyObject}) @@ (c2 :> {EmptyObject, Bracket})
RequestBounds == (c1 :> 2) @@ (c2 :> 1)
=============================================================================
