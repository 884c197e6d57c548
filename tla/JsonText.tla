------------------------------ MODULE JsonText ------------------------------
(***************************************************************************)
(* The parser of src/src/cJSON.c on a text of which the server may have    *)
(* received only a part.  What matters to its caller is whether a value    *)
(* was found and where the pointer into the text was left: at the NUL      *)
(* behind the text the server waits for more, anywhere else it gives up.   *)
(*                                                                         *)
(* A text is a sequence of symbols.  The literals null, true and false are *)
(* all written as the two symbols "nu", "ll", so that a text can end       *)
(* inside one and behind one; digits are "1", hexadecimal ones "h".        *)
(* Exponents, the case of member names and failing allocations are left    *)
(* out; so is which character a \u escape stands for: all of them give     *)
(* "wide", one for each escape, also for the two of a surrogate pair.      *)
(***************************************************************************)
EXTENDS Naturals, Sequences

Quote == "\""
Backslash == "\\"
NUL == "NUL"

\* The buffer is zeroed behind the text (jsonrpc-c.c:149, 186, 237).  The places
\* behind the NUL of a full buffer lie outside it; they are taken for NULs.
At(t, i) == IF i \in 1 .. Len(t) THEN t[i] ELSE NUL

\* The text, the NUL behind it, and four places more.
LastPlace(t) == Len(t) + 5
Positions(t) == 1 .. LastPlace(t)

\* The first place from i on that has another symbol.
Past(t, symbol, i) ==
  CHOOSE j \in i .. LastPlace(t) :
    At(t, j) # symbol /\ \A k \in i .. j - 1 : At(t, k) = symbol

Skip(t, i) == Past(t, " ", i)

-----------------------------------------------------------------------------
(* Strings and numbers                                                      *)

\* A backslash takes the next character along, a \u escape four more: the copying
\* loop looks at none of them, and a text may be cut off before, or among, them.
Taken(t, j) == IF At(t, j + 1) = "u" THEN 6 ELSE 2

\* Where the copying of a string stops: at the quote, or the NUL, it has reached.
StringEnd(t, i) ==
  LET end[j \in Positions(t)] ==
        CASE At(t, j) \in {Quote, NUL} -> j
          [] At(t, j) = Backslash -> end[j + Taken(t, j)]
          [] OTHER -> end[j + 1] IN
    end[i]

Escaped(c) == CASE c = "n" -> "newline" [] c = "u" -> "wide" [] OTHER -> c

Characters(t, i) ==
  LET chars[j \in Positions(t)] ==
        CASE At(t, j) \in {Quote, NUL} -> << >>
          [] At(t, j) = Backslash -> <<Escaped(At(t, j + 1))>> \o chars[j + Taken(t, j)]
          [] OTHER -> <<t[j]>> \o chars[j + 1] IN
    chars[i]

\* A string without its closing quote is taken for one that ends with the text.
AfterString(t, i) ==
  LET end == StringEnd(t, i + 1) IN IF At(t, end) = Quote THEN end + 1 ELSE end

AfterDigits(t, i) == Past(t, "1", i)

\* valueint, which has no fraction, goes up to here.
IntegerEnd(t, i) == AfterDigits(t, IF At(t, i) = "-" THEN i + 1 ELSE i)

\* A point belongs to the number only if a digit has followed it.
AfterNumber(t, i) ==
  LET point == IntegerEnd(t, i) IN
    IF At(t, point) = "." /\ At(t, point + 1) = "1" THEN AfterDigits(t, point + 1)
                                                    ELSE point

-----------------------------------------------------------------------------
(* Values.  parse_value, parse_array and parse_object call each other; here *)
(* they are the steps of one machine, whose stack holds the bracket each    *)
(* call that has not returned is waiting for.  rule says what comes next: a *)
(* value, a name, what may follow a value, or the closing bracket.          *)

Value(type, content) == [type |-> type, content |-> content]
Absent == Value("absent", << >>)

\* stream_cmp moves the pointer over whatever agrees.  If the text ends right
\* behind a literal the two NULs agree as well, and the comparison goes on
\* behind both: the literal is not recognised, the pointer is behind the NUL.
IsLiteral(t, i) == At(t, i) = "nu" /\ At(t, i + 1) = "ll" /\ At(t, i + 2) # NUL
AfterCompare(t, i) ==
  IF At(t, i) # "nu" THEN i ELSE IF At(t, i + 1) # "ll" THEN i + 1 ELSE i + 3

Failed(s, i) == [s EXCEPT !.rule = "failed", !.at = i]
Returned(s, i, value) == [s EXCEPT !.rule = "after", !.at = i, !.value = value]

\* An array or object opens: empty, or one more call on the stack.
Open(s, first, at_first, closing, type, rule) ==
  IF at_first = closing THEN Returned(s, first + 1, Value(type, << >>))
  ELSE [s EXCEPT !.rule = rule, !.at = first, !.stack = <<closing>> \o @]

ParseValue(t, s) ==
  LET i == AfterCompare(t, s.at)
      first == Skip(t, i + 1) IN
    IF IsLiteral(t, s.at) THEN Returned(s, s.at + 2, Value("literal", << >>))
    ELSE
      CASE At(t, i) = Quote ->
           Returned(s, AfterString(t, i), Value("string", Characters(t, i + 1)))
      [] At(t, i) \in {"-", "1"} ->
           Returned(s, AfterNumber(t, i),
                    Value("number", SubSeq(t, i, IntegerEnd(t, i) - 1)))
      [] At(t, i) = "[" -> Open(s, first, At(t, first), "]", "array", "value")
      [] At(t, i) = "{" -> Open(s, first, At(t, first), "}", "object", "name")
      [] OTHER -> Failed(s, i)

\* The members of the outermost object are what the server looks at.
Outermost(s) == s.stack = <<"}">>

ParseName(t, s) ==
  LET colon == Skip(t, AfterString(t, s.at)) IN
    IF At(t, s.at) # Quote THEN Failed(s, s.at)
    ELSE IF At(t, colon) # ":" THEN Failed(s, colon)
    ELSE [s EXCEPT !.rule = "value", !.at = Skip(t, colon + 1),
                   !.name = IF Outermost(s) THEN Characters(t, s.at + 1) ELSE @]

\* Behind a comma a closing bracket leaves the loop, and is then asked for once
\* more; the bracket without the comma is asked for once.
AfterValue(t, s) ==
  LET comma == Skip(t, s.at)
      more == Skip(t, comma + 1)
      kept == IF Outermost(s)
                THEN [s EXCEPT !.members = Append(@, [name |-> s.name, value |-> s.value])]
                ELSE s IN
    IF s.stack = << >> THEN [s EXCEPT !.rule = "done"]
    ELSE IF At(t, comma) # "," THEN [kept EXCEPT !.rule = "close", !.at = comma]
    ELSE IF At(t, more) = s.stack[1] THEN [kept EXCEPT !.rule = "close", !.at = more + 1]
    ELSE [kept EXCEPT !.at = more, !.rule = IF s.stack[1] = "]" THEN "value" ELSE "name"]

Close(t, s) ==
  IF At(t, s.at) # s.stack[1] THEN Failed(s, s.at)
  ELSE [Returned(s, s.at + 1, Value(IF s.stack[1] = "]" THEN "array" ELSE "object", << >>))
          EXCEPT !.stack = Tail(@)]

Step(t, s) ==
  CASE s.rule = "value" -> ParseValue(t, s)
    [] s.rule = "name" -> ParseName(t, s)
    [] s.rule = "after" -> AfterValue(t, s)
    [] s.rule = "close" -> Close(t, s)
    [] OTHER -> s

Start(t) ==
  [rule |-> "value", at |-> Skip(t, 1), stack |-> << >>,
   name |-> << >>, value |-> Absent, members |-> << >>]

\* No step but the one behind a value leaves the pointer where it is.
MostSteps(t) == 2 * Len(t) + 10

\* cJSON_Parse_Stream: the value and its members, if rule is "done", and *end_ptr.
ParseStream(t) ==
  LET run[n \in 0 .. MostSteps(t)] ==
        IF n = 0 THEN Start(t)
        ELSE CHOOSE s \in {Step(t, r) : r \in {run[n - 1]}} : TRUE IN
    run[MostSteps(t)]

\* cJSON_GetObjectItem: the first member of that name.
GetObjectItem(members, name) ==
  LET named == SelectSeq(members, LAMBDA m : m.name = <<name>>) IN
    IF named = << >> THEN Absent ELSE named[1].value
=============================================================================
