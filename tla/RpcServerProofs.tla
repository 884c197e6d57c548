--------------------------- MODULE RpcServerProofs ---------------------------
(***************************************************************************)
(* Theorems about RpcServer, for any clients, texts, tables and sizes of   *)
(* the buffer.                                                             *)
(*                                                                         *)
(* What the buffer of a connection holds after a request depends on where  *)
(* the parser has left its pointer.  So the first part is about JsonText:  *)
(* on every text the parser comes to an end, and its pointer is left in    *)
(* the text, at its NUL, or at most four places behind.                    *)
(*                                                                         *)
(* The server parses what it has read of a request, with more behind it or *)
(* with its end still to come.  So the next parts compare a run of the     *)
(* parser on a text with its run on another that holds it: the states are  *)
(* alike as long as the text around has no part in them.  An array or      *)
(* object that is found is found by what is in the text alone, and so is   *)
(* something wrong before its end.  It follows that what a connection has  *)
(* in its buffer and what is still to be read are, behind blanks, the      *)
(* requests not yet taken (Untaken), as long as the server has dropped     *)
(* nothing of them, and that the parser never takes one for another.       *)
(*                                                                         *)
(* The last part is the refinement.  It needs what a table binds to a name *)
(* (the functions registered under it, in order) to be what registrations  *)
(* and deregistrations make of it, and what the server finds there to be   *)
(* the last of them.                                                       *)
(***************************************************************************)
EXTENDS RpcServer, SequenceTheorems, FiniteSetTheorems, WellFoundedInduction, TLAPS

-----------------------------------------------------------------------------
(* Induction, without an operator to instantiate: from the well-foundedness *)
(* of the subsets of 0 .. m.                                                *)

LEMMA Least ==
  ASSUME NEW T \in SUBSET Nat, T # {}
  PROVE  \E x \in T : \A y \in T : x <= y
  <1> PICK m \in T : TRUE  OBVIOUS
  <1> DEFINE S == 0 .. m
             R == StrictSubsetOrdering(S)
             Below == {n \in T : n <= m}
             Q == {0 .. k : k \in Below}
  <1>1. IsFiniteSet(S)  BY FS_Interval
  <1>2. IsWellFoundedOn(R, SUBSET S)
    BY <1>1, FS_FiniteSubsetsOfFinite, FS_StrictSubsetOrderingWellFounded
  <1>3. Q \subseteq SUBSET S /\ 0 .. m \in Q  OBVIOUS
  <1>4. \E x \in Q : \A y \in Q : <<y, x>> \notin R
    <2> HIDE DEF Q, R, S
    <2> QED  BY <1>2, <1>3, WFMin
  <1>5. PICK k \in Below : \A j \in Below : <<0 .. j, 0 .. k>> \notin R
    BY <1>4
  <1>6. ASSUME NEW y \in T, y < k  PROVE FALSE
    <2>1. y \in Below  BY <1>6
    <2>2. 0 .. y \subseteq 0 .. k /\ k \in 0 .. k /\ k \notin 0 .. y /\ 0 .. k \subseteq S
      BY <1>6
    <2>3. <<0 .. y, 0 .. k>> \in R  BY <2>2 DEF StrictSubsetOrdering
    <2> QED  BY <2>1, <2>3, <1>5
  <1> QED  BY <1>6

LEMMA Induction ==
  ASSUME NEW S \in SUBSET Nat, 0 \in S, \A n \in S : n + 1 \in S
  PROVE  S = Nat
  <1> SUFFICES ASSUME S # Nat PROVE FALSE  OBVIOUS
  <1>1. PICK x \in Nat \ S : \A y \in Nat \ S : x <= y  BY Least
  <1>2. x # 0 /\ x - 1 \in Nat /\ x - 1 \notin Nat \ S  BY <1>1
  <1> QED  BY <1>2

\* From the greatest place down.
LEMMA Downwards ==
  ASSUME NEW M \in Nat, NEW T, \A j \in 1 .. M : (\A k \in j + 1 .. M : k \in T) => j \in T
  PROVE  \A j \in 1 .. M : j \in T
  <1> DEFINE U == {M - j : j \in {k \in 1 .. M : k \notin T}}
  <1> SUFFICES ASSUME NEW i \in 1 .. M, i \notin T  PROVE FALSE
    OBVIOUS
  <1>1. U \in SUBSET Nat /\ U # {}  OBVIOUS
  <1>2. PICK u \in U : \A v \in U : u <= v
    <2> HIDE DEF U
    <2> QED  BY <1>1, Least
  <1>3. PICK j \in 1 .. M : j \notin T /\ u = M - j  OBVIOUS
  <1>4. ASSUME NEW k \in j + 1 .. M, k \notin T  PROVE FALSE
    <2>1. k \in 1 .. M /\ M - k < M - j  BY <1>4
    <2>2. M - k \in U  BY <1>4, <2>1
    <2>3. u <= M - k  BY <1>2, <2>2
    <2> QED  BY <1>3, <2>1, <2>3
  <1> QED  BY <1>3, <1>4

-----------------------------------------------------------------------------
(* Scans                                                                    *)

\* A text is a sequence of anything; NUL is what is behind it.
LEMMA Places ==
  ASSUME NEW S, NEW t \in Seq(S)
  PROVE  /\ Len(t) \in Nat /\ LastPlace(t) = Len(t) + 5 /\ LastPlace(t) \in Positions(t)
         /\ \A j \in Int : At(t, j) # NUL => j \in 1 .. Len(t)
         /\ Positions(t) = 1 .. Len(t) + 5
  BY DEF LastPlace, Positions, At

\* Past: behind every repetition of the symbol, and where that ends.
LEMMA PastIs ==
  ASSUME NEW S, NEW t \in Seq(S), NEW i \in Positions(t), NEW symbol, symbol # NUL
  PROVE  /\ Past(t, symbol, i) \in i .. LastPlace(t)
         /\ At(t, Past(t, symbol, i)) # symbol
         /\ \A k \in i .. Past(t, symbol, i) - 1 : At(t, k) = symbol
  <1> DEFINE T == {j \in i .. LastPlace(t) : At(t, j) # symbol}
  <1>1. /\ Len(t) \in Nat /\ LastPlace(t) = Len(t) + 5 /\ i \in 1 .. Len(t) + 5
        /\ At(t, LastPlace(t)) = NUL
    BY DEF LastPlace, Positions, At
  <1>2. T \in SUBSET Nat /\ LastPlace(t) \in T  BY <1>1
  <1>3. PICK j \in T : \A k \in T : j <= k  BY <1>2, Least
  <1>4. \A k \in i .. j - 1 : At(t, k) = symbol  BY <1>1, <1>3
  <1>5. \E l \in i .. LastPlace(t) :
          At(t, l) # symbol /\ \A k \in i .. l - 1 : At(t, k) = symbol
    BY <1>3, <1>4
  <1> QED  BY <1>5 DEF Past

LEMMA PastUnique ==
  ASSUME NEW S, NEW t \in Seq(S), NEW i \in Positions(t), NEW symbol, symbol # NUL,
         NEW j \in i .. LastPlace(t), At(t, j) # symbol, \A k \in i .. j - 1 : At(t, k) = symbol
  PROVE  Past(t, symbol, i) = j
  <1> DEFINE l == Past(t, symbol, i)
  <1>1. /\ l \in i .. LastPlace(t) /\ At(t, l) # symbol
        /\ \A k \in i .. l - 1 : At(t, k) = symbol
    BY PastIs
  <1>2. i \in Nat /\ LastPlace(t) \in Nat
    BY Places DEF Positions
  <1> HIDE DEF l
  <1>3. ~(l < j) /\ ~(j < l)  BY <1>1, <1>2
  <1> QED  BY <1>1, <1>2, <1>3 DEF l

LEMMA SkipType ==
  ASSUME NEW S, NEW t \in Seq(S), NEW i \in Positions(t)
  PROVE  Skip(t, i) \in i .. LastPlace(t)
  BY PastIs DEF Skip, NUL

LEMMA AfterDigitsType ==
  ASSUME NEW S, NEW t \in Seq(S), NEW i \in Positions(t)
  PROVE  /\ AfterDigits(t, i) \in i .. LastPlace(t)
         /\ At(t, i) = "1" => AfterDigits(t, i) # i
  BY PastIs DEF AfterDigits, NUL

\* The two scans of a string: for its end, and for its characters.
Stops(t, j) == At(t, j) \in {Quote, NUL}
\* What a scan makes of its stop, and of a symbol in front of what is behind.
AtStop(kind, j) == IF kind = "end" THEN j ELSE << >>
Before(kind, c, x) == IF kind = "end" THEN x ELSE <<c>> \o x
Scanned(t, kind, f, j) ==
  IF Stops(t, j) THEN AtStop(kind, j)
  ELSE IF At(t, j) = Backslash THEN Before(kind, Escaped(At(t, j + 1)), f[j + Taken(t, j)])
  ELSE Before(kind, t[j], f[j + 1])

\* An escape goes on to a place, and no further than its second symbol says.
LEMMA TakenType ==
  ASSUME NEW S, NEW t \in Seq(S), NEW j \in 1 .. Len(t)
  PROVE  /\ Taken(t, j) \in {2, 6} /\ j + Taken(t, j) \in Int
         /\ j + Taken(t, j) \in j + 2 .. LastPlace(t)
  <1> DEFINE wide == "u"
  <1>1. wide # NUL  BY Zenon DEF NUL
  <1>2. Taken(t, j) = IF At(t, j + 1) = wide THEN 6 ELSE 2  BY DEF Taken
  <1> HIDE DEF wide
  <1>3. /\ Len(t) \in Nat /\ LastPlace(t) = Len(t) + 5
        /\ At(t, j + 1) # NUL => j + 1 \in 1 .. Len(t)
    BY Places
  <1> QED  BY <1>1, <1>2, <1>3

LEMMA TakenAlike ==
  ASSUME NEW t, NEW u, NEW j, NEW k, At(u, k + 1) = At(t, j + 1)
  PROVE  Taken(u, k) = Taken(t, j)
  BY DEF Taken

\* Up from any place a scan is defined.
LEMMA ScanDefined ==
  ASSUME NEW S, NEW t \in Seq(S), NEW kind
  PROVE  \E f : f = [j \in Positions(t) |-> Scanned(t, kind, f, j)]
  <1> DEFINE M == Len(t) + 5
             Scan(k) == k .. M
             K == {k \in Nat : \E f : f = [j \in Scan(k) |-> Scanned(t, kind, f, j)]}
  <1>1. /\ M \in Nat /\ M >= 2 /\ Positions(t) = 1 .. M
        /\ \A j \in 1 .. M : ~Stops(t, j) => j \in 1 .. Len(t)
    BY Places DEF Stops
  <1>2. ASSUME NEW f, NEW g, NEW j,
               ~Stops(t, j) => /\ f[j + 1] = g[j + 1]
                               /\ f[j + Taken(t, j)] = g[j + Taken(t, j)]
        PROVE  Scanned(t, kind, f, j) = Scanned(t, kind, g, j)
    BY <1>2 DEF Scanned
  <1>3. ASSUME NEW k \in 1 .. M, \A l \in k + 1 .. M : l \in K  PROVE k \in K
    <2>1. PICK f : f = [j \in Scan(k + 1) |-> Scanned(t, kind, f, j)]
      <3>1. CASE k + 1 \in k + 1 .. M  BY <1>3, <3>1
      <3>2. CASE k + 1 \notin k + 1 .. M
        <4> DEFINE e == [j \in {} |-> 0]
        <4>1. Scan(k + 1) = {}  BY <3>2, <1>1
        <4>2. e = [j \in Scan(k + 1) |-> Scanned(t, kind, e, j)]  BY <4>1
        <4> HIDE DEF e
        <4> QED  BY <4>2
      <3> QED  BY <3>1, <3>2
    <2> DEFINE g == [j \in Scan(k) |-> IF j \in Scan(k + 1) THEN f[j]
                                       ELSE Scanned(t, kind, f, j)]
    <2>2. \A j \in Scan(k + 1) : g[j] = f[j]  BY <1>1
    <2>3. ASSUME NEW j \in Scan(k)  PROVE g[j] = Scanned(t, kind, g, j)
      <3>1. g[j] = Scanned(t, kind, f, j)
        <4>1. CASE j \in Scan(k + 1)  BY <4>1, <2>1
        <4>2. CASE j \notin Scan(k + 1)  BY <4>2
        <4> QED  BY <4>1, <4>2
      <3>2. ~Stops(t, j) => j + 1 \in Scan(k + 1) /\ j + Taken(t, j) \in Scan(k + 1)
        <4>1. ~Stops(t, j) => j \in 1 .. Len(t)  BY <1>1
        <4>2. ~Stops(t, j) => j + Taken(t, j) \in j + 2 .. LastPlace(t)
          BY <4>1, TakenType
        <4>3. LastPlace(t) = M /\ Len(t) \in Nat  BY Places
        <4> QED  BY <1>1, <4>1, <4>2, <4>3
      <3>3. Scanned(t, kind, f, j) = Scanned(t, kind, g, j)
        <4>1. ~Stops(t, j) => /\ f[j + 1] = g[j + 1]
                              /\ f[j + Taken(t, j)] = g[j + Taken(t, j)]
          <5> HIDE DEF g, Scan
          <5> QED  BY <2>2, <3>2
        <4> HIDE DEF g, Scan
        <4> QED  BY <1>2, <4>1
      <3> QED  BY <3>1, <3>3
    <2>4. g = [j \in Scan(k) |-> Scanned(t, kind, g, j)]  BY <2>3
    <2>5. \E h : h = [j \in Scan(k) |-> Scanned(t, kind, h, j)]
      <3> HIDE DEF g
      <3> QED  BY <2>4
    <2> QED  BY <2>5
  <1>4. 1 \in K
    <2>1. \A k \in 1 .. M : k \in K
      <3> HIDE DEF K, M
      <3> QED  BY <1>1, <1>3, Downwards
    <2> HIDE DEF K
    <2> QED  BY <1>1, <2>1
  <1> QED  BY <1>1, <1>4

\* So both scans are what their equations say, and the first stops in the text, at its
\* NUL, or, when it has gone over the NUL with an escape, a few places behind.
LEMMA StringEndIs ==
  ASSUME NEW S, NEW t \in Seq(S), NEW j \in Positions(t)
  PROVE  StringEnd(t, j) = IF Stops(t, j) THEN j
                           ELSE IF At(t, j) = Backslash THEN StringEnd(t, j + Taken(t, j))
                           ELSE StringEnd(t, j + 1)
  <1> DEFINE Cases(f, k) == CASE At(t, k) \in {Quote, NUL} -> k
                              [] At(t, k) = Backslash -> f[k + Taken(t, k)]
                              [] OTHER -> f[k + 1]
             end == CHOOSE f : f = [k \in Positions(t) |-> Cases(f, k)]
  <1>1. \A k : StringEnd(t, k) = end[k]  BY DEF StringEnd
  <1>2. ASSUME NEW f, NEW k  PROVE Cases(f, k) = Scanned(t, "end", f, k)
    BY DEF Scanned, Stops, AtStop, Before, Quote, Backslash, NUL
  <1> HIDE DEF Cases
  <1>3. PICK f : f = [k \in Positions(t) |-> Scanned(t, "end", f, k)]  BY ScanDefined
  <1>4. f = [k \in Positions(t) |-> Cases(f, k)]  BY <1>2, <1>3
  <1>5. end = [k \in Positions(t) |-> Cases(end, k)]  BY <1>4
  <1> HIDE DEF end
  <1>6. end[j] = Scanned(t, "end", end, j)  BY <1>2, <1>5
  <1> QED  BY <1>1, <1>6 DEF Scanned, AtStop, Before

LEMMA CharactersIs ==
  ASSUME NEW S, NEW t \in Seq(S), NEW j \in Positions(t)
  PROVE  Characters(t, j) =
           IF Stops(t, j) THEN << >>
           ELSE IF At(t, j) = Backslash
             THEN <<Escaped(At(t, j + 1))>> \o Characters(t, j + Taken(t, j))
           ELSE <<t[j]>> \o Characters(t, j + 1)
  <1> DEFINE Cases(f, k) == CASE At(t, k) \in {Quote, NUL} -> << >>
                              [] At(t, k) = Backslash ->
                                   <<Escaped(At(t, k + 1))>> \o f[k + Taken(t, k)]
                              [] OTHER -> <<t[k]>> \o f[k + 1]
             chars == CHOOSE f : f = [k \in Positions(t) |-> Cases(f, k)]
  <1>1. \A k : Characters(t, k) = chars[k]  BY DEF Characters
  <1>2. ASSUME NEW f, NEW k  PROVE Cases(f, k) = Scanned(t, "characters", f, k)
    BY DEF Scanned, Stops, AtStop, Before, Quote, Backslash, NUL
  <1> HIDE DEF Cases
  <1>3. PICK f : f = [k \in Positions(t) |-> Scanned(t, "characters", f, k)]  BY ScanDefined
  <1>4. f = [k \in Positions(t) |-> Cases(f, k)]  BY <1>2, <1>3
  <1>5. chars = [k \in Positions(t) |-> Cases(chars, k)]  BY <1>4
  <1> HIDE DEF chars
  <1>6. chars[j] = Scanned(t, "characters", chars, j)  BY <1>2, <1>5
  <1>7. Scanned(t, "characters", chars, j)
          = IF Stops(t, j) THEN << >>
            ELSE IF At(t, j) = Backslash
              THEN <<Escaped(At(t, j + 1))>> \o chars[j + Taken(t, j)]
            ELSE <<t[j]>> \o chars[j + 1]
    BY DEF Scanned, AtStop, Before
  <1>8. /\ Characters(t, j) = chars[j] /\ Characters(t, j + 1) = chars[j + 1]
        /\ Characters(t, j + Taken(t, j)) = chars[j + Taken(t, j)]
    BY <1>1
  <1> QED  BY <1>6, <1>7, <1>8

LEMMA StringEndPlace ==
  ASSUME NEW S, NEW t \in Seq(S), NEW i \in Positions(t)
  PROVE  StringEnd(t, i) \in i .. LastPlace(t)
  <1> DEFINE M == Len(t) + 5
             T == {j \in 1 .. M : StringEnd(t, j) \in j .. M}
  <1>1. /\ M \in Nat /\ Positions(t) = 1 .. M /\ LastPlace(t) = M
        /\ \A j \in 1 .. M : ~Stops(t, j) => j \in 1 .. Len(t)
    BY Places DEF Stops
  <1>2. ASSUME NEW j \in 1 .. M, \A k \in j + 1 .. M : k \in T  PROVE j \in T
    <2>1. CASE Stops(t, j)  BY <1>1, <2>1, StringEndIs
    <2>2. CASE ~Stops(t, j)
      <3> DEFINE k == j + Taken(t, j)
      <3>0. j \in 1 .. Len(t)  BY <1>1, <2>2
      <3>1. j + 1 \in j + 1 .. M /\ k \in j + 2 .. M
        BY <1>1, <3>0, TakenType
      <3>2. StringEnd(t, j) \in {StringEnd(t, j + 1), StringEnd(t, k)}
        BY <1>1, <2>2, StringEndIs
      <3> HIDE DEF k
      <3>3. k \in j + 1 .. M /\ k >= j  BY <1>1, <3>1
      <3>4. StringEnd(t, j + 1) \in j + 1 .. M /\ StringEnd(t, k) \in k .. M
        BY <1>2, <3>1, <3>3
      <3> QED  BY <1>1, <3>2, <3>3, <3>4
    <2> QED  BY <2>1, <2>2
  <1>3. \A j \in 1 .. M : j \in T
    <2> HIDE DEF T, M
    <2> QED  BY <1>1, <1>2, Downwards
  <1> QED  BY <1>1, <1>3

\* Behind a symbol of the text there is a place.
LEMMA NextPlace ==
  ASSUME NEW S, NEW t \in Seq(S), NEW i \in Positions(t), At(t, i) # NUL
  PROVE  i \in 1 .. Len(t) /\ i + 1 \in Positions(t) /\ i + 1 \in i + 1 .. LastPlace(t)
  <1>1. /\ Len(t) \in Nat /\ LastPlace(t) = Len(t) + 5 /\ Positions(t) = 1 .. Len(t) + 5
        /\ \A j \in Int : At(t, j) # NUL => j \in 1 .. Len(t)
    BY Places
  <1>2. i \in 1 .. Len(t)  BY <1>1
  <1> QED  BY <1>1, <1>2

\* The closing brackets.
Closing == {"]", "}"}

\* The strings are told apart here, and nowhere else.
LEMMA Symbols ==
  /\ Quote # NUL
  /\ \A c \in Closing \cup {"-", "1", "[", "{", ",", ":", "."} : c # NUL
  BY Zenon DEF Quote, NUL, Closing

LEMMA AfterStringType ==
  ASSUME NEW S, NEW t \in Seq(S), NEW i \in Positions(t), At(t, i) = Quote
  PROVE  AfterString(t, i) \in i + 1 .. LastPlace(t)
  <1>p. /\ Len(t) \in Nat /\ LastPlace(t) = Len(t) + 5 /\ Positions(t) = 1 .. Len(t) + 5
        /\ \A j \in Int : At(t, j) # NUL => j \in 1 .. Len(t)
    BY Places
  <1>1. i + 1 \in Positions(t)  BY Symbols, NextPlace
  <1>2. StringEnd(t, i + 1) \in i + 1 .. LastPlace(t)  BY <1>1, StringEndPlace
  <1>3. ASSUME At(t, StringEnd(t, i + 1)) = Quote
        PROVE  StringEnd(t, i + 1) + 1 \in i + 1 .. LastPlace(t)
    <2>1. StringEnd(t, i + 1) \in Positions(t)  BY <1>1, <1>2, <1>p
    <2>2. StringEnd(t, i + 1) + 1 \in Positions(t)  BY <1>3, <2>1, Symbols, NextPlace
    <2> QED  BY <1>2, <2>2, <1>p
  <1> QED  BY <1>2, <1>3 DEF AfterString

LEMMA AfterNumberType ==
  ASSUME NEW S, NEW t \in Seq(S), NEW i \in Positions(t), At(t, i) \in {"-", "1"}
  PROVE  AfterNumber(t, i) \in i + 1 .. LastPlace(t)
  <1>p. /\ Len(t) \in Nat /\ LastPlace(t) = Len(t) + 5 /\ Positions(t) = 1 .. Len(t) + 5
        /\ \A j \in Int : At(t, j) # NUL => j \in 1 .. Len(t)
    BY Places
  <1>1. i + 1 \in Positions(t)  BY Symbols, NextPlace
  <1>2. IntegerEnd(t, i) \in i + 1 .. LastPlace(t)
    <2>1. AfterDigits(t, i) \in i .. LastPlace(t) /\ (At(t, i) = "1" => AfterDigits(t, i) # i)
      BY AfterDigitsType
    <2>2. AfterDigits(t, i + 1) \in i + 1 .. LastPlace(t)  BY <1>1, AfterDigitsType
    <2> QED  BY <1>1, <2>1, <2>2, <1>p DEF IntegerEnd
  <1>3. ASSUME At(t, IntegerEnd(t, i)) = "."
        PROVE  AfterDigits(t, IntegerEnd(t, i) + 1) \in i + 1 .. LastPlace(t)
    <2>0. At(t, IntegerEnd(t, i)) # NUL  BY <1>3, Symbols
    <2>1. IntegerEnd(t, i) + 1 \in Positions(t)  BY <1>1, <1>2, <2>0, <1>p, NextPlace
    <2>2. AfterDigits(t, IntegerEnd(t, i) + 1) \in IntegerEnd(t, i) + 1 .. LastPlace(t)
      BY <2>1, AfterDigitsType
    <2> QED  BY <1>1, <1>2, <2>2, <1>p
  <1> QED  BY <1>2, <1>3 DEF AfterNumber

-----------------------------------------------------------------------------
(* The parser                                                               *)

Ended == {"done", "failed"}

\* A state of the parser: its pointer is in the text or up to four places behind its
\* NUL, and it asks for a closing bracket only while it knows which.
Parsing(t, s) ==
  /\ DOMAIN s = {"rule", "at", "stack", "name", "value", "members"}
  /\ s.rule \in {"value", "name", "after", "close"} \cup Ended
  /\ s.at \in Positions(t)
  /\ s.stack \in Seq(Closing)
  /\ s.rule = "close" => s.stack # << >>

\* What is left to do: places, and a step in a place.
Weight(n, e) == 2 * n + e
InPlace(s) == IF s.rule = "after" THEN 1 ELSE 0
Left(t, s) == Weight(LastPlace(t) - s.at, InPlace(s))

GoesOn(t, s, r) ==
  Parsing(t, r) /\ (r.rule \in Ended \/ Left(t, r) < Left(t, s))

LEMMA WeightType ==
  ASSUME NEW n \in Nat, NEW e \in {0, 1}
  PROVE  Weight(n, e) \in Nat /\ Weight(n, e) <= 2 * n + 1
  BY DEF Weight

LEMMA WeightFalls ==
  ASSUME NEW n \in Nat, NEW m \in Nat, NEW e \in {0, 1}, NEW d \in {0, 1},
         n < m \/ (n = m /\ e < d)
  PROVE  Weight(n, e) < Weight(m, d)
  <1>1. Weight(n, e) = 2 * n + e /\ Weight(m, d) = 2 * m + d  BY DEF Weight
  <1>2. CASE n < m
    <2>1. 2 * n + e < 2 * m + d  BY <1>2
    <2> QED  BY <1>1, <2>1
  <1>3. CASE n = m /\ e < d
    <2>1. 2 * n + e < 2 * n + d  BY <1>3
    <2> QED  BY <1>1, <1>3, <2>1
  <1> QED  BY <1>2, <1>3

LEMMA LeftType ==
  ASSUME NEW S, NEW t \in Seq(S), NEW s, s.at \in Positions(t)
  PROVE  Left(t, s) \in Nat /\ Left(t, s) <= 2 * (Len(t) + 5 - s.at) + 1
  <1>1. Len(t) \in Nat /\ LastPlace(t) = Len(t) + 5 /\ Positions(t) = 1 .. Len(t) + 5
    BY Places
  <1>2. LastPlace(t) - s.at \in Nat /\ LastPlace(t) - s.at = Len(t) + 5 - s.at
    BY <1>1
  <1>3. InPlace(s) \in {0, 1}  BY DEF InPlace
  <1>4. Left(t, s) \in Nat /\ Left(t, s) <= 2 * (LastPlace(t) - s.at) + 1
    BY <1>2, <1>3, WeightType DEF Left
  <1> QED  BY <1>2, <1>4

\* Every step but the one behind a value moves the pointer on.
LEMMA LeftFalls ==
  ASSUME NEW S, NEW t \in Seq(S), NEW s, NEW r, s.at \in Positions(t), r.at \in Positions(t),
         r.at >= s.at, r.at # s.at \/ (s.rule = "after" /\ r.rule # "after")
  PROVE  Left(t, r) < Left(t, s)
  <1> DEFINE n == LastPlace(t) - r.at
             m == LastPlace(t) - s.at
  <1>1. Len(t) \in Nat /\ LastPlace(t) = Len(t) + 5 /\ Positions(t) = 1 .. Len(t) + 5
    BY Places
  <1>2. n \in Nat /\ m \in Nat /\ (n < m \/ (n = m /\ r.at = s.at))
    BY <1>1
  <1>3. InPlace(s) \in {0, 1} /\ InPlace(r) \in {0, 1}
    BY DEF InPlace
  <1>4. r.at = s.at => InPlace(r) < InPlace(s)
    BY DEF InPlace
  <1>5. Left(t, r) = Weight(n, InPlace(r)) /\ Left(t, s) = Weight(m, InPlace(s))
    BY DEF Left
  <1> HIDE DEF n, m
  <1> QED  BY <1>2, <1>3, <1>4, <1>5, WeightFalls

LEMMA FailedGoesOn ==
  ASSUME NEW t, NEW s, Parsing(t, s), NEW i \in Positions(t)
  PROVE  GoesOn(t, s, Failed(s, i))
  BY DEF Failed, Parsing, GoesOn, Ended

LEMMA ReturnedGoesOn ==
  ASSUME NEW S, NEW t \in Seq(S), NEW s, Parsing(t, s), NEW value, s.rule # "after",
         NEW i \in s.at + 1 .. LastPlace(t)
  PROVE  GoesOn(t, s, Returned(s, i, value))
  <1>p. /\ Len(t) \in Nat /\ LastPlace(t) = Len(t) + 5 /\ Positions(t) = 1 .. Len(t) + 5
        /\ \A j \in Int : At(t, j) # NUL => j \in 1 .. Len(t)
    BY Places
  <1> DEFINE r == Returned(s, i, value)
  <1>1. /\ DOMAIN r = DOMAIN s /\ r.rule = "after" /\ r.at = i /\ r.stack = s.stack
    BY DEF Returned, Parsing
  <1>2. i \in Positions(t) /\ s.at \in Nat /\ LastPlace(t) \in Nat
    BY <1>p DEF Parsing
  <1> HIDE DEF r
  <1>3. Parsing(t, r)  BY <1>1, <1>2 DEF Parsing
  <1>4. Left(t, r) < Left(t, s)  BY <1>1, <1>2, LeftFalls DEF Parsing
  <1> QED  BY <1>3, <1>4 DEF GoesOn, r

LEMMA OpenGoesOn ==
  ASSUME NEW S, NEW t \in Seq(S), NEW s, Parsing(t, s), s.rule = "value",
         NEW i \in Positions(t), i \in s.at .. LastPlace(t), At(t, i) # NUL,
         NEW closing \in Closing, NEW type, NEW rule \in {"value", "name"}
  PROVE  GoesOn(t, s, Open(s, Skip(t, i + 1), At(t, Skip(t, i + 1)), closing, type, rule))
  <1> DEFINE first == Skip(t, i + 1)
             r == [s EXCEPT !.rule = rule, !.at = first, !.stack = <<closing>> \o @]
  <1>p. LastPlace(t) \in Nat /\ Positions(t) = 1 .. LastPlace(t)
    BY Places
  <1>a. s.at \in Positions(t)  BY DEF Parsing
  <1>1. i + 1 \in Positions(t)  BY NextPlace
  <1>2. first \in i + 1 .. LastPlace(t)  BY <1>1, SkipType
  <1> HIDE DEF first
  <1>3. first \in s.at + 1 .. LastPlace(t) /\ first \in Positions(t) /\ first > s.at
    BY <1>a, <1>2, <1>p
  <1>4. CASE At(t, first) = closing
    <2>1. At(t, first) # NUL  BY <1>4, Symbols
    <2>2. first + 1 \in Positions(t)  BY <1>3, <2>1, NextPlace
    <2>3. first + 1 \in s.at + 1 .. LastPlace(t)  BY <1>a, <1>3, <2>2, <1>p
    <2>4. Open(s, first, At(t, first), closing, type, rule)
            = Returned(s, first + 1, Value(type, << >>))
      BY <1>4 DEF Open
    <2>5. s.rule # "after"  OBVIOUS
    <2>6. GoesOn(t, s, Returned(s, first + 1, Value(type, << >>)))
      BY <2>3, <2>5, ReturnedGoesOn
    <2> QED  BY <2>4, <2>6 DEF first
  <1>5. CASE At(t, first) # closing
    <2>1. Open(s, first, At(t, first), closing, type, rule) = r  BY <1>5 DEF Open
    <2>2. /\ DOMAIN r = DOMAIN s /\ r.rule = rule /\ r.at = first
          /\ r.stack = <<closing>> \o s.stack
      BY DEF Parsing
    <2>3. r.stack \in Seq(Closing)
      <3>1. s.stack \in Seq(Closing) /\ <<closing>> \in Seq(Closing)  BY DEF Parsing
      <3> QED  BY <2>2, <3>1
    <2> HIDE DEF r
    <2>4. Parsing(t, r)  BY <1>3, <2>2, <2>3 DEF Parsing
    <2>5. Left(t, r) < Left(t, s)
      <3>1. r.at \in Positions(t) /\ r.at >= s.at /\ r.at # s.at  BY <1>a, <1>3, <2>2, <1>p
      <3> QED  BY <1>a, <3>1, LeftFalls
    <2> QED  BY <2>1, <2>4, <2>5 DEF GoesOn, first
  <1> QED  BY <1>4, <1>5

LEMMA ValueGoesOn ==
  ASSUME NEW S, NEW t \in Seq(S), NEW s, Parsing(t, s), s.rule = "value"
  PROVE  GoesOn(t, s, ParseValue(t, s))
  <1>p. /\ Len(t) \in Nat /\ LastPlace(t) = Len(t) + 5 /\ Positions(t) = 1 .. Len(t) + 5
        /\ \A j \in Int : At(t, j) # NUL => j \in 1 .. Len(t)
    BY Places
  <1> DEFINE i == AfterCompare(t, s.at)
             first == Skip(t, i + 1)
  <1>a. s.at \in Positions(t)  BY DEF Parsing
  <1>1. i \in s.at .. LastPlace(t) /\ i \in Positions(t)
    BY <1>a, <1>p DEF AfterCompare, NUL
  <1>2. CASE IsLiteral(t, s.at)
    <2>1. s.at + 2 \in s.at + 1 .. LastPlace(t)  BY <1>a, <1>2, <1>p DEF IsLiteral, NUL
    <2>2. ParseValue(t, s) = Returned(s, s.at + 2, Value("literal", << >>))
      BY <1>2 DEF ParseValue
    <2> QED  BY <2>1, <2>2, ReturnedGoesOn
  <1> SUFFICES ASSUME ~IsLiteral(t, s.at)  PROVE GoesOn(t, s, ParseValue(t, s))
    BY <1>2
  <1> HIDE DEF i
  <1>3. CASE At(t, i) = Quote
    <2>1. AfterString(t, i) \in s.at + 1 .. LastPlace(t)
      BY <1>a, <1>1, <1>3, AfterStringType, <1>p
    <2>2. ParseValue(t, s) =
            Returned(s, AfterString(t, i), Value("string", Characters(t, i + 1)))
      BY <1>3, Zenon DEF ParseValue, i, Quote
    <2> QED  BY <2>1, <2>2, ReturnedGoesOn
  <1>4. CASE At(t, i) \in {"-", "1"}
    <2>1. AfterNumber(t, i) \in s.at + 1 .. LastPlace(t)
      BY <1>a, <1>1, <1>4, AfterNumberType, <1>p
    <2>2. ParseValue(t, s) =
            Returned(s, AfterNumber(t, i),
                     Value("number", SubSeq(t, i, IntegerEnd(t, i) - 1)))
      BY <1>4 DEF ParseValue, i, Quote
    <2> QED  BY <2>1, <2>2, ReturnedGoesOn
  <1>6. CASE At(t, i) = "["
    <2>1. ParseValue(t, s) = Open(s, first, At(t, first), "]", "array", "value")
      BY <1>6 DEF ParseValue, i, Quote
    <2>2. "]" \in Closing /\ At(t, i) # NUL  BY <1>6, Symbols, Zenon DEF Closing
    <2>3. GoesOn(t, s, Open(s, first, At(t, first), "]", "array", "value"))
      BY <1>1, <2>2, OpenGoesOn, Zenon
    <2> HIDE DEF first
    <2> QED  BY <2>1, <2>3, Zenon
  <1>7. CASE At(t, i) = "{"
    <2>1. ParseValue(t, s) = Open(s, first, At(t, first), "}", "object", "name")
      BY <1>7 DEF ParseValue, i, Quote
    <2>2. "}" \in Closing /\ At(t, i) # NUL  BY <1>7, Symbols, Zenon DEF Closing
    <2>3. GoesOn(t, s, Open(s, first, At(t, first), "}", "object", "name"))
      BY <1>1, <2>2, OpenGoesOn, Zenon
    <2> HIDE DEF first
    <2> QED  BY <2>1, <2>3, Zenon
  <1>8. CASE At(t, i) \notin {Quote, "-", "1", "[", "{"}
    <2>1. ParseValue(t, s) = Failed(s, i)  BY <1>8 DEF ParseValue, i
    <2> QED  BY <1>1, <2>1, FailedGoesOn
  <1> QED  BY <1>3, <1>4, <1>6, <1>7, <1>8

LEMMA NameGoesOn ==
  ASSUME NEW S, NEW t \in Seq(S), NEW s, Parsing(t, s), s.rule = "name"
  PROVE  GoesOn(t, s, ParseName(t, s))
  <1>p. /\ Len(t) \in Nat /\ LastPlace(t) = Len(t) + 5 /\ Positions(t) = 1 .. Len(t) + 5
        /\ \A j \in Int : At(t, j) # NUL => j \in 1 .. Len(t)
    BY Places
  <1> DEFINE colon == Skip(t, AfterString(t, s.at))
             value == Skip(t, colon + 1)
             r == [s EXCEPT !.rule = "value", !.at = value,
                            !.name = IF Outermost(s) THEN Characters(t, s.at + 1) ELSE @]
  <1>a. s.at \in Positions(t)  BY DEF Parsing
  <1>1. CASE At(t, s.at) # Quote
    <2>1. ParseName(t, s) = Failed(s, s.at)  BY <1>1 DEF ParseName
    <2> QED  BY <1>a, <2>1, FailedGoesOn
  <1> SUFFICES ASSUME At(t, s.at) = Quote  PROVE GoesOn(t, s, ParseName(t, s))
    BY <1>1
  <1>2. AfterString(t, s.at) \in s.at + 1 .. LastPlace(t)  BY <1>a, AfterStringType
  <1>3. AfterString(t, s.at) \in Positions(t)  BY <1>a, <1>2, <1>p
  <1>4. colon \in AfterString(t, s.at) .. LastPlace(t)  BY <1>3, SkipType
  <1>5. colon \in s.at + 1 .. LastPlace(t) /\ colon \in Positions(t)
    BY <1>a, <1>2, <1>3, <1>4, <1>p
  <1>6. CASE At(t, colon) # ":"
    <2>1. ParseName(t, s) = Failed(s, colon)  BY <1>6 DEF ParseName
    <2> QED  BY <1>5, <2>1, FailedGoesOn
  <1>7. CASE At(t, colon) = ":"
    <2> HIDE DEF colon
    <2>0. At(t, colon) # NUL  BY <1>7, Symbols
    <2>1. colon + 1 \in Positions(t)  BY <1>5, <2>0, NextPlace
    <2>2. value \in colon + 1 .. LastPlace(t)  BY <2>1, SkipType
    <2>3. value \in s.at + 1 .. LastPlace(t) /\ value \in Positions(t)
      BY <1>a, <1>5, <2>1, <2>2, <1>p
    <2>4. ParseName(t, s) = r  BY <1>7 DEF ParseName, colon
    <2> HIDE DEF value
    <2>5. DOMAIN r = DOMAIN s /\ r.rule = "value" /\ r.at = value /\ r.stack = s.stack
      BY DEF Parsing
    <2> HIDE DEF r
    <2>6. Parsing(t, r)  BY <2>3, <2>5 DEF Parsing
    <2>7. Left(t, r) < Left(t, s)  BY <1>a, <2>3, <2>5, <1>p, LeftFalls
    <2> QED  BY <2>4, <2>6, <2>7 DEF GoesOn
  <1> QED  BY <1>6, <1>7

LEMMA AfterValueGoesOn ==
  ASSUME NEW S, NEW t \in Seq(S), NEW s, Parsing(t, s), s.rule = "after"
  PROVE  GoesOn(t, s, AfterValue(t, s))
  <1>p. /\ Len(t) \in Nat /\ LastPlace(t) = Len(t) + 5 /\ Positions(t) = 1 .. Len(t) + 5
        /\ \A j \in Int : At(t, j) # NUL => j \in 1 .. Len(t)
    BY Places
  <1> DEFINE comma == Skip(t, s.at)
             more == Skip(t, comma + 1)
             kept == IF Outermost(s)
                       THEN [s EXCEPT !.members =
                               Append(@, [name |-> s.name, value |-> s.value])]
                       ELSE s
  <1>a. s.at \in Positions(t)  BY DEF Parsing
  <1>b. /\ DOMAIN kept = {"rule", "at", "stack", "name", "value", "members"}
        /\ kept.stack = s.stack
    BY DEF Parsing
  <1>1. CASE s.stack = << >>
    <2>1. AfterValue(t, s) = [s EXCEPT !.rule = "done"]  BY <1>1 DEF AfterValue
    <2> QED  BY <2>1 DEF Parsing, GoesOn, Ended
  <1> SUFFICES ASSUME s.stack # << >>  PROVE GoesOn(t, s, AfterValue(t, s))
    BY <1>1
  <1>c. s.stack \in Seq(Closing) /\ s.stack[1] \in Closing
    <2>1. s.stack \in Seq(Closing)  BY DEF Parsing
    <2> QED  BY <2>1
  <1>2. comma \in s.at .. LastPlace(t) /\ comma \in Positions(t)
    BY <1>a, SkipType, <1>p
  \* The rule and the place the step leads to decide.
  <1>3. ASSUME NEW rule \in {"value", "name", "close"}, NEW i \in Positions(t), i >= s.at,
               AfterValue(t, s) = [kept EXCEPT !.rule = rule, !.at = i]
        PROVE  GoesOn(t, s, AfterValue(t, s))
    <2> DEFINE r == [kept EXCEPT !.rule = rule, !.at = i]
    <2>1. DOMAIN r = DOMAIN kept /\ r.rule = rule /\ r.at = i /\ r.stack = s.stack
      <3> HIDE DEF kept
      <3> QED  BY <1>b
    <2> HIDE DEF r, kept
    <2>2. Parsing(t, r)  BY <1>b, <1>c, <2>1 DEF Parsing
    <2>3. Left(t, r) < Left(t, s)  BY <1>3, <1>a, <2>1, <1>p, LeftFalls
    <2> QED  BY <1>3, <2>2, <2>3 DEF GoesOn, r
  <1>4. CASE At(t, comma) # ","
    <2>1. AfterValue(t, s) = [kept EXCEPT !.rule = "close", !.at = comma]
      BY <1>4 DEF AfterValue
    <2>2. comma >= s.at  BY <1>2, <1>a, <1>p
    <2> HIDE DEF comma, kept
    <2> QED  BY <1>3, <1>2, <2>1, <2>2, Zenon
  <1>5. ASSUME At(t, comma) = ","
        PROVE  more \in Positions(t) /\ more >= s.at
    <2> HIDE DEF comma
    <2>1. At(t, comma) # NUL  BY <1>5, Symbols, Zenon
    <2>1a. comma + 1 \in Positions(t)  BY <1>2, <2>1, NextPlace
    <2>2. more \in comma + 1 .. LastPlace(t)  BY <2>1a, SkipType
    <2> HIDE DEF more
    <2> QED  BY <1>a, <1>2, <2>1a, <2>2, <1>p
  <1>6. CASE At(t, comma) = "," /\ At(t, more) = s.stack[1]
    <2>1. AfterValue(t, s) = [kept EXCEPT !.rule = "close", !.at = more + 1]
      BY <1>6 DEF AfterValue
    <2>0. more \in Positions(t) /\ more >= s.at  BY <1>5, <1>6, Zenon
    <2>00. At(t, more) = s.stack[1]  BY <1>6, Zenon
    <2> HIDE DEF comma, more, kept
    <2>2. more + 1 \in Positions(t) /\ more + 1 >= s.at
      <3>1. At(t, more) # NUL  BY <1>c, <2>00, Symbols
      <3>2. more + 1 \in Positions(t)  BY <2>0, <3>1, NextPlace
      <3> QED  BY <1>a, <2>0, <3>2, <1>p
    <2> QED  BY <1>3, <2>1, <2>2
  <1>7. CASE At(t, comma) = "," /\ At(t, more) # s.stack[1]
    <2>1. AfterValue(t, s) = [kept EXCEPT !.at = more,
                                !.rule = IF s.stack[1] = "]" THEN "value" ELSE "name"]
      BY <1>7 DEF AfterValue
    <2>0. more \in Positions(t) /\ more >= s.at  BY <1>5, <1>7, Zenon
    <2> HIDE DEF comma, more
    <2>2. \E rule \in {"value", "name"} :
            AfterValue(t, s) = [kept EXCEPT !.rule = rule, !.at = more]
      BY <2>1
    <2> HIDE DEF kept
    <2> QED  BY <1>3, <2>0, <2>2
  <1> QED  BY <1>4, <1>6, <1>7

LEMMA CloseGoesOn ==
  ASSUME NEW S, NEW t \in Seq(S), NEW s, Parsing(t, s), s.rule = "close"
  PROVE  GoesOn(t, s, Close(t, s))
  <1>p. /\ Len(t) \in Nat /\ LastPlace(t) = Len(t) + 5 /\ Positions(t) = 1 .. Len(t) + 5
        /\ \A j \in Int : At(t, j) # NUL => j \in 1 .. Len(t)
    BY Places
  <1>a. /\ s.at \in Positions(t) /\ s.stack \in Seq(Closing) /\ s.stack # << >>
    BY DEF Parsing
  <1>b. s.stack[1] \in Closing /\ Tail(s.stack) \in Seq(Closing)
    BY <1>a
  <1>1. CASE At(t, s.at) # s.stack[1]
    BY <1>a, <1>1, FailedGoesOn DEF Close
  <1>2. CASE At(t, s.at) = s.stack[1]
    <2> DEFINE v == Value(IF s.stack[1] = "]" THEN "array" ELSE "object", << >>)
               q == Returned(s, s.at + 1, v)
               r == [q EXCEPT !.stack = Tail(@)]
    <2>1. Close(t, s) = r  BY <1>2 DEF Close
    <2>2. At(t, s.at) # NUL  BY <1>b, <1>2, Symbols
    <2>3. s.at + 1 \in Positions(t)  BY <1>a, <2>2, NextPlace
    <2>4. /\ DOMAIN q = {"rule", "at", "stack", "name", "value", "members"}
          /\ q.rule = "after" /\ q.at = s.at + 1 /\ q.stack = s.stack
      BY DEF Returned, Parsing
    <2> HIDE DEF q, v
    <2>5. /\ DOMAIN r = DOMAIN q
          /\ r.rule = "after" /\ r.at = s.at + 1 /\ r.stack = Tail(s.stack)
      BY <2>4
    <2> HIDE DEF r
    <2>6. Parsing(t, r)  BY <1>b, <2>3, <2>4, <2>5 DEF Parsing
    <2>7. Left(t, r) < Left(t, s)  BY <1>a, <2>3, <2>5, <1>p, LeftFalls
    <2> QED  BY <2>1, <2>6, <2>7 DEF GoesOn
  <1> QED  BY <1>1, <1>2

LEMMA StepGoesOn ==
  ASSUME NEW S, NEW t \in Seq(S), NEW s, Parsing(t, s)
  PROVE  /\ Parsing(t, Step(t, s))
         /\ s.rule \in Ended => Step(t, s) = s
         /\ s.rule \notin Ended => GoesOn(t, s, Step(t, s))
  <1>1. CASE s.rule \in Ended
    BY <1>1 DEF Step, Ended
  <1>2. CASE s.rule \notin Ended
    <2>1. GoesOn(t, s, Step(t, s))
      <3>1. CASE s.rule = "value"  BY <3>1, ValueGoesOn DEF Step
      <3>2. CASE s.rule = "name"  BY <3>2, NameGoesOn DEF Step
      <3>3. CASE s.rule = "after"  BY <3>3, AfterValueGoesOn DEF Step
      <3>4. CASE s.rule = "close"  BY <3>4, CloseGoesOn DEF Step
      <3> QED  BY <1>2, <3>1, <3>2, <3>3, <3>4 DEF Parsing
    <2> QED  BY <1>2, <2>1 DEF GoesOn
  <1> QED  BY <1>1, <1>2

\* The states of the parser, one after another, on and on.
Runs(t, run) ==
  /\ run[0] = Start(t)
  /\ \A n \in Nat : Parsing(t, run[n]) /\ run[n + 1] = Step(t, run[n])
  /\ \A n \in Nat : n >= MostSteps(t) => run[n] = ParseStream(t)
  /\ ParseStream(t).rule \in Ended

\* cJSON_Parse_Stream has a run on any text.
LEMMA ParserRuns ==
  ASSUME NEW S, NEW t \in Seq(S)
  PROVE  \E run : Runs(t, run)
  <1>p. /\ Len(t) \in Nat /\ LastPlace(t) = Len(t) + 5 /\ Positions(t) = 1 .. Len(t) + 5
        /\ \A j \in Int : At(t, j) # NUL => j \in 1 .. Len(t)
    BY Places
  <1> DEFINE Most == MostSteps(t)
             Body(f, n) == IF n = 0 THEN Start(t)
                           ELSE CHOOSE s \in {Step(t, r) : r \in {f[n - 1]}} : TRUE
             run == CHOOSE f : f = [n \in 0 .. Most |-> Body(f, n)]
             K == {k \in Nat : \E f : f = [n \in 0 .. k |-> Body(f, n)]}
  <1>1. Most \in Nat /\ Most = 2 * Len(t) + 10 /\ Len(t) \in Nat
    BY <1>p DEF MostSteps
  <1>2. \A f, n : n # 0 => Body(f, n) = Step(t, f[n - 1])
    OBVIOUS
  <1>3. \A f, n : n = 0 => Body(f, n) = Start(t)
    OBVIOUS
  <1>4. ParseStream(t) = run[Most]  BY DEF ParseStream
  <1>5. 0 \in K
    <2> DEFINE f == [n \in 0 .. 0 |-> Start(t)]
    <2>1. f = [n \in 0 .. 0 |-> Body(f, n)]
      <3> HIDE DEF Body
      <3> QED  BY <1>3
    <2> QED  BY <2>1
  <1>6. ASSUME NEW k \in K  PROVE k + 1 \in K
    <2>1. PICK f : f = [n \in 0 .. k |-> Body(f, n)]  OBVIOUS
    <2> DEFINE g == [n \in 0 .. k + 1 |-> IF n \in 0 .. k THEN f[n] ELSE Step(t, f[k])]
    <2>2. ASSUME NEW n \in 0 .. k + 1  PROVE g[n] = Body(g, n)
      <3> HIDE DEF Body
      <3>1. CASE n = 0
        <4>1. g[n] = f[0] /\ f[0] = Start(t)  BY <3>1, <2>1, <1>3
        <4> QED  BY <3>1, <4>1, <1>3
      <3>2. CASE n \in 1 .. k
        <4>1. n \in 0 .. k /\ n - 1 \in 0 .. k  BY <3>2
        <4>2. f[n] = Step(t, f[n - 1])  BY <3>2, <4>1, <2>1, <1>2
        <4>3. g[n] = f[n] /\ g[n - 1] = f[n - 1]  BY <4>1
        <4>4. n # 0  BY <3>2
        <4> HIDE DEF g
        <4> QED  BY <4>2, <4>3, <4>4, <1>2
      <3>3. CASE n = k + 1
        <4>1. g[n] = Step(t, f[k]) /\ n - 1 = k /\ g[k] = f[k] /\ n # 0  BY <3>3
        <4> QED  BY <4>1, <1>2
      <3> QED  BY <3>1, <3>2, <3>3
    <2>3. g = [n \in 0 .. k + 1 |-> Body(g, n)]
      <3> HIDE DEF Body
      <3> QED  BY <2>2
    <2>4. \E h : h = [n \in 0 .. k + 1 |-> Body(h, n)]
      <3> HIDE DEF Body, g
      <3> QED  BY <2>3
    <2> HIDE DEF Body
    <2> QED  BY <2>4
  <1>7. run = [n \in 0 .. Most |-> Body(run, n)]
    <2>1. Most \in K
      <3> HIDE DEF K
      <3>1. K \in SUBSET Nat  BY DEF K
      <3> QED  BY <1>1, <1>5, <1>6, <3>1, Induction
    <2>2. \E f : f = [n \in 0 .. Most |-> Body(f, n)]
      <3> HIDE DEF Body, Most
      <3> QED  BY <2>1
    <2> HIDE DEF Body
    <2> QED  BY <2>2
  <1> HIDE DEF run
  <1>8. run[0] = Start(t) /\ \A n \in 1 .. Most : run[n] = Step(t, run[n - 1])
    <2> HIDE DEF Body, Most
    <2>1. run[0] = Start(t)  BY <1>7, <1>3, <1>1
    <2>2. ASSUME NEW n \in 1 .. Most  PROVE run[n] = Step(t, run[n - 1])
      <3>1. n \in 0 .. Most /\ n # 0  BY <1>1
      <3> QED  BY <3>1, <1>7, <1>2
    <2> QED  BY <2>1, <2>2
  <1> HIDE DEF Most
  \* The n-th state, and how much it has left to do.
  <1> DEFINE Most2 == 2 * Len(t) + 8
             L == {n \in Nat : n <= Most =>
                     /\ Parsing(t, run[n])
                     /\ run[n].rule \notin Ended => Left(t, run[n]) <= Most2 - n}
  <1>9. 0 \in L
    <2>1. 1 \in Positions(t)  BY <1>p
    <2>2. Skip(t, 1) \in 1 .. LastPlace(t)  BY <2>1, SkipType
    <2>3. /\ DOMAIN Start(t) = {"rule", "at", "stack", "name", "value", "members"}
          /\ Start(t).rule = "value" /\ Start(t).at = Skip(t, 1) /\ Start(t).stack = << >>
      BY DEF Start
    <2>4. Parsing(t, Start(t))
      <3>1. Skip(t, 1) \in Positions(t)  BY <2>2, <1>p
      <3> QED  BY <2>3, <3>1 DEF Parsing
    <2>5. Left(t, Start(t)) <= Most2 - 0
      BY <1>1, <2>2, <2>3, <1>p DEF Left, Weight, InPlace
    <2> QED  BY <1>8, <2>4, <2>5
  <1>10. ASSUME NEW n \in L  PROVE n + 1 \in L
    <2>1. SUFFICES ASSUME n + 1 <= Most
                   PROVE  /\ Parsing(t, run[n + 1])
                          /\ run[n + 1].rule \notin Ended =>
                               Left(t, run[n + 1]) <= Most2 - (n + 1)
      OBVIOUS
    <2>2. /\ n \in Nat /\ n <= Most /\ n + 1 \in 1 .. Most /\ (n + 1) - 1 = n
      BY <1>1, <2>1
    <2>3. /\ Parsing(t, run[n]) /\ run[n + 1] = Step(t, run[n])
          /\ run[n].rule \notin Ended => Left(t, run[n]) <= Most2 - n
      BY <1>8, <2>2
    <2>4. Parsing(t, run[n + 1])  BY <2>3, StepGoesOn
    <2>5. ASSUME run[n + 1].rule \notin Ended
          PROVE  Left(t, run[n + 1]) <= Most2 - (n + 1)
      <3>1. run[n].rule \notin Ended /\ Left(t, run[n + 1]) < Left(t, run[n])
        BY <2>3, <2>5, StepGoesOn DEF GoesOn
      <3>2. Left(t, run[n]) \in Int /\ Left(t, run[n + 1]) \in Int
        BY <2>3, <2>4, LeftType DEF Parsing
      <3> QED  BY <1>1, <2>2, <2>3, <3>1, <3>2
    <2> QED  BY <2>4, <2>5
  <1>11. L = Nat
    <2> HIDE DEF L
    <2>1. L \in SUBSET Nat  BY DEF L
    <2> QED  BY <1>9, <1>10, <2>1, Induction
  <1>12. \A n \in Nat : n <= Most => Parsing(t, run[n])
    <2>1. \A n \in Nat : n \in L  BY <1>11
    <2> QED  BY <2>1
  <1>13. Parsing(t, run[Most]) /\ (run[Most].rule \notin Ended => Left(t, run[Most]) <= -2)
    <2>1. Most \in L  BY <1>1, <1>11
    <2> QED  BY <1>1, <2>1
  <1>14. run[Most].at \in Positions(t) /\ Left(t, run[Most]) \in Nat
    BY <1>13, LeftType DEF Parsing
  <1>15. run[Most].rule \in Ended
    <2> HIDE DEF Most, L
    <2> QED  BY <1>13, <1>14
  \* Behind its end nothing happens.
  <1> DEFINE all == [n \in Nat |-> IF n <= Most THEN run[n] ELSE run[Most]]
  <1> HIDE DEF L
  <1>16. all[0] = Start(t)  BY <1>1, <1>8
  <1>17. ASSUME NEW n \in Nat  PROVE Parsing(t, all[n]) /\ all[n + 1] = Step(t, all[n])
    <2>1. CASE n + 1 <= Most
      <3>1. n + 1 \in 1 .. Most /\ (n + 1) - 1 = n /\ n <= Most  BY <1>1, <2>1
      <3>2. run[n + 1] = Step(t, run[n])  BY <1>8, <3>1
      <3>3. all[n] = run[n] /\ all[n + 1] = run[n + 1]  BY <2>1, <3>1
      <3> HIDE DEF all
      <3> QED  BY <1>12, <3>1, <3>2, <3>3
    <2>2. CASE ~(n + 1 <= Most)
      <3>1. all[n] = run[Most] /\ all[n + 1] = run[Most]
        <4>1. n = Most \/ ~(n <= Most)  BY <1>1, <2>2
        <4> QED  BY <2>2, <4>1
      <3>2. Step(t, run[Most]) = run[Most]  BY <1>13, <1>15, StepGoesOn
      <3> HIDE DEF all
      <3> QED  BY <1>13, <3>1, <3>2
    <2> QED  BY <2>1, <2>2
  <1>18. ASSUME NEW n \in Nat, n >= MostSteps(t)  PROVE all[n] = ParseStream(t)
    <2>1. n = Most \/ ~(n <= Most)  BY <1>1, <1>18 DEF Most
    <2>2. all[n] = run[Most]  BY <2>1
    <2> QED  BY <1>4, <2>2
  <1>19. Runs(t, all)
    <2>1. ParseStream(t).rule \in Ended  BY <1>4, <1>15
    <2> HIDE DEF all, Most
    <2> QED  BY <1>16, <1>17, <1>18, <2>1 DEF Runs
  <1> HIDE DEF all
  <1> QED  BY <1>19

\* The end of a run is a state of it.
LEMMA RunEnds ==
  ASSUME NEW S, NEW t \in Seq(S), NEW run, Runs(t, run)
  PROVE  /\ MostSteps(t) \in Nat /\ run[MostSteps(t)] = ParseStream(t)
         /\ Parsing(t, ParseStream(t))
  <1>1. MostSteps(t) \in Nat  BY Places DEF MostSteps
  <1>2. MostSteps(t) >= MostSteps(t)  BY <1>1
  <1> QED  BY <1>1, <1>2 DEF Runs

\* cJSON_Parse_Stream, on any text: it comes to an end, and leaves its pointer in the
\* text, at its NUL, or, behind an escape or a literal the text was cut off in, at most
\* four places further on.  (What is there in the buffer is taken for NULs, see At.)
THEOREM ParserEnds ==
  ASSUME NEW S, NEW t \in Seq(S)
  PROVE  ParseStream(t).rule \in Ended /\ ParseStream(t).at \in Positions(t)
  <1>1. PICK run : Runs(t, run)  BY ParserRuns
  <1> QED  BY <1>1, RunEnds DEF Runs, Parsing

-----------------------------------------------------------------------------
(* A text in another                                                        *)

\* Behind its first d symbols u goes on with all of t.
Holds(u, t, d) ==
  /\ d \in Nat /\ d + Len(t) <= Len(u)
  /\ \A i \in 1 .. Len(t) : At(u, i + d) = At(t, i)

\* The symbols of t are symbols of u.
LEMMA HeldPlaces ==
  ASSUME NEW S, NEW t \in Seq(S), NEW u \in Seq(S), NEW d, Holds(u, t, d)
  PROVE  /\ Len(t) \in Nat /\ Len(u) \in Nat /\ d \in Nat /\ d + Len(t) <= Len(u)
         /\ Positions(t) = 1 .. Len(t) + 5 /\ Positions(u) = 1 .. Len(u) + 5
         /\ LastPlace(t) = Len(t) + 5 /\ LastPlace(u) = Len(u) + 5
         /\ \A i \in 1 .. Len(t) : /\ i + d \in 1 .. Len(u) /\ At(u, i + d) = At(t, i)
                                   /\ At(t, i) = t[i] /\ At(u, i + d) = u[i + d]
  BY Places DEF Holds, At

\* A repetition, a string, a literal and a number that end before t does are the same
\* in u.
LEMMA PastHeld ==
  ASSUME NEW S, NEW t \in Seq(S), NEW u \in Seq(S), NEW d, Holds(u, t, d),
         NEW i \in Positions(t), NEW symbol, symbol # NUL, Past(t, symbol, i) <= Len(t)
  PROVE  Past(u, symbol, i + d) = Past(t, symbol, i) + d
  <1> DEFINE j == Past(t, symbol, i)
  <1>p. /\ Len(t) \in Nat /\ Len(u) \in Nat /\ d \in Nat /\ d + Len(t) <= Len(u)
        /\ Positions(t) = 1 .. Len(t) + 5 /\ Positions(u) = 1 .. Len(u) + 5
        /\ LastPlace(t) = Len(t) + 5 /\ LastPlace(u) = Len(u) + 5
        /\ \A k \in 1 .. Len(t) : At(u, k + d) = At(t, k)
    BY HeldPlaces
  <1>0. /\ j \in i .. LastPlace(t) /\ At(t, j) # symbol /\ j <= Len(t)
        /\ \A k \in i .. j - 1 : At(t, k) = symbol
    BY PastIs
  <1> HIDE DEF j
  <1>1. j \in i .. Len(t)  BY <1>0, <1>p
  <1>2. /\ i + d \in Positions(u) /\ j + d \in i + d .. LastPlace(u)
        /\ At(u, j + d) # symbol
    BY <1>0, <1>1, <1>p
  <1>3. ASSUME NEW k \in i + d .. j + d - 1  PROVE At(u, k) = symbol
    <2>1. k - d \in i .. j - 1 /\ k - d \in 1 .. Len(t) /\ (k - d) + d = k
      BY <1>1, <1>p
    <2>2. At(u, (k - d) + d) = At(t, k - d)  BY <2>1, <1>p
    <2> QED  BY <1>0, <2>1, <2>2
  <1>4. Past(u, symbol, i + d) = j + d
    <2> DEFINE m == i + d
               n == j + d
    <2>1. /\ m \in Positions(u) /\ n \in m .. LastPlace(u) /\ At(u, n) # symbol
      BY <1>2
    <2>3. \A k \in m .. n - 1 : At(u, k) = symbol
      BY <1>1, <1>3, <1>p
    <2> HIDE DEF m, n
    <2>2. Past(u, symbol, m) = n  BY <2>1, <2>3, PastUnique
    <2> QED  BY <2>2 DEF m, n
  <1> QED  BY <1>4 DEF j

\* The parts of a string that ends in t.
LEMMA ScanHeld ==
  ASSUME NEW S, NEW t \in Seq(S), NEW u \in Seq(S), NEW d, Holds(u, t, d),
         NEW i \in Positions(t), StringEnd(t, i) <= Len(t)
  PROVE  /\ StringEnd(u, i + d) = StringEnd(t, i) + d
         /\ Characters(u, i + d) = Characters(t, i)
  <1> DEFINE M == Len(t) + 5
             T == {j \in 1 .. M : StringEnd(t, j) <= Len(t) =>
                                    /\ StringEnd(u, j + d) = StringEnd(t, j) + d
                                    /\ Characters(u, j + d) = Characters(t, j)}
  <1>p. /\ Len(t) \in Nat /\ Len(u) \in Nat /\ d \in Nat /\ d + Len(t) <= Len(u)
        /\ Positions(t) = 1 .. Len(t) + 5 /\ Positions(u) = 1 .. Len(u) + 5
        /\ LastPlace(t) = Len(t) + 5 /\ LastPlace(u) = Len(u) + 5
        /\ \A k \in 1 .. Len(t) : /\ At(u, k + d) = At(t, k)
                                  /\ At(t, k) = t[k] /\ At(u, k + d) = u[k + d]
    BY HeldPlaces
  <1>1. ASSUME NEW j \in 1 .. M, \A k \in j + 1 .. M : k \in T  PROVE j \in T
    <2> SUFFICES ASSUME StringEnd(t, j) <= Len(t)
                 PROVE  /\ StringEnd(u, j + d) = StringEnd(t, j) + d
                        /\ Characters(u, j + d) = Characters(t, j)
      OBVIOUS
    <2> DEFINE e(k) == StringEnd(t, k)
    <2>1. StringEnd(t, j) \in j .. M  BY <1>p, StringEndPlace
    <2>2. j \in 1 .. Len(t) /\ j \in Positions(t) /\ j + d \in Positions(u)
      BY <1>p, <2>1
    <2>3. At(u, j + d) = At(t, j) /\ t[j] = u[j + d]  BY <1>p, <2>2
    <2>4. Stops(u, j + d) <=> Stops(t, j)  BY <2>3 DEF Stops
    <2>5. CASE Stops(t, j)
      <3>1. StringEnd(t, j) = j /\ StringEnd(u, j + d) = j + d
        BY <2>2, <2>4, <2>5, StringEndIs
      <3>2. Characters(t, j) = << >> /\ Characters(u, j + d) = << >>
        BY <2>2, <2>4, <2>5, CharactersIs
      <3> QED  BY <3>1, <3>2
    <2>6. CASE ~Stops(t, j) /\ At(t, j) = Backslash
      <3> DEFINE k == j + Taken(t, j)
      <3>0. Taken(t, j) \in {2, 6} /\ k \in j + 2 .. M  BY <2>2, <1>p, TakenType
      <3>1. StringEnd(t, j) = StringEnd(t, k)
        BY <2>2, <2>6, StringEndIs
      <3>2. k \in j + 1 .. M /\ k \in Positions(t)  BY <2>2, <3>0, <1>p
      <3>3. StringEnd(t, k) \in k .. M  BY <3>2, <1>p, StringEndPlace
      <3>4. /\ j + 1 \in 1 .. Len(t) /\ j + 1 + d = j + d + 1
            /\ j + Taken(t, j) + d = j + d + Taken(t, j)
        <4> HIDE DEF k
        <4> QED  BY <2>1, <2>2, <3>0, <3>1, <3>3, <1>p
      <3>5. At(u, j + d + 1) = At(t, j + 1)  BY <3>4, <1>p
      <3>6. Taken(u, j + d) = Taken(t, j)  BY <3>5, TakenAlike
      <3>7. /\ StringEnd(u, k + d) = StringEnd(t, k) + d
            /\ Characters(u, k + d) = Characters(t, k)
        <4> HIDE DEF k
        <4> QED  BY <1>1, <3>1, <3>2
      <3>8. StringEnd(u, j + d) = StringEnd(u, k + d)
        BY <2>2, <2>3, <2>4, <2>6, <3>4, <3>6, StringEndIs
      <3>9. /\ Characters(t, j) = <<Escaped(At(t, j + 1))>> \o Characters(t, k)
            /\ Characters(u, j + d) = <<Escaped(At(u, j + d + 1))>> \o Characters(u, k + d)
        BY <2>2, <2>3, <2>4, <2>6, <3>4, <3>6, CharactersIs
      <3> HIDE DEF k
      <3> QED  BY <3>1, <3>5, <3>7, <3>8, <3>9
    <2>7. CASE ~Stops(t, j) /\ At(t, j) # Backslash
      <3>1. StringEnd(t, j) = StringEnd(t, j + 1) /\ StringEnd(u, j + d) = StringEnd(u, j + d + 1)
        BY <2>2, <2>3, <2>4, <2>7, StringEndIs
      <3>2. j + 1 \in j + 1 .. M /\ j + 1 + d = j + d + 1  BY <2>2, <1>p
      <3>6. /\ StringEnd(u, j + d + 1) = StringEnd(t, j + 1) + d
            /\ Characters(u, j + d + 1) = Characters(t, j + 1)
        BY <1>1, <3>1, <3>2
      <3>7. /\ Characters(t, j) = <<t[j]>> \o Characters(t, j + 1)
            /\ Characters(u, j + d) = <<u[j + d]>> \o Characters(u, j + d + 1)
        BY <2>2, <2>3, <2>4, <2>7, CharactersIs
      <3> QED  BY <2>3, <3>1, <3>6, <3>7
    <2> QED  BY <2>5, <2>6, <2>7
  <1>2. \A j \in 1 .. M : j \in T
    <2> HIDE DEF T
    <2>1. M \in Nat  BY <1>p
    <2> HIDE DEF M
    <2> QED  BY <1>1, <2>1, Downwards
  <1> QED  BY <1>p, <1>2

LEMMA AfterStringHeld ==
  ASSUME NEW S, NEW t \in Seq(S), NEW u \in Seq(S), NEW d, Holds(u, t, d),
         NEW i \in Positions(t), At(t, i) = Quote, AfterString(t, i) <= Len(t)
  PROVE  /\ AfterString(u, i + d) = AfterString(t, i) + d
         /\ Characters(u, i + d + 1) = Characters(t, i + 1)
  <1> DEFINE e == StringEnd(t, i + 1)
  <1>p. /\ Len(t) \in Nat /\ Len(u) \in Nat /\ d \in Nat
        /\ Positions(t) = 1 .. Len(t) + 5 /\ LastPlace(t) = Len(t) + 5
        /\ \A k \in 1 .. Len(t) : At(u, k + d) = At(t, k)
    BY HeldPlaces
  <1>1. i + 1 \in Positions(t)  BY Symbols, NextPlace
  <1>2. e \in i + 1 .. LastPlace(t)  BY <1>1, StringEndPlace
  <1>3. e \in 1 .. Len(t)
    <2>1. AfterString(t, i) \in {e, e + 1}  BY DEF AfterString
    <2> HIDE DEF e
    <2> QED  BY <1>1, <1>2, <2>1, <1>p
  <1>4. i + 1 + d = i + d + 1  BY <1>1, <1>p
  <1>5. StringEnd(u, i + d + 1) = e + d /\ Characters(u, i + d + 1) = Characters(t, i + 1)
    BY <1>1, <1>3, <1>4, ScanHeld
  <1>6. At(u, e + d) = At(t, e)  BY <1>3, <1>p
  <1> HIDE DEF e
  <1> QED  BY <1>3, <1>5, <1>6, <1>p DEF AfterString, e

\* Where a literal has been compared in t, and where it has not been recognised.
LEMMA LiteralHeld ==
  ASSUME NEW S, NEW t \in Seq(S), NEW u \in Seq(S), NEW d, Holds(u, t, d),
         NEW i \in Positions(t)
  PROVE  /\ IsLiteral(t, i) /\ i + 2 <= Len(t) => IsLiteral(u, i + d)
         /\ ~IsLiteral(t, i) /\ AfterCompare(t, i) <= Len(t) =>
              /\ ~IsLiteral(u, i + d)
              /\ AfterCompare(u, i + d) = AfterCompare(t, i) + d
  <1>p. /\ Len(t) \in Nat /\ d \in Nat /\ i \in Nat /\ i >= 1
        /\ \A k \in 1 .. Len(t) : At(u, k + d) = At(t, k)
    BY HeldPlaces
  <1>1. i + 1 + d = i + d + 1 /\ i + 2 + d = i + d + 2  BY <1>p
  <1>2. i <= Len(t) => At(u, i + d) = At(t, i)  BY <1>p
  <1>3. i + 1 <= Len(t) => At(u, i + d + 1) = At(t, i + 1)  BY <1>p, <1>1
  <1>4. i + 2 <= Len(t) => At(u, i + d + 2) = At(t, i + 2)  BY <1>p, <1>1
  <1>5. CASE At(t, i) # "nu"
    <2>1. AfterCompare(t, i) = i /\ ~IsLiteral(t, i)  BY <1>5 DEF AfterCompare, IsLiteral
    <2> QED  BY <1>2, <1>5, <2>1 DEF AfterCompare, IsLiteral
  <1>6. CASE At(t, i) = "nu" /\ At(t, i + 1) # "ll"
    <2>1. AfterCompare(t, i) = i + 1 /\ ~IsLiteral(t, i)
      BY <1>6 DEF AfterCompare, IsLiteral
    <2>2. i + 1 <= Len(t) => i <= Len(t) /\ i + 1 + d = i + d + 1  BY <1>p
    <2> QED  BY <1>2, <1>3, <1>6, <2>1, <2>2 DEF AfterCompare, IsLiteral
  <1>7. CASE At(t, i) = "nu" /\ At(t, i + 1) = "ll"
    <2>1. /\ AfterCompare(t, i) = i + 3
          /\ IsLiteral(t, i) <=> At(t, i + 2) # NUL
      BY <1>7 DEF AfterCompare, IsLiteral
    <2>2. i + 2 <= Len(t) => i <= Len(t) /\ i + 1 <= Len(t)  BY <1>p
    <2>3. i + 3 <= Len(t) => i + 2 <= Len(t) /\ i + d + 3 = i + 3 + d  BY <1>p
    <2> QED  BY <1>2, <1>3, <1>4, <1>7, <2>1, <2>2, <2>3 DEF AfterCompare, IsLiteral
  <1> QED  BY <1>5, <1>6, <1>7

LEMMA DigitsHeld ==
  ASSUME NEW S, NEW t \in Seq(S), NEW u \in Seq(S), NEW d, Holds(u, t, d),
         NEW i \in Positions(t), AfterDigits(t, i) <= Len(t)
  PROVE  AfterDigits(u, i + d) = AfterDigits(t, i) + d
  <1>1. "1" # NUL  BY Symbols
  <1>2. Past(t, "1", i) <= Len(t)  BY DEF AfterDigits
  <1>3. Past(u, "1", i + d) = Past(t, "1", i) + d  BY <1>1, <1>2, PastHeld
  <1> QED  BY <1>3 DEF AfterDigits

LEMMA SkipHeld ==
  ASSUME NEW S, NEW t \in Seq(S), NEW u \in Seq(S), NEW d, Holds(u, t, d),
         NEW i \in Positions(t), Skip(t, i) <= Len(t)
  PROVE  Skip(u, i + d) = Skip(t, i) + d
  <1> DEFINE blank == " "
  <1>1. blank # NUL  BY DEF NUL
  <1>2. \A r \in {t, u} : \A j : Skip(r, j) = Past(r, blank, j)  BY DEF Skip
  <1> HIDE DEF blank
  <1>3. Past(t, blank, i) <= Len(t)  BY <1>2
  <1>4. Past(u, blank, i + d) = Past(t, blank, i) + d  BY <1>1, <1>3, PastHeld
  <1> QED  BY <1>2, <1>4

\* A place of t behind which the parser does not look: only at a decimal point it
\* looks one symbol further.
Inside(t, i) == i <= Len(t) /\ (i = Len(t) => At(t, i) # ".")

\* The digits valueint is made of.
Numeral(t, i) == SubSeq(t, i, IntegerEnd(t, i) - 1)

LEMMA NumberHeld ==
  ASSUME NEW S, NEW t \in Seq(S), NEW u \in Seq(S), NEW d, Holds(u, t, d),
         NEW i \in Positions(t), At(t, i) \in {"-", "1"}, Inside(t, AfterNumber(t, i))
  PROVE  /\ AfterNumber(u, i + d) = AfterNumber(t, i) + d
         /\ Numeral(u, i + d) = Numeral(t, i)
  <1> DEFINE b == IF At(t, i) = "-" THEN i + 1 ELSE i
             p == AfterDigits(t, b)
             e == AfterNumber(t, i)
  <1>p. /\ Len(t) \in Nat /\ Len(u) \in Nat /\ d \in Nat /\ d + Len(t) <= Len(u)
        /\ Positions(t) = 1 .. Len(t) + 5 /\ LastPlace(t) = Len(t) + 5
        /\ \A k \in 1 .. Len(t) : /\ k + d \in 1 .. Len(u) /\ At(u, k + d) = At(t, k)
                                  /\ At(t, k) = t[k] /\ At(u, k + d) = u[k + d]
    BY HeldPlaces
  <1>1. i \in 1 .. Len(t) /\ i + 1 \in Positions(t)  BY Symbols, NextPlace
  <1>2. b \in Positions(t) /\ b \in {i, i + 1} /\ At(u, i + d) = At(t, i)
    BY <1>1, <1>p
  <1>3. p \in b .. LastPlace(t) /\ p \in Positions(t)
    <2> HIDE DEF b
    <2>1. p \in b .. LastPlace(t)  BY <1>2, AfterDigitsType
    <2> HIDE DEF p
    <2> QED  BY <1>2, <2>1, <1>p
  <1>4. IntegerEnd(t, i) = p  BY DEF IntegerEnd
  <1>5. e = IF At(t, p) = "." /\ At(t, p + 1) = "1" THEN AfterDigits(t, p + 1) ELSE p
    BY <1>4 DEF AfterNumber
  <1>6. At(t, p) = "." => /\ p \in 1 .. Len(t) /\ p + 1 \in Positions(t)
                          /\ AfterDigits(t, p + 1) \in p + 1 .. LastPlace(t)
    <2> HIDE DEF p
    <2>1. ASSUME At(t, p) = "."  PROVE p \in 1 .. Len(t) /\ p + 1 \in Positions(t)
      BY <1>3, <2>1, Symbols, NextPlace
    <2> QED  BY <2>1, AfterDigitsType
  <1>7. e <= Len(t) /\ (e = Len(t) => At(t, e) # ".")  BY DEF Inside
  <1>8. AfterDigits(u, b + d) = IntegerEnd(u, i + d)
    <2>1. i + d + 1 = i + 1 + d  BY <1>1, <1>p
    <2> QED  BY <1>2, <2>1 DEF IntegerEnd
  <1> HIDE DEF e
  <1>9. p <= Len(t)
    <2> HIDE DEF p
    <2> QED  BY <1>3, <1>5, <1>6, <1>7, <1>p
  <1>10. IntegerEnd(u, i + d) = p + d
    <2> HIDE DEF b
    <2> QED  BY <1>2, <1>8, <1>9, DigitsHeld
  <1> HIDE DEF p
  <1>11. AfterNumber(u, i + d) = e + d
    <2>0. p \in 1 .. Len(t) /\ p + 1 + d = p + d + 1  BY <1>1, <1>2, <1>3, <1>9, <1>p
    <2>1. At(u, p + d) = At(t, p)  BY <2>0, <1>p
    <2>2. CASE At(t, p) # "."
      BY <1>5, <1>10, <2>1, <2>2 DEF AfterNumber
    <2>3. CASE At(t, p) = "." /\ At(t, p + 1) = "1"
      <3>1. e = AfterDigits(t, p + 1)  BY <1>5, <2>3
      <3>2. AfterDigits(u, p + 1 + d) = e + d  BY <1>6, <1>7, <2>3, <3>1, DigitsHeld
      <3>3. p + 1 \in 1 .. Len(t)
        <4>1. AfterDigits(t, p + 1) \in p + 1 .. LastPlace(t)  BY <1>6, <2>3
        <4> QED  BY <1>7, <2>0, <3>1, <4>1, <1>p
      <3>4. At(u, p + d + 1) = "1"  BY <2>0, <2>3, <3>3, <1>p
      <3> QED  BY <1>10, <2>0, <2>1, <2>3, <3>2, <3>4 DEF AfterNumber
    <2>4. CASE At(t, p) = "." /\ At(t, p + 1) # "1"
      <3>1. e = p  BY <1>5, <2>4
      <3>2. p + 1 \in 1 .. Len(t)  BY <1>7, <2>0, <2>4, <3>1, <1>p
      <3>3. At(u, p + d + 1) # "1"  BY <2>0, <2>4, <3>2, <1>p
      <3> QED  BY <1>10, <2>4, <3>1, <3>3 DEF AfterNumber
    <2> QED  BY <2>2, <2>3, <2>4
  <1>12. SubSeq(u, i + d, p + d - 1) = SubSeq(t, i, p - 1)
    <2>1. i \in 1 .. p /\ p - 1 \in i - 1 .. Len(t) /\ p \in Nat
      BY <1>1, <1>2, <1>3, <1>9, <1>p
    <2>2. i + d \in 1 .. p + d /\ p + d - 1 \in (i + d) - 1 .. Len(u)
      BY <2>1, <1>3, <1>p
    <2> DEFINE m == i + d
               n == p + d - 1
               l == p - 1
    <2>3. /\ m \in 1 .. n + 1 /\ n \in m - 1 .. Len(u) /\ i \in 1 .. l + 1 /\ l \in i - 1 .. Len(t)
          /\ n - m + 1 = l - i + 1 /\ m \in Nat /\ n \in Int
      BY <2>1, <1>p
    <2>4. \A k \in 1 .. l - i + 1 : m + k - 1 = (i + k - 1) + d /\ i + k - 1 \in 1 .. Len(t)
      BY <2>1, <1>p
    <2>5. \A k \in 1 .. l - i + 1 : u[m + k - 1] = t[i + k - 1]
      <3> HIDE DEF l, m
      <3> QED  BY <2>4, <1>p
    <2> HIDE DEF m, n, l
    <2>6. /\ SubSeq(t, i, l) \in Seq(S) /\ Len(SubSeq(t, i, l)) = l - i + 1
          /\ \A k \in 1 .. l - i + 1 : SubSeq(t, i, l)[k] = t[i + k - 1]
      BY <2>3, SubSeqProperties
    <2>7. /\ SubSeq(u, m, n) \in Seq(S) /\ Len(SubSeq(u, m, n)) = l - i + 1
          /\ \A k \in 1 .. l - i + 1 : SubSeq(u, m, n)[k] = u[m + k - 1]
      BY <2>3, SubSeqProperties
    <2>8. SubSeq(u, m, n) = SubSeq(t, i, l)  BY <2>5, <2>6, <2>7, SeqEqual
    <2> QED  BY <2>8 DEF m, n, l
  <1>13. SubSeq(u, i + d, IntegerEnd(u, i + d) - 1) = SubSeq(t, i, IntegerEnd(t, i) - 1)
    <2>1. IntegerEnd(u, i + d) - 1 = p + d - 1 /\ IntegerEnd(t, i) - 1 = p - 1
      BY <1>3, <1>4, <1>10, <1>p
    <2> QED  BY <1>12, <2>1
  <1>14. AfterNumber(u, i + d) = AfterNumber(t, i) + d  BY <1>11 DEF e
  <1> QED  BY <1>13, <1>14 DEF Numeral

-----------------------------------------------------------------------------
(* The parser in a text and in one that holds it                            *)

\* The same state, d places further on.
Alike(q, s, d) ==
  /\ q.rule = s.rule /\ q.at = s.at + d /\ q.stack = s.stack
  /\ q.name = s.name /\ q.value = s.value /\ q.members = s.members

\* An array or object.
Bracketed(s) == s.value.type \in {"array", "object"}

\* What is behind the text has had no part in this state.
Firm(t, s) ==
  \/ Inside(t, s.at)
  \/ s.rule = "done"
  \/ s.rule = "after" /\ s.stack = << >> /\ Bracketed(s)

\* Failing, returning a value and opening a bracket, in both.
LEMMA FailedAlike ==
  ASSUME NEW t, NEW u, NEW s, NEW q, NEW d, Parsing(t, s), Parsing(u, q), Alike(q, s, d),
         NEW i, NEW j, j = i + d
  PROVE  Alike(Failed(q, j), Failed(s, i), d)
  BY DEF Alike, Failed, Parsing

LEMMA ReturnedAlike ==
  ASSUME NEW t, NEW u, NEW s, NEW q, NEW d, Parsing(t, s), Parsing(u, q), Alike(q, s, d),
         NEW i, NEW j, j = i + d, NEW value
  PROVE  Alike(Returned(q, j, value), Returned(s, i, value), d)
  BY DEF Alike, Returned, Parsing

\* Two states of the parser that are the same but for one step of it.
LEMMA OpenAlike ==
  ASSUME NEW S, NEW t \in Seq(S), NEW u \in Seq(S), NEW d, Holds(u, t, d),
         NEW s, NEW q, Parsing(t, s), Parsing(u, q), Alike(q, s, d),
         NEW i \in Positions(t), At(t, i) # NUL,
         NEW closing \in Closing, NEW type, NEW rule,
         NEW r, r = Open(s, Skip(t, i + 1), At(t, Skip(t, i + 1)), closing, type, rule),
         At(t, Skip(t, i + 1)) # closing => Skip(t, i + 1) <= Len(t)
  PROVE  Alike(Open(q, Skip(u, i + d + 1), At(u, Skip(u, i + d + 1)), closing, type, rule), r, d)
  <1> DEFINE first == Skip(t, i + 1)
  <1>p. /\ Len(t) \in Nat /\ d \in Nat /\ Positions(t) = 1 .. Len(t) + 5
        /\ LastPlace(t) = Len(t) + 5
        /\ \A k \in 1 .. Len(t) : At(u, k + d) = At(t, k)
    BY HeldPlaces
  <1>0. i + 1 \in Positions(t)  BY NextPlace
  <1>1. i + 1 \in Positions(t) /\ i + 1 + d = i + d + 1  BY <1>0, <1>p
  <1>2. first \in i + 1 .. LastPlace(t)  BY <1>1, SkipType
  <1>3. first \in 1 .. Len(t)
    <2>1. CASE At(t, first) = closing
      <3> HIDE DEF first
      <3>1. At(t, first) # NUL  BY <2>1, Symbols
      <3>2. first \in Positions(t)  BY <1>1, <1>2, <1>p
      <3> QED  BY <3>1, <3>2, NextPlace
    <2>2. CASE At(t, first) # closing
      <3>1. first <= Len(t)  BY <2>2
      <3> HIDE DEF first
      <3> QED  BY <1>1, <1>2, <3>1, <1>p
    <2> QED  BY <2>1, <2>2
  <1>4. Skip(u, i + 1 + d) = first + d  BY <1>1, <1>3, SkipHeld
  <1> HIDE DEF first
  <1>5. Skip(u, i + d + 1) = first + d /\ At(u, first + d) = At(t, first)
    BY <1>1, <1>3, <1>4, <1>p
  <1>6. CASE At(t, first) = closing
    <2>1. r = Returned(s, first + 1, Value(type, << >>))  BY <1>6 DEF Open, first
    <2>2. Open(q, first + d, At(t, first), closing, type, rule)
            = Returned(q, first + d + 1, Value(type, << >>))
      BY <1>6 DEF Open
    <2>3. first + d + 1 = first + 1 + d  BY <1>3, <1>p
    <2>4. Alike(Returned(q, first + d + 1, Value(type, << >>)),
                Returned(s, first + 1, Value(type, << >>)), d)
      BY <2>3, ReturnedAlike
    <2> QED  BY <1>5, <2>1, <2>2, <2>4
  <1>7. CASE At(t, first) # closing
    <2>1. r = [s EXCEPT !.rule = rule, !.at = first, !.stack = <<closing>> \o @]
      BY <1>7 DEF Open, first
    <2>2. Open(q, first + d, At(t, first), closing, type, rule)
            = [q EXCEPT !.rule = rule, !.at = first + d, !.stack = <<closing>> \o @]
      BY <1>7 DEF Open
    <2>3. Alike([q EXCEPT !.rule = rule, !.at = first + d, !.stack = <<closing>> \o @],
                [s EXCEPT !.rule = rule, !.at = first, !.stack = <<closing>> \o @], d)
      BY DEF Alike, Parsing
    <2> QED  BY <1>5, <2>1, <2>2, <2>3
  <1> QED  BY <1>6, <1>7

\* The symbols a value can begin with.
LEMMA ValueIs ==
  ASSUME NEW t, NEW s, NEW i, i = AfterCompare(t, s.at), ~IsLiteral(t, s.at)
  PROVE  /\ At(t, i) = Quote =>
              ParseValue(t, s) =
                Returned(s, AfterString(t, i), Value("string", Characters(t, i + 1)))
         /\ At(t, i) \in {"-", "1"} =>
              ParseValue(t, s) =
                Returned(s, AfterNumber(t, i), Value("number", Numeral(t, i)))
         /\ At(t, i) = "[" =>
              ParseValue(t, s) = Open(s, Skip(t, i + 1), At(t, Skip(t, i + 1)), "]",
                                      "array", "value")
         /\ At(t, i) = "{" =>
              ParseValue(t, s) = Open(s, Skip(t, i + 1), At(t, Skip(t, i + 1)), "}",
                                      "object", "name")
         /\ At(t, i) \notin {Quote, "-", "1", "[", "{"} => ParseValue(t, s) = Failed(s, i)
  BY DEF ParseValue, Quote, Numeral

LEMMA NoValue ==
  ASSUME NEW t, NEW s, NEW i, i = AfterCompare(t, s.at), ~IsLiteral(t, s.at),
         At(t, i) \notin {Quote, "-", "1", "[", "{"}
  PROVE  ParseValue(t, s) = Failed(s, i)
  BY DEF ParseValue, Quote

LEMMA ReturnedIs ==
  ASSUME NEW t, NEW s, Parsing(t, s), NEW i, NEW value
  PROVE  LET r == Returned(s, i, value) IN
           r.rule = "after" /\ r.at = i /\ r.stack = s.stack /\ r.value = value
  BY DEF Returned, Parsing

LEMMA FailedIs ==
  ASSUME NEW t, NEW s, Parsing(t, s), NEW i
  PROVE  Failed(s, i).rule = "failed" /\ Failed(s, i).at = i
  BY DEF Failed, Parsing

\* Only behind a bracket the parser need not look at what is there.
LEMMA FirmReturned ==
  ASSUME NEW t, NEW s, Parsing(t, s), NEW i, NEW type \in {"literal", "string", "number"},
         NEW content, Firm(t, Returned(s, i, Value(type, content)))
  PROVE  Inside(t, i)
  <1> DEFINE r == Returned(s, i, Value(type, content))
  <1>1. r.rule = "after" /\ r.at = i /\ r.value = Value(type, content)
    BY ReturnedIs
  <1> HIDE DEF r
  <1>2. ~Bracketed(r) /\ r.rule # "done"  BY <1>1 DEF Bracketed, Value
  <1>3. Firm(t, r)  BY DEF r
  <1> QED  BY <1>1, <1>2, <1>3 DEF Firm

LEMMA AfterComparePlace ==
  ASSUME NEW S, NEW t \in Seq(S), NEW i \in Positions(t)
  PROVE  AfterCompare(t, i) \in i .. LastPlace(t) /\ AfterCompare(t, i) \in Positions(t)
  <1>p. /\ Len(t) \in Nat /\ LastPlace(t) = Len(t) + 5 /\ Positions(t) = 1 .. Len(t) + 5
        /\ \A j \in Int : At(t, j) # NUL => j \in 1 .. Len(t)
    BY Places
  <1> QED  BY <1>p DEF AfterCompare, NUL

\* ParseValue, ParseName, Close and AfterValue, in both: where the one has come to
\* depends only on what is in t, and so the other comes to the same.
LEMMA ValueHeld ==
  ASSUME NEW S, NEW t \in Seq(S), NEW u \in Seq(S), NEW d, Holds(u, t, d),
         NEW s, NEW q, Parsing(t, s), Parsing(u, q), Alike(q, s, d),
         Firm(t, ParseValue(t, s))
  PROVE  Alike(ParseValue(u, q), ParseValue(t, s), d)
  <1> DEFINE i == AfterCompare(t, s.at)
             first == Skip(t, i + 1)
  <1>p. /\ Len(t) \in Nat /\ d \in Nat /\ Positions(t) = 1 .. Len(t) + 5
        /\ LastPlace(t) = Len(t) + 5
        /\ \A k \in 1 .. Len(t) : At(u, k + d) = At(t, k)
    BY HeldPlaces
  <1>a. s.at \in Positions(t) /\ q.at = s.at + d  BY DEF Parsing, Alike
  <1>1. CASE IsLiteral(t, s.at)
    <2>1. ParseValue(t, s) = Returned(s, s.at + 2, Value("literal", << >>))
      BY <1>1 DEF ParseValue
    <2>2. Inside(t, s.at + 2)  BY <2>1, FirmReturned
    <2>3. s.at + 2 <= Len(t)  BY <2>2 DEF Inside
    <2>4. IsLiteral(u, q.at)  BY <1>1, <1>a, <2>3, LiteralHeld
    <2>5. ParseValue(u, q) = Returned(q, q.at + 2, Value("literal", << >>))
      BY <2>4 DEF ParseValue
    <2>6. q.at + 2 = (s.at + 2) + d  BY <1>a, <1>p
    <2> QED  BY <2>1, <2>5, <2>6, ReturnedAlike
  <1> SUFFICES ASSUME ~IsLiteral(t, s.at)
               PROVE  Alike(ParseValue(u, q), ParseValue(t, s), d)
    BY <1>1
  \* Where it begins is a place of t.
  <1>2. i \in Positions(t)
    BY <1>a, AfterComparePlace
  <1>3. i \in 1 .. Len(t)
    <2>1. CASE At(t, i) # NUL
      <3> HIDE DEF i
      <3> QED  BY <1>2, <2>1, NextPlace
    <2>2. CASE At(t, i) = NUL
      <3>1. At(t, i) \notin {Quote, "-", "1", "[", "{"}  BY <2>2, Symbols
      <3>2. ParseValue(t, s) = Failed(s, i)
        <4> HIDE DEF i
        <4> QED  BY <3>1, ValueIs DEF i
      <3>3. Firm(t, Failed(s, i)) /\ Failed(s, i).rule = "failed" /\ Failed(s, i).at = i
        BY <3>2, FailedIs
      <3> HIDE DEF i
      <3>4. i <= Len(t)  BY <3>3 DEF Firm, Inside
      <3> QED  BY <1>2, <3>4, <1>p
    <2> QED  BY <2>1, <2>2
  <1>4. i <= Len(t)
    <2> HIDE DEF i
    <2> QED  BY <1>3, <1>p
  <1> DEFINE k == i + d
  <1>5. ~IsLiteral(u, q.at) /\ k = AfterCompare(u, q.at)
    BY <1>4, <1>a, LiteralHeld
  <1>6. i = AfterCompare(t, s.at)  OBVIOUS
  <1> HIDE DEF i
  <1>7. At(u, k) = At(t, i)  BY <1>3, <1>p
  <1>k. k = i + d  OBVIOUS
  <1> HIDE DEF k
  <1>8. CASE At(t, i) = Quote
    <2>1. ParseValue(t, s) = Returned(s, AfterString(t, i), Value("string", Characters(t, i + 1)))
      BY <1>6, <1>8, ValueIs
    <2>2. ParseValue(u, q) =
            Returned(q, AfterString(u, k), Value("string", Characters(u, k + 1)))
      BY <1>5, <1>7, <1>8, ValueIs
    <2>3. Inside(t, AfterString(t, i))
      <3> DEFINE content == Characters(t, i + 1)
      <3>1. Firm(t, Returned(s, AfterString(t, i), Value("string", content)))
        BY <2>1
      <3> HIDE DEF content
      <3> QED  BY <3>1, FirmReturned
    <2>4. /\ AfterString(u, k) = AfterString(t, i) + d
          /\ Characters(u, k + 1) = Characters(t, i + 1)
      BY <1>2, <1>k, <1>8, <2>3, AfterStringHeld DEF Inside
    <2> QED  BY <2>1, <2>2, <2>4, ReturnedAlike
  <1>9. CASE At(t, i) \in {"-", "1"}
    <2>1. ParseValue(t, s) = Returned(s, AfterNumber(t, i), Value("number", Numeral(t, i)))
      BY <1>6, <1>9, ValueIs
    <2>2. ParseValue(u, q) = Returned(q, AfterNumber(u, k), Value("number", Numeral(u, k)))
      BY <1>5, <1>7, <1>9, ValueIs
    <2>3. Inside(t, AfterNumber(t, i))  BY <2>1, FirmReturned
    <2>4. AfterNumber(u, k) = AfterNumber(t, i) + d /\ Numeral(u, k) = Numeral(t, i)
      BY <1>2, <1>k, <1>9, <2>3, NumberHeld
    <2> QED  BY <2>1, <2>2, <2>4, ReturnedAlike
  \* An array or object.
  <1>10. ASSUME NEW closing \in Closing, NEW type, NEW rule \in {"value", "name"},
                At(t, i) # NUL,
                ParseValue(t, s) = Open(s, first, At(t, first), closing, type, rule),
                ParseValue(u, q) = Open(q, Skip(u, k + 1), At(u, Skip(u, k + 1)),
                                        closing, type, rule)
         PROVE  Alike(ParseValue(u, q), ParseValue(t, s), d)
    <2>1. ASSUME At(t, first) # closing  PROVE first <= Len(t)
      <3> DEFINE r == [s EXCEPT !.rule = rule, !.at = first, !.stack = <<closing>> \o @]
      <3>1. ParseValue(t, s) = r  BY <1>10, <2>1 DEF Open
      <3>2. r.rule = rule /\ r.at = first  BY DEF Parsing
      <3>3. Firm(t, r)  BY <3>1
      <3> HIDE DEF r, first
      <3>4. Inside(t, first)
        <4>1. rule # "done" /\ rule # "after"  OBVIOUS
        <4> QED  BY <3>2, <3>3, <4>1 DEF Firm
      <3> QED  BY <3>4 DEF Inside
    <2>2. Alike(Open(q, Skip(u, k + 1), At(u, Skip(u, k + 1)), closing, type, rule),
                Open(s, first, At(t, first), closing, type, rule), d)
      BY <1>2, <1>k, <1>10, <2>1, OpenAlike
    <2> HIDE DEF first
    <2> QED  BY <1>10, <2>2
  <1>11. CASE At(t, i) = "["
    <2>1. ParseValue(t, s) = Open(s, first, At(t, first), "]", "array", "value")
      BY <1>6, <1>11, ValueIs
    <2>0. At(u, k) = "["  BY <1>7, <1>11, Zenon
    <2>2. ParseValue(u, q) = Open(q, Skip(u, k + 1), At(u, Skip(u, k + 1)),
                                  "]", "array", "value")
      BY <1>5, <2>0, ValueIs
    <2>3. "]" \in Closing /\ At(t, i) # NUL  BY <1>11, Symbols, Zenon DEF Closing
    <2> HIDE DEF first
    <2> QED  BY <1>10, <2>1, <2>2, <2>3, Zenon
  <1>12. CASE At(t, i) = "{"
    <2>1. ParseValue(t, s) = Open(s, first, At(t, first), "}", "object", "name")
      BY <1>6, <1>12, ValueIs
    <2>0. At(u, k) = "{"  BY <1>7, <1>12, Zenon
    <2>2. ParseValue(u, q) = Open(q, Skip(u, k + 1), At(u, Skip(u, k + 1)),
                                  "}", "object", "name")
      BY <1>5, <2>0, ValueIs
    <2>3. "}" \in Closing /\ At(t, i) # NUL  BY <1>12, Symbols, Zenon DEF Closing
    <2> HIDE DEF first
    <2> QED  BY <1>10, <2>1, <2>2, <2>3, Zenon
  <1>13. CASE At(t, i) \notin {Quote, "-", "1", "[", "{"}
    <2>1. ParseValue(t, s) = Failed(s, i)  BY <1>6, <1>13, ValueIs
    <2>2. ParseValue(u, q) = Failed(q, k)  BY <1>5, <1>7, <1>13, ValueIs
    <2> QED  BY <1>k, <2>1, <2>2, FailedAlike
  <1> QED  BY <1>8, <1>9, <1>11, <1>12, <1>13

LEMMA FirmFailed ==
  ASSUME NEW t, NEW s, Parsing(t, s), NEW i, Firm(t, Failed(s, i))
  PROVE  i <= Len(t)
  BY FailedIs DEF Firm, Inside

LEMMA NameHeld ==
  ASSUME NEW S, NEW t \in Seq(S), NEW u \in Seq(S), NEW d, Holds(u, t, d),
         NEW s, NEW q, Parsing(t, s), Parsing(u, q), Alike(q, s, d),
         Firm(t, ParseName(t, s))
  PROVE  Alike(ParseName(u, q), ParseName(t, s), d)
  <1> DEFINE e == AfterString(t, s.at)
             colon == Skip(t, e)
             value == Skip(t, colon + 1)
             r == [s EXCEPT !.rule = "value", !.at = value,
                            !.name = IF Outermost(s) THEN Characters(t, s.at + 1) ELSE @]
  <1>p. /\ Len(t) \in Nat /\ d \in Nat /\ Positions(t) = 1 .. Len(t) + 5
        /\ LastPlace(t) = Len(t) + 5
        /\ \A k \in 1 .. Len(t) : At(u, k + d) = At(t, k)
    BY HeldPlaces
  <1>a. s.at \in Positions(t) /\ q.at = s.at + d  BY DEF Parsing, Alike
  <1>1. CASE At(t, s.at) # Quote
    <2>1. ParseName(t, s) = Failed(s, s.at)  BY <1>1 DEF ParseName
    <2>2. s.at \in 1 .. Len(t)  BY <1>a, <1>p, <2>1, FirmFailed
    <2>3. At(u, q.at) # Quote  BY <1>1, <1>a, <1>p, <2>2
    <2>4. ParseName(u, q) = Failed(q, q.at)  BY <2>3 DEF ParseName
    <2> QED  BY <1>a, <2>1, <2>4, FailedAlike
  <1> SUFFICES ASSUME At(t, s.at) = Quote
               PROVE  Alike(ParseName(u, q), ParseName(t, s), d)
    BY <1>1
  <1>2. s.at \in 1 .. Len(t)  BY <1>a, Symbols, NextPlace
  <1>3. At(u, q.at) = Quote  BY <1>a, <1>p, <1>2
  <1>4. e \in s.at + 1 .. LastPlace(t)  BY <1>a, AfterStringType
  <1>5. e \in Positions(t)  BY <1>2, <1>4, <1>p
  <1>6. colon \in e .. LastPlace(t)  BY <1>5, SkipType
  \* The name, if the colon is in t.
  <1>7. ASSUME colon <= Len(t)
        PROVE  /\ Skip(u, AfterString(u, q.at)) = colon + d /\ colon \in 1 .. Len(t)
               /\ At(u, colon + d) = At(t, colon)
               /\ Characters(u, q.at + 1) = Characters(t, s.at + 1)
    <2>1. e <= Len(t) /\ colon \in 1 .. Len(t)
      <3> HIDE DEF e, colon
      <3> QED  BY <1>5, <1>6, <1>7, <1>p
    <2>2. AfterString(u, q.at) = e + d /\ Characters(u, q.at + 1) = Characters(t, s.at + 1)
      BY <1>a, <2>1, AfterStringHeld
    <2>3. Skip(u, e + d) = colon + d
      <3> HIDE DEF e
      <3> QED  BY <1>5, <1>7, SkipHeld
    <2>4. At(u, colon + d) = At(t, colon)
      <3> HIDE DEF colon
      <3> QED  BY <2>1, <1>p
    <2> HIDE DEF e, colon
    <2> QED  BY <2>1, <2>2, <2>3, <2>4
  <1>8. CASE At(t, colon) # ":"
    <2>1. ParseName(t, s) = Failed(s, colon)  BY <1>8 DEF ParseName
    <2>2. colon <= Len(t)
      <3> HIDE DEF colon
      <3> QED  BY <2>1, FirmFailed
    <2>3. /\ Skip(u, AfterString(u, q.at)) = colon + d
          /\ At(u, colon + d) = At(t, colon)
      BY <1>7, <2>2
    <2> HIDE DEF colon
    <2>4. ParseName(u, q) = Failed(q, colon + d)  BY <1>3, <1>8, <2>3 DEF ParseName
    <2> QED  BY <2>1, <2>4, FailedAlike
  <1>9. CASE At(t, colon) = ":"
    <2>1. colon <= Len(t) /\ colon + 1 \in Positions(t)
      <3> HIDE DEF colon
      <3>0. At(t, colon) # NUL  BY <1>9, Symbols, Zenon
      <3> HIDE DEF e
      <3>1. colon \in Positions(t) /\ At(t, colon) # NUL  BY <1>5, <1>6, <1>p, <3>0
      <3>2. colon \in 1 .. Len(t) /\ colon + 1 \in Positions(t)  BY <3>1, NextPlace
      <3> QED  BY <3>2, <1>p
    <2>2. /\ Skip(u, AfterString(u, q.at)) = colon + d
          /\ At(u, colon + d) = At(t, colon) /\ colon \in 1 .. Len(t)
          /\ Characters(u, q.at + 1) = Characters(t, s.at + 1)
      BY <1>7, <2>1
    <2>3. ParseName(t, s) = r  BY <1>9 DEF ParseName
    <2> HIDE DEF colon
    <2>4. value <= Len(t)
      <3>1. r.rule = "value" /\ r.at = value  BY DEF Parsing
      <3>2. Firm(t, r)  BY <2>3
      <3> HIDE DEF r, value
      <3> QED  BY <3>1, <3>2 DEF Firm, Inside
    <2>5. Skip(u, colon + 1 + d) = value + d  BY <2>1, <2>4, SkipHeld
    <2>6. Skip(u, colon + d + 1) = value + d
      <3>1. colon + 1 + d = colon + d + 1  BY <2>2, <1>p
      <3> HIDE DEF value
      <3> QED  BY <2>5, <3>1
    <2> DEFINE x == [q EXCEPT !.rule = "value", !.at = value + d,
                       !.name = IF Outermost(q) THEN Characters(u, q.at + 1) ELSE @]
    <2> HIDE DEF value
    <2>7. ParseName(u, q) = x  BY <1>3, <1>9, <2>2, <2>6 DEF ParseName
    <2>8. Outermost(q) <=> Outermost(s)  BY DEF Outermost, Alike
    <2>9. Alike(x, r, d)  BY <2>2, <2>8 DEF Alike, Parsing
    <2> HIDE DEF x, r
    <2> QED  BY <2>3, <2>7, <2>9
  <1> QED  BY <1>8, <1>9

LEMMA CloseHeld ==
  ASSUME NEW S, NEW t \in Seq(S), NEW u \in Seq(S), NEW d, Holds(u, t, d),
         NEW s, NEW q, Parsing(t, s), Parsing(u, q), Alike(q, s, d), s.rule = "close",
         Firm(t, Close(t, s))
  PROVE  Alike(Close(u, q), Close(t, s), d)
  <1>p. /\ Len(t) \in Nat /\ d \in Nat /\ Positions(t) = 1 .. Len(t) + 5
        /\ \A k \in 1 .. Len(t) : At(u, k + d) = At(t, k)
    BY HeldPlaces
  <1>a. /\ s.at \in Positions(t) /\ q.at = s.at + d /\ q.stack = s.stack
        /\ s.stack \in Seq(Closing) /\ s.stack # << >>
    BY DEF Parsing, Alike
  <1>b. s.stack[1] \in Closing  BY <1>a
  <1>1. CASE At(t, s.at) # s.stack[1]
    <2>1. Close(t, s) = Failed(s, s.at)  BY <1>1 DEF Close
    <2>2. s.at \in 1 .. Len(t)  BY <1>a, <1>p, <2>1, FirmFailed
    <2>3. At(u, q.at) # q.stack[1]  BY <1>1, <1>a, <1>p, <2>2
    <2>4. Close(u, q) = Failed(q, q.at)  BY <2>3 DEF Close
    <2> QED  BY <1>a, <2>1, <2>4, FailedAlike
  <1>2. CASE At(t, s.at) = s.stack[1]
    <2>1. s.at \in 1 .. Len(t)
      <3>1. At(t, s.at) # NUL  BY <1>b, <1>2, Symbols
      <3> QED  BY <1>a, <3>1, NextPlace
    <2>2. At(u, q.at) = q.stack[1]  BY <1>2, <1>a, <1>p, <2>1
    <2> DEFINE v == Value(IF s.stack[1] = "]" THEN "array" ELSE "object", << >>)
               r == Returned(s, s.at + 1, v)
               x == Returned(q, q.at + 1, v)
    <2>3. Close(t, s) = [r EXCEPT !.stack = Tail(@)]  BY <1>2 DEF Close
    <2>4. Close(u, q) = [x EXCEPT !.stack = Tail(@)]  BY <1>a, <2>2 DEF Close
    <2>5. q.at + 1 = s.at + 1 + d  BY <1>a, <1>p
    <2> HIDE DEF v
    <2>6. Alike(x, r, d)  BY <2>5, ReturnedAlike
    <2>7. /\ DOMAIN r = {"rule", "at", "stack", "name", "value", "members"}
          /\ DOMAIN x = {"rule", "at", "stack", "name", "value", "members"}
      BY DEF Returned, Parsing
    <2> HIDE DEF r, x
    <2>8. Alike([x EXCEPT !.stack = Tail(@)], [r EXCEPT !.stack = Tail(@)], d)
      BY <2>6, <2>7 DEF Alike
    <2> QED  BY <2>3, <2>4, <2>8
  <1> QED  BY <1>1, <1>2

\* What AfterValue makes of a state, but for the end.
Kept(s) ==
  IF Outermost(s) THEN [s EXCEPT !.members = Append(@, [name |-> s.name, value |-> s.value])]
                  ELSE s

\* The two differ in the rule and the place.
Led(s, rule, i) == [Kept(s) EXCEPT !.rule = rule, !.at = i]

LEMMA LedIs ==
  ASSUME NEW t, NEW s, Parsing(t, s), NEW rule, NEW i
  PROVE  /\ Led(s, rule, i).rule = rule /\ Led(s, rule, i).at = i
         /\ Led(s, rule, i).stack = s.stack
         /\ Led(s, rule, i).name = s.name /\ Led(s, rule, i).value = s.value
         /\ Led(s, rule, i).members =
              IF Outermost(s) THEN Append(s.members, [name |-> s.name, value |-> s.value])
                              ELSE s.members
  BY DEF Parsing, Led, Kept

LEMMA LedPlace ==
  ASSUME NEW t, NEW s, Parsing(t, s), NEW rule, NEW i
  PROVE  Led(s, rule, i).rule = rule /\ Led(s, rule, i).at = i
  BY DEF Parsing, Led, Kept

LEMMA LedAlike ==
  ASSUME NEW t, NEW u, NEW s, NEW q, NEW d, Parsing(t, s), Parsing(u, q), Alike(q, s, d),
         NEW rule, NEW i, NEW j, j = i + d
  PROVE  Alike(Led(q, rule, j), Led(s, rule, i), d)
  <1> DEFINE x == Led(q, rule, j)
             y == Led(s, rule, i)
  <1>1. Outermost(q) <=> Outermost(s)  BY DEF Outermost, Alike
  <1>2. q.stack = s.stack /\ q.name = s.name /\ q.value = s.value /\ q.members = s.members
    BY DEF Alike
  <1>3. /\ x.rule = rule /\ x.at = j /\ x.stack = q.stack /\ x.name = q.name
        /\ x.value = q.value
        /\ x.members = IF Outermost(q)
                         THEN Append(q.members, [name |-> q.name, value |-> q.value])
                         ELSE q.members
    BY LedIs
  <1>4. /\ y.rule = rule /\ y.at = i /\ y.stack = s.stack /\ y.name = s.name
        /\ y.value = s.value
        /\ y.members = IF Outermost(s)
                         THEN Append(s.members, [name |-> s.name, value |-> s.value])
                         ELSE s.members
    BY LedIs
  <1> HIDE DEF x, y
  <1>5. Alike(x, y, d)  BY <1>1, <1>2, <1>3, <1>4 DEF Alike
  <1> QED  BY <1>5 DEF x, y

Follows(s) == IF s.stack[1] = "]" THEN "value" ELSE "name"

LEMMA NoComma ==
  ASSUME NEW t, NEW s, s.stack # << >>, NEW comma, comma = Skip(t, s.at), At(t, comma) # ","
  PROVE  AfterValue(t, s) = Led(s, "close", comma)
  BY DEF AfterValue, Led, Kept

LEMMA CommaCloses ==
  ASSUME NEW t, NEW s, s.stack # << >>, NEW comma, comma = Skip(t, s.at), At(t, comma) = ",",
         NEW more, more = Skip(t, comma + 1), At(t, more) = s.stack[1]
  PROVE  AfterValue(t, s) = Led(s, "close", more + 1)
  BY DEF AfterValue, Led, Kept

LEMMA CommaGoesOn ==
  ASSUME NEW t, NEW s, s.stack # << >>, NEW comma, comma = Skip(t, s.at), At(t, comma) = ",",
         NEW more, more = Skip(t, comma + 1), At(t, more) # s.stack[1]
  PROVE  AfterValue(t, s) = Led(s, Follows(s), more)
  BY DEF AfterValue, Led, Kept, Follows

LEMMA AfterValueHeld ==
  ASSUME NEW S, NEW t \in Seq(S), NEW u \in Seq(S), NEW d, Holds(u, t, d),
         NEW s, NEW q, Parsing(t, s), Parsing(u, q), Alike(q, s, d), s.rule = "after",
         Firm(t, AfterValue(t, s))
  PROVE  Alike(AfterValue(u, q), AfterValue(t, s), d)
  <1> DEFINE sep == ","
             comma == Skip(t, s.at)
             more == Skip(t, comma + 1)
  <1>r. Follows(s) \in {"value", "name", "close"}  BY DEF Follows
  <1>s. sep = ","  OBVIOUS
  <1>t. sep # NUL  BY Symbols, Zenon
  <1> HIDE DEF sep
  <1>p. /\ Len(t) \in Nat /\ d \in Nat /\ Positions(t) = 1 .. Len(t) + 5
        /\ LastPlace(t) = Len(t) + 5
        /\ \A k \in 1 .. Len(t) : At(u, k + d) = At(t, k)
    BY HeldPlaces
  <1>a. /\ s.at \in Positions(t) /\ q.at = s.at + d /\ q.stack = s.stack
        /\ s.stack \in Seq(Closing)
    BY DEF Parsing, Alike
  <1>1. CASE s.stack = << >>
    <2>1. /\ AfterValue(t, s) = [s EXCEPT !.rule = "done"]
          /\ AfterValue(u, q) = [q EXCEPT !.rule = "done"]
      BY <1>1, <1>a DEF AfterValue
    <2>2. Alike([q EXCEPT !.rule = "done"], [s EXCEPT !.rule = "done"], d)
      BY DEF Alike, Parsing
    <2> QED  BY <2>1, <2>2
  <1> SUFFICES ASSUME s.stack # << >>
               PROVE  Alike(AfterValue(u, q), AfterValue(t, s), d)
    BY <1>1
  <1>b. s.stack[1] \in Closing  BY <1>a
  <1>2. comma \in Positions(t)
    <2>1. comma \in s.at .. LastPlace(t)  BY <1>a, SkipType
    <2> HIDE DEF comma
    <2> QED  BY <1>a, <2>1, <1>p
  <1>3. ASSUME NEW rule \in {"value", "name", "close"}, NEW i, AfterValue(t, s) = Led(s, rule, i)
        PROVE  i <= Len(t)
    <2>1. Led(s, rule, i).rule = rule /\ Led(s, rule, i).at = i  BY LedPlace
    <2>2. Firm(t, Led(s, rule, i))  BY <1>3
    <2> QED  BY <2>1, <2>2 DEF Firm, Inside
  <1>4. ASSUME comma <= Len(t)
        PROVE  /\ Skip(u, q.at) = comma + d /\ comma \in 1 .. Len(t)
               /\ At(u, comma + d) = At(t, comma)
    <2>1. Skip(u, q.at) = comma + d  BY <1>4, <1>a, SkipHeld
    <2> HIDE DEF comma
    <2> QED  BY <1>2, <1>4, <2>1, <1>p
  <1>5. CASE At(t, comma) # sep
    <2>1. AfterValue(t, s) = Led(s, "close", comma)
      <3> HIDE DEF comma
      <3> QED  BY <1>5, <1>s, NoComma DEF comma
    <2>2. comma <= Len(t)  BY <1>3, <2>1
    <2>3. Skip(u, q.at) = comma + d /\ At(u, comma + d) = At(t, comma)  BY <1>4, <2>2
    <2> HIDE DEF comma
    <2>4. AfterValue(u, q) = Led(q, "close", comma + d)
      <3> DEFINE k == comma + d
      <3>1. k = Skip(u, q.at) /\ At(u, k) # sep /\ q.stack # << >>  BY <1>5, <1>a, <2>3
      <3> HIDE DEF k
      <3>2. AfterValue(u, q) = Led(q, "close", k)  BY <1>s, <3>1, NoComma, Zenon
      <3> QED  BY <3>2 DEF k
    <2> QED  BY <2>1, <2>4, LedAlike
  <1> SUFFICES ASSUME At(t, comma) = sep
               PROVE  Alike(AfterValue(u, q), AfterValue(t, s), d)
    BY <1>5
  <1>6. comma \in 1 .. Len(t) /\ comma + 1 \in Positions(t)
    <2>1. At(t, comma) # NUL  BY <1>t
    <2> HIDE DEF comma
    <2> QED  BY <1>2, <2>1, NextPlace
  <1>7. Skip(u, q.at) = comma + d /\ At(u, comma + d) = sep
    <2>1. comma <= Len(t)
      <3> HIDE DEF comma
      <3> QED  BY <1>6, <1>p
    <2> QED  BY <1>4, <2>1
  <1>m. more = Skip(t, comma + 1) /\ comma = Skip(t, s.at)  OBVIOUS
  <1> HIDE DEF comma
  <1>8. more \in Positions(t)
    <2>1. more \in comma + 1 .. LastPlace(t)  BY <1>6, SkipType
    <2> HIDE DEF more
    <2> QED  BY <1>6, <2>1, <1>p
  <1> HIDE DEF more
  \* In the other text.
  <1>9. ASSUME more <= Len(t)
        PROVE  /\ \E i, j : /\ i = Skip(u, q.at) /\ At(u, i) = sep
                            /\ j = Skip(u, i + 1) /\ j = more + d
               /\ At(u, more + d) = At(t, more) /\ more + d + 1 = more + 1 + d
    <2>1. more \in 1 .. Len(t)  BY <1>8, <1>9, <1>p
    <2> DEFINE k == comma + 1
    <2>2. k + d = comma + d + 1 /\ more = Skip(t, k) /\ k \in Positions(t)
      BY <1>6, <1>m, <1>p
    <2> HIDE DEF k
    <2>3. Skip(u, k + d) = more + d  BY <1>9, <2>2, SkipHeld
    <2> QED  BY <1>7, <2>1, <2>2, <2>3, <1>p
  <1>10. CASE At(t, more) = s.stack[1]
    <2>1. AfterValue(t, s) = Led(s, "close", more + 1)  BY <1>s, <1>10, <1>m, CommaCloses, Zenon
    <2>2. more <= Len(t)
      <3>1. At(t, more) # NUL  BY <1>b, <1>10, Symbols
      <3>2. more \in 1 .. Len(t)  BY <1>8, <3>1, NextPlace
      <3> QED  BY <3>2, <1>p
    <2>3. AfterValue(u, q) = Led(q, "close", more + d + 1)
      <3>1. PICK i, j : /\ i = Skip(u, q.at) /\ At(u, i) = sep
                        /\ j = Skip(u, i + 1) /\ j = more + d
        BY <1>9, <2>2
      <3>2. q.stack # << >> /\ At(u, j) = q.stack[1]  BY <1>9, <1>10, <1>a, <2>2, <3>1
      <3>3. AfterValue(u, q) = Led(q, "close", j + 1)  BY <1>s, <3>1, <3>2, CommaCloses, Zenon
      <3> QED  BY <3>1, <3>3
    <2>4. more + d + 1 = more + 1 + d  BY <1>9, <2>2
    <2> QED  BY <2>1, <2>3, <2>4, LedAlike
  <1>11. CASE At(t, more) # s.stack[1]
    <2>1. AfterValue(t, s) = Led(s, Follows(s), more)
      BY <1>s, <1>11, <1>m, CommaGoesOn, Zenon
    <2>2. more <= Len(t)  BY <1>3, <1>r, <2>1
    <2>3. AfterValue(u, q) = Led(q, Follows(s), more + d)
      <3>1. PICK i, j : /\ i = Skip(u, q.at) /\ At(u, i) = sep
                        /\ j = Skip(u, i + 1) /\ j = more + d
        BY <1>9, <2>2
      <3>2. q.stack = s.stack /\ q.stack # << >> /\ At(u, j) # q.stack[1]
        BY <1>9, <1>11, <1>a, <2>2, <3>1
      <3>4. Follows(q) = Follows(s)  BY <3>2 DEF Follows
      <3>3. AfterValue(u, q) = Led(q, Follows(q), j)
        BY <1>s, <3>1, <3>2, CommaGoesOn, Zenon
      <3> QED  BY <3>1, <3>3, <3>4
    <2> QED  BY <2>1, <2>3, LedAlike
  <1> QED  BY <1>10, <1>11

\* A step that has come to its state by what is in the text comes to the same in any
\* text that holds it.
LEMMA StepHeld ==
  ASSUME NEW S, NEW t \in Seq(S), NEW u \in Seq(S), NEW d, Holds(u, t, d),
         NEW s, NEW q, Parsing(t, s), Parsing(u, q), Alike(q, s, d), Firm(t, Step(t, s))
  PROVE  Alike(Step(u, q), Step(t, s), d)
  <1>0. q.rule = s.rule  BY DEF Alike
  <1>1. CASE s.rule = "value"
    <2>1. Step(t, s) = ParseValue(t, s) /\ Step(u, q) = ParseValue(u, q)
      BY <1>0, <1>1 DEF Step
    <2> QED  BY <2>1, ValueHeld
  <1>2. CASE s.rule = "name"
    <2>1. Step(t, s) = ParseName(t, s) /\ Step(u, q) = ParseName(u, q)
      BY <1>0, <1>2 DEF Step
    <2> QED  BY <2>1, NameHeld
  <1>3. CASE s.rule = "after"
    <2>1. Step(t, s) = AfterValue(t, s) /\ Step(u, q) = AfterValue(u, q)
      BY <1>0, <1>3 DEF Step
    <2> QED  BY <1>3, <2>1, AfterValueHeld
  <1>4. CASE s.rule = "close"
    <2>1. Step(t, s) = Close(t, s) /\ Step(u, q) = Close(u, q)
      BY <1>0, <1>4 DEF Step
    <2> QED  BY <1>4, <2>1, CloseHeld
  <1>5. CASE s.rule \in Ended
    <2>1. Step(t, s) = s /\ Step(u, q) = q  BY <1>0, <1>5, StepGoesOn
    <2> QED  BY <2>1
  <1> QED  BY <1>1, <1>2, <1>3, <1>4, <1>5 DEF Parsing

-----------------------------------------------------------------------------
(* A text that is not cut off                                               *)

\* The pointer can be left behind the NUL only if the text ends behind this symbol, or
\* inside an escape.
Whole(t) == At(t, Len(t)) # "ll" /\ ~InEscape(t)

\* The pointer is not behind the NUL after any of the scans.
LEMMA WithinNext ==
  ASSUME NEW S, NEW t \in Seq(S), NEW i \in 1 .. Len(t) + 1, At(t, i) # NUL
  PROVE  i \in 1 .. Len(t) /\ i + 1 \in 1 .. Len(t) + 1
  <1>1. Len(t) \in Nat /\ \A j \in Int : At(t, j) # NUL => j \in 1 .. Len(t)
    BY Places
  <1>2. i \in 1 .. Len(t)  BY <1>1
  <1> QED  BY <1>1, <1>2

LEMMA PastWithin ==
  ASSUME NEW S, NEW t \in Seq(S), NEW i \in 1 .. Len(t) + 1, NEW symbol, symbol # NUL
  PROVE  Past(t, symbol, i) \in i .. Len(t) + 1
  <1> DEFINE j == Past(t, symbol, i)
  <1>p. /\ Len(t) \in Nat /\ LastPlace(t) = Len(t) + 5 /\ Positions(t) = 1 .. Len(t) + 5
        /\ At(t, Len(t) + 1) = NUL
    BY Places DEF At
  <1>0. i \in Positions(t)  BY <1>p
  <1>1. j \in i .. LastPlace(t) /\ \A k \in i .. j - 1 : At(t, k) = symbol
    BY <1>0, PastIs
  <1> HIDE DEF j
  <1>2. ~(j > Len(t) + 1)
    <2> SUFFICES ASSUME j > Len(t) + 1  PROVE FALSE
      OBVIOUS
    <2>1. Len(t) + 1 \in i .. j - 1  BY <1>1, <1>p
    <2> QED  BY <1>1, <2>1, <1>p
  <1>3. j \in i .. Len(t) + 1  BY <1>1, <1>2, <1>p
  <1> QED  BY <1>3 DEF j

LEMMA SkipWithin ==
  ASSUME NEW S, NEW t \in Seq(S), NEW i \in 1 .. Len(t) + 1
  PROVE  Skip(t, i) \in i .. Len(t) + 1
  BY PastWithin DEF Skip, NUL

LEMMA AfterDigitsWithin ==
  ASSUME NEW S, NEW t \in Seq(S), NEW i \in 1 .. Len(t) + 1
  PROVE  AfterDigits(t, i) \in i .. Len(t) + 1
  BY PastWithin DEF AfterDigits, NUL

LEMMA StringEndWithin ==
  ASSUME NEW S, NEW t \in Seq(S), NEW i \in 1 .. Len(t) + 1, Whole(t)
  PROVE  StringEnd(t, i) \in i .. Len(t) + 1
  <1> DEFINE M == Len(t) + 1
             T == {j \in 1 .. M : StringEnd(t, j) \in j .. M}
  <1>p. /\ M \in Nat /\ Positions(t) = 1 .. Len(t) + 5 /\ Len(t) \in Nat
        /\ \A j \in 1 .. M : ~Stops(t, j) => j \in 1 .. Len(t)
    BY Places DEF Stops
  <1>1. ASSUME NEW j \in 1 .. M, \A k \in j + 1 .. M : k \in T  PROVE j \in T
    <2>0. j \in Positions(t)  BY <1>p
    <2>1. CASE Stops(t, j)  BY <1>p, <2>0, <2>1, StringEndIs
    <2>2. CASE ~Stops(t, j) /\ At(t, j) = Backslash
      <3> DEFINE k == j + Taken(t, j)
      <3>1. StringEnd(t, j) = StringEnd(t, k)  BY <2>0, <2>2, StringEndIs
      <3>2. j \in 1 .. Len(t) /\ t[j] = Backslash  BY <1>p, <2>2 DEF At
      <3>3. k \in j + 2 .. LastPlace(t) /\ k \in Int  BY <3>2, TakenType
      <3>4. ~(k > Len(t) + 1)  BY <3>2 DEF Whole, InEscape
      <3> HIDE DEF k
      <3>5. k \in j + 1 .. M /\ k >= j  BY <1>p, <3>2, <3>3, <3>4
      <3>6. StringEnd(t, k) \in k .. M  BY <1>1, <3>5
      <3> QED  BY <1>p, <3>1, <3>5, <3>6
    <2>3. CASE ~Stops(t, j) /\ At(t, j) # Backslash
      <3>1. StringEnd(t, j) = StringEnd(t, j + 1)  BY <2>0, <2>3, StringEndIs
      <3>3. j + 1 \in j + 1 .. M  BY <2>3, <1>p
      <3>4. StringEnd(t, j + 1) \in j + 1 .. M  BY <1>1, <3>3
      <3> QED  BY <1>p, <3>1, <3>4
    <2> QED  BY <2>1, <2>2, <2>3
  <1>2. \A j \in 1 .. M : j \in T
    <2> HIDE DEF T, M
    <2> QED  BY <1>p, <1>1, Downwards
  <1> QED  BY <1>2

LEMMA AfterStringWithin ==
  ASSUME NEW S, NEW t \in Seq(S), NEW i \in 1 .. Len(t) + 1, At(t, i) = Quote, Whole(t)
  PROVE  AfterString(t, i) \in 1 .. Len(t) + 1
  <1> DEFINE e == StringEnd(t, i + 1)
  <1>1. i + 1 \in 1 .. Len(t) + 1  BY Symbols, WithinNext
  <1>2. e \in i + 1 .. Len(t) + 1  BY <1>1, StringEndWithin
  <1> HIDE DEF e
  <1>3. Len(t) \in Nat  BY Places
  <1>4. e \in 1 .. Len(t) + 1  BY <1>1, <1>2, <1>3
  <1>5. At(t, e) = Quote => e + 1 \in 1 .. Len(t) + 1  BY <1>4, Symbols, WithinNext
  <1> QED  BY <1>4, <1>5 DEF AfterString, e

LEMMA AfterNumberWithin ==
  ASSUME NEW S, NEW t \in Seq(S), NEW i \in 1 .. Len(t) + 1, At(t, i) \in {"-", "1"}
  PROVE  AfterNumber(t, i) \in 1 .. Len(t) + 1
  <1> DEFINE b == IF At(t, i) = "-" THEN i + 1 ELSE i
             p == AfterDigits(t, b)
  <1>0. Len(t) \in Nat  BY Places
  <1>1. b \in 1 .. Len(t) + 1  BY Symbols, WithinNext
  <1>2. p \in 1 .. Len(t) + 1
    <2> HIDE DEF b
    <2>1. p \in b .. Len(t) + 1  BY <1>1, AfterDigitsWithin
    <2> HIDE DEF p
    <2> QED  BY <1>0, <1>1, <2>1
  <1>3. IntegerEnd(t, i) = p  BY DEF IntegerEnd
  <1> HIDE DEF p
  <1>4. At(t, p) = "." => AfterDigits(t, p + 1) \in 1 .. Len(t) + 1
    <2> SUFFICES ASSUME At(t, p) = "."  PROVE AfterDigits(t, p + 1) \in 1 .. Len(t) + 1
      OBVIOUS
    <2>1. p + 1 \in 1 .. Len(t) + 1  BY <1>2, Symbols, WithinNext
    <2>2. AfterDigits(t, p + 1) \in p + 1 .. Len(t) + 1  BY <2>1, AfterDigitsWithin
    <2> QED  BY <1>0, <2>1, <2>2
  <1> QED  BY <1>2, <1>3, <1>4 DEF AfterNumber

LEMMA AfterCompareWithin ==
  ASSUME NEW S, NEW t \in Seq(S), NEW i \in 1 .. Len(t) + 1, Whole(t)
  PROVE  /\ AfterCompare(t, i) \in 1 .. Len(t) + 1
         /\ IsLiteral(t, i) => i + 2 \in 1 .. Len(t) + 1
  <1>p. /\ Len(t) \in Nat /\ \A j \in Int : At(t, j) # NUL => j \in 1 .. Len(t)
        /\ At(t, Len(t)) # "ll"
    BY Places DEF Whole
  <1>1. CASE At(t, i) # "nu"  BY <1>1 DEF AfterCompare, IsLiteral
  <1>2. CASE At(t, i) = "nu" /\ At(t, i + 1) # "ll"
    <2>1. At(t, i) # NUL  BY <1>2 DEF NUL
    <2>2. i + 1 \in 1 .. Len(t) + 1  BY <2>1, WithinNext
    <2> QED  BY <1>2, <2>2 DEF AfterCompare, IsLiteral
  <1>3. CASE At(t, i) = "nu" /\ At(t, i + 1) = "ll"
    <2>1. At(t, i + 1) # NUL /\ i + 1 # Len(t)  BY <1>3, <1>p DEF NUL
    <2>2. i + 1 \in 1 .. Len(t)  BY <2>1, <1>p
    <2>3. i + 3 \in 1 .. Len(t) + 1 /\ i + 2 \in 1 .. Len(t) + 1  BY <2>1, <2>2, <1>p
    <2> QED  BY <1>3, <2>3 DEF AfterCompare, IsLiteral
  <1> QED  BY <1>1, <1>2, <1>3

\* Where the states of the parser are, in a text that is not cut off, and behind an
\* array or object.
Traced(t, s) ==
  /\ Whole(t) => s.at <= Len(t) + 1
  /\ s.rule \in {"after", "done"} /\ Bracketed(s) => At(t, s.at - 1) \in Closing

Leads(t, s, r) == s.at <= r.at /\ (Traced(t, s) => Traced(t, r))

\* Each rule keeps this.
LEMMA FailedLeads ==
  ASSUME NEW t, NEW s, Parsing(t, s), NEW i, s.at <= i, Traced(t, s) /\ Whole(t) => i <= Len(t) + 1
  PROVE  Leads(t, s, Failed(s, i))
  BY FailedIs DEF Leads, Traced

LEMMA ScalarLeads ==
  ASSUME NEW t, NEW s, Parsing(t, s), NEW i, s.at <= i, Traced(t, s) /\ Whole(t) => i <= Len(t) + 1,
         NEW type \in {"literal", "string", "number"}, NEW content
  PROVE  Leads(t, s, Returned(s, i, Value(type, content)))
  <1> DEFINE r == Returned(s, i, Value(type, content))
  <1>1. r.rule = "after" /\ r.at = i /\ r.value = Value(type, content)
    BY ReturnedIs
  <1> HIDE DEF r
  <1>2. ~Bracketed(r)  BY <1>1 DEF Bracketed, Value
  <1>3. Leads(t, s, r)  BY <1>1, <1>2 DEF Leads, Traced
  <1> QED  BY <1>3 DEF r

LEMMA OpenLeads ==
  ASSUME NEW S, NEW t \in Seq(S), NEW s, Parsing(t, s),
         NEW i \in Positions(t), s.at <= i, At(t, i) # NUL,
         NEW closing \in Closing, NEW type, NEW rule \in {"value", "name"},
         Traced(t, s) /\ Whole(t) => i <= Len(t) + 1
  PROVE  Leads(t, s, Open(s, Skip(t, i + 1), At(t, Skip(t, i + 1)), closing, type, rule))
  <1> DEFINE first == Skip(t, i + 1)
             r == Open(s, first, At(t, first), closing, type, rule)
  <1>p. Len(t) \in Nat /\ LastPlace(t) = Len(t) + 5 /\ Positions(t) = 1 .. Len(t) + 5
    BY Places
  <1>a. s.at \in Nat  BY <1>p DEF Parsing
  <1>1. i \in 1 .. Len(t) /\ i + 1 \in Positions(t)  BY NextPlace
  <1>2. i + 1 \in 1 .. Len(t) + 1  BY <1>1, <1>p
  <1>3. first \in i + 1 .. Len(t) + 1  BY <1>2, SkipWithin
  <1> HIDE DEF first
  <1>4. first \in 1 .. Len(t) + 1 /\ s.at <= first  BY <1>1, <1>3, <1>a, <1>p
  <1>5. CASE At(t, first) = closing
    <2>1. r = Returned(s, first + 1, Value(type, << >>))  BY <1>5 DEF Open
    <2>2. r.rule = "after" /\ r.at = first + 1  BY <2>1, ReturnedIs
    <2>3. first + 1 \in 1 .. Len(t) + 1  BY <1>4, <1>5, Symbols, WithinNext
    <2>4. first + 1 - 1 = first /\ s.at <= first + 1  BY <1>4, <1>a, <1>p
    <2> HIDE DEF r
    <2>8. r.at - 1 = first  BY <1>4, <2>2, <2>4
    <2>5. At(t, r.at - 1) \in Closing  BY <1>5, <2>8
    <2>6. s.at <= r.at /\ r.at <= Len(t) + 1  BY <1>p, <2>2, <2>3, <2>4
    <2>7. Leads(t, s, r)  BY <2>5, <2>6 DEF Leads, Traced
    <2> QED  BY <2>7 DEF r, first
  <1>6. CASE At(t, first) # closing
    <2>1. r = [s EXCEPT !.rule = rule, !.at = first, !.stack = <<closing>> \o @]
      BY <1>6 DEF Open
    <2>2. r.rule = rule /\ r.at = first  BY <2>1 DEF Parsing
    <2> HIDE DEF r
    <2>3. Leads(t, s, r)  BY <1>4, <1>p, <2>2 DEF Leads, Traced
    <2> QED  BY <2>3 DEF r, first
  <1> QED  BY <1>5, <1>6

LEMMA ValueLeads ==
  ASSUME NEW S, NEW t \in Seq(S), NEW s, Parsing(t, s)
  PROVE  Leads(t, s, ParseValue(t, s))
  <1> DEFINE i == AfterCompare(t, s.at)
             first == Skip(t, i + 1)
             W == Traced(t, s) /\ Whole(t)
  <1>p. Len(t) \in Nat /\ LastPlace(t) = Len(t) + 5 /\ Positions(t) = 1 .. Len(t) + 5
    BY Places
  <1>a. s.at \in Positions(t) /\ s.at \in Nat  BY <1>p DEF Parsing
  <1>b. W => s.at \in 1 .. Len(t) + 1 /\ Whole(t)
    BY <1>a, <1>p DEF Traced
  <1>1. CASE IsLiteral(t, s.at)
    <2>1. ParseValue(t, s) = Returned(s, s.at + 2, Value("literal", << >>))
      BY <1>1 DEF ParseValue
    <2>2. W => s.at + 2 <= Len(t) + 1
      <3>1. W => s.at + 2 \in 1 .. Len(t) + 1  BY <1>1, <1>b, AfterCompareWithin
      <3> QED  BY <3>1, <1>p
    <2>3. s.at <= s.at + 2  BY <1>a
    <2> QED  BY <2>1, <2>2, <2>3, ScalarLeads
  <1> SUFFICES ASSUME ~IsLiteral(t, s.at)  PROVE Leads(t, s, ParseValue(t, s))
    BY <1>1
  <1>2. i \in Positions(t) /\ s.at <= i /\ (W => i \in 1 .. Len(t) + 1 /\ i <= Len(t) + 1)
    <2>1. i \in s.at .. LastPlace(t) /\ i \in Positions(t)  BY <1>a, AfterComparePlace
    <2>2. W => i \in 1 .. Len(t) + 1  BY <1>b, AfterCompareWithin
    <2> HIDE DEF i, W
    <2> QED  BY <2>1, <2>2, <1>a, <1>p
  <1>3. i = AfterCompare(t, s.at)  OBVIOUS
  <1> HIDE DEF i
  <1>4. CASE At(t, i) = Quote
    <2>1. ParseValue(t, s) = Returned(s, AfterString(t, i), Value("string", Characters(t, i + 1)))
      BY <1>3, <1>4, ValueIs
    <2>2. AfterString(t, i) \in i + 1 .. LastPlace(t)  BY <1>2, <1>4, AfterStringType
    <2>3. s.at <= AfterString(t, i)  BY <1>2, <1>a, <1>p, <2>2
    <2>4. W => AfterString(t, i) <= Len(t) + 1
      <3>1. W => AfterString(t, i) \in 1 .. Len(t) + 1
        BY <1>2, <1>b, <1>4, AfterStringWithin
      <3> QED  BY <3>1, <1>p
    <2> DEFINE content == Characters(t, i + 1)
    <2> HIDE DEF content
    <2>5. Leads(t, s, Returned(s, AfterString(t, i), Value("string", content)))
      BY <2>3, <2>4, ScalarLeads
    <2> QED  BY <2>1, <2>5 DEF content
  <1>5. CASE At(t, i) \in {"-", "1"}
    <2>1. ParseValue(t, s) = Returned(s, AfterNumber(t, i), Value("number", Numeral(t, i)))
      BY <1>3, <1>5, ValueIs
    <2>2. AfterNumber(t, i) \in i + 1 .. LastPlace(t)  BY <1>2, <1>5, AfterNumberType
    <2>3. s.at <= AfterNumber(t, i)  BY <1>2, <1>a, <1>p, <2>2
    <2>4. W => AfterNumber(t, i) <= Len(t) + 1
      <3>1. W => AfterNumber(t, i) \in 1 .. Len(t) + 1
        BY <1>2, <1>5, AfterNumberWithin
      <3> QED  BY <3>1, <1>p
    <2> QED  BY <2>1, <2>3, <2>4, ScalarLeads
  <1>6. CASE At(t, i) = "["
    <2>1. ParseValue(t, s) = Open(s, first, At(t, first), "]", "array", "value")
      BY <1>3, <1>6, ValueIs
    <2>2. "]" \in Closing /\ At(t, i) # NUL  BY <1>6, Symbols, Zenon DEF Closing
    <2>3. Leads(t, s, Open(s, first, At(t, first), "]", "array", "value"))
      BY <1>2, <2>2, OpenLeads, Zenon
    <2> HIDE DEF first
    <2> QED  BY <2>1, <2>3, Zenon
  <1>7. CASE At(t, i) = "{"
    <2>1. ParseValue(t, s) = Open(s, first, At(t, first), "}", "object", "name")
      BY <1>3, <1>7, ValueIs
    <2>2. "}" \in Closing /\ At(t, i) # NUL  BY <1>7, Symbols, Zenon DEF Closing
    <2>3. Leads(t, s, Open(s, first, At(t, first), "}", "object", "name"))
      BY <1>2, <2>2, OpenLeads, Zenon
    <2> HIDE DEF first
    <2> QED  BY <2>1, <2>3, Zenon
  <1>8. CASE At(t, i) \notin {Quote, "-", "1", "[", "{"}
    <2>1. ParseValue(t, s) = Failed(s, i)  BY <1>3, <1>8, ValueIs
    <2> QED  BY <1>2, <2>1, FailedLeads
  <1> QED  BY <1>4, <1>5, <1>6, <1>7, <1>8

LEMMA NameLeads ==
  ASSUME NEW S, NEW t \in Seq(S), NEW s, Parsing(t, s)
  PROVE  Leads(t, s, ParseName(t, s))
  <1> DEFINE e == AfterString(t, s.at)
             colon == Skip(t, e)
             value == Skip(t, colon + 1)
             r == [s EXCEPT !.rule = "value", !.at = value,
                            !.name = IF Outermost(s) THEN Characters(t, s.at + 1) ELSE @]
             W == Traced(t, s) /\ Whole(t)
  <1>p. Len(t) \in Nat /\ LastPlace(t) = Len(t) + 5 /\ Positions(t) = 1 .. Len(t) + 5
    BY Places
  <1>a. s.at \in Positions(t) /\ s.at \in Nat  BY <1>p DEF Parsing
  <1>b. W => s.at \in 1 .. Len(t) + 1 /\ s.at <= Len(t) + 1 /\ Whole(t)
    BY <1>a, <1>p DEF Traced
  <1>1. CASE At(t, s.at) # Quote
    <2>1. ParseName(t, s) = Failed(s, s.at)  BY <1>1 DEF ParseName
    <2>2. s.at <= s.at  BY <1>a
    <2> QED  BY <1>b, <2>1, <2>2, FailedLeads
  <1> SUFFICES ASSUME At(t, s.at) = Quote  PROVE Leads(t, s, ParseName(t, s))
    BY <1>1
  <1>2. e \in Positions(t) /\ s.at <= e
    <2>1. e \in s.at + 1 .. LastPlace(t)  BY <1>a, AfterStringType
    <2> HIDE DEF e
    <2> QED  BY <2>1, <1>a, <1>p
  <1>3. W => e \in 1 .. Len(t) + 1  BY <1>b, AfterStringWithin
  <1> HIDE DEF e
  <1>4. colon \in Positions(t) /\ s.at <= colon
    <2>1. colon \in e .. LastPlace(t)  BY <1>2, SkipType
    <2> HIDE DEF colon
    <2> QED  BY <2>1, <1>2, <1>a, <1>p
  <1>5. W => colon <= Len(t) + 1
    <2>1. W => colon \in e .. Len(t) + 1  BY <1>3, SkipWithin
    <2> HIDE DEF colon, W
    <2> QED  BY <2>1, <1>2, <1>p
  <1>6. CASE At(t, colon) # ":"
    <2>1. ParseName(t, s) = Failed(s, colon)  BY <1>6 DEF ParseName, e
    <2> HIDE DEF colon
    <2> QED  BY <1>4, <1>5, <2>1, FailedLeads
  <1>7. CASE At(t, colon) = ":"
    <2>1. ParseName(t, s) = r  BY <1>7 DEF ParseName, e
    <2>2. At(t, colon) # NUL  BY <1>7, Symbols, Zenon
    <2> HIDE DEF colon
    <2>3. colon \in 1 .. Len(t) /\ colon + 1 \in Positions(t)
      BY <1>4, <2>2, NextPlace
    <2>4. colon + 1 \in 1 .. Len(t) + 1  BY <2>3, <1>p
    <2>5. value \in colon + 1 .. Len(t) + 1  BY <2>4, SkipWithin
    <2>6. r.rule = "value" /\ r.at = value  BY DEF Parsing
    <2> HIDE DEF value, r
    <2>7. s.at <= value /\ value <= Len(t) + 1  BY <1>4, <1>a, <1>p, <2>4, <2>5
    <2>8. Leads(t, s, r)  BY <2>6, <2>7 DEF Leads, Traced
    <2> QED  BY <2>1, <2>8
  <1> QED  BY <1>6, <1>7

LEMMA AfterValueLeads ==
  ASSUME NEW S, NEW t \in Seq(S), NEW s, Parsing(t, s), s.rule = "after"
  PROVE  Leads(t, s, AfterValue(t, s))
  <1> DEFINE sep == ","
             comma == Skip(t, s.at)
             more == Skip(t, comma + 1)
             W == Traced(t, s) /\ Whole(t)
  <1>r. Follows(s) \in {"value", "name", "close"}  BY DEF Follows
  <1>s. sep = ","  OBVIOUS
  <1>t. sep # NUL  BY Symbols, Zenon
  <1> HIDE DEF sep
  <1>p. Len(t) \in Nat /\ LastPlace(t) = Len(t) + 5 /\ Positions(t) = 1 .. Len(t) + 5
    BY Places
  <1>a. /\ s.at \in Positions(t) /\ s.at \in Nat
        /\ s.stack # << >> => s.stack[1] \in Closing
    BY <1>p DEF Parsing
  <1>b. W => s.at \in 1 .. Len(t) + 1
    BY <1>a, <1>p DEF Traced
  <1>1. CASE s.stack = << >>
    <2> DEFINE r == [s EXCEPT !.rule = "done"]
    <2>1. AfterValue(t, s) = r  BY <1>1 DEF AfterValue
    <2>2. r.at = s.at /\ (Bracketed(r) <=> Bracketed(s))  BY DEF Bracketed, Parsing
    <2> HIDE DEF r
    <2>3. Leads(t, s, r)  BY <1>a, <2>2 DEF Leads, Traced
    <2> QED  BY <2>1, <2>3
  <1> SUFFICES ASSUME s.stack # << >>  PROVE Leads(t, s, AfterValue(t, s))
    BY <1>1
  <1>2. ASSUME NEW rule \in {"value", "name", "close"}, NEW i, s.at <= i,
               W => i <= Len(t) + 1
        PROVE  Leads(t, s, Led(s, rule, i))
    <2>1. Led(s, rule, i).rule = rule /\ Led(s, rule, i).at = i  BY LedPlace
    <2> QED  BY <1>2, <2>1 DEF Leads, Traced
  <1>3. comma \in Positions(t) /\ s.at <= comma
    <2>1. comma \in s.at .. LastPlace(t)  BY <1>a, SkipType
    <2> HIDE DEF comma
    <2> QED  BY <1>a, <2>1, <1>p
  <1>4. W => comma <= Len(t) + 1
    <2>1. W => comma \in s.at .. Len(t) + 1  BY <1>b, SkipWithin
    <2> HIDE DEF comma, W
    <2> QED  BY <2>1, <1>a, <1>p
  <1>m. more = Skip(t, comma + 1) /\ comma = Skip(t, s.at)  OBVIOUS
  <1> HIDE DEF comma
  <1>5. CASE At(t, comma) # sep
    <2>1. AfterValue(t, s) = Led(s, "close", comma)
      BY <1>5, <1>m, <1>s, NoComma
    <2> QED  BY <1>2, <1>3, <1>4, <2>1
  <1> SUFFICES ASSUME At(t, comma) = sep  PROVE Leads(t, s, AfterValue(t, s))
    BY <1>5
  <1>6. comma \in 1 .. Len(t) /\ comma + 1 \in Positions(t)
    BY <1>3, <1>t, NextPlace
  <1>7. more \in comma + 1 .. Len(t) + 1
    <2>1. comma + 1 \in 1 .. Len(t) + 1  BY <1>6, <1>p
    <2> QED  BY <2>1, SkipWithin
  <1> HIDE DEF more
  <1>8. more \in 1 .. Len(t) + 1 /\ s.at <= more /\ more <= Len(t) + 1
    BY <1>3, <1>6, <1>7, <1>a, <1>p
  <1>9. CASE At(t, more) = s.stack[1]
    <2>1. AfterValue(t, s) = Led(s, "close", more + 1)
      BY <1>s, <1>9, <1>m, CommaCloses, Zenon
    <2>2. At(t, more) # NUL  BY <1>9, <1>a, Symbols
    <2>3. more + 1 \in 1 .. Len(t) + 1  BY <1>8, <2>2, WithinNext
    <2>4. s.at <= more + 1 /\ more + 1 <= Len(t) + 1  BY <1>8, <1>a, <1>p, <2>3
    <2> QED  BY <1>2, <2>1, <2>4
  <1>10. CASE At(t, more) # s.stack[1]
    <2>1. AfterValue(t, s) = Led(s, Follows(s), more)
      BY <1>s, <1>10, <1>m, CommaGoesOn, Zenon
    <2> QED  BY <1>2, <1>8, <1>r, <2>1
  <1> QED  BY <1>9, <1>10

\* What a closing bracket makes of a state.
ClosedState(s) ==
  [Returned(s, s.at + 1, Value(IF s.stack[1] = "]" THEN "array" ELSE "object", << >>))
     EXCEPT !.stack = Tail(@)]

LEMMA ClosedStateIs ==
  ASSUME NEW t, NEW s, Parsing(t, s)
  PROVE  /\ ClosedState(s).rule = "after" /\ ClosedState(s).at = s.at + 1
         /\ Bracketed(ClosedState(s))
  <1> DEFINE v == Value(IF s.stack[1] = "]" THEN "array" ELSE "object", << >>)
             r == Returned(s, s.at + 1, v)
             q == [r EXCEPT !.stack = Tail(@)]
  <1>1. v.type \in {"array", "object"}  BY DEF Value
  <1> HIDE DEF v
  <1>2. /\ r.rule = "after" /\ r.at = s.at + 1 /\ r.value = v
        /\ DOMAIN r = {"rule", "at", "stack", "name", "value", "members"}
    BY DEF Returned, Parsing
  <1> HIDE DEF r
  <1>3. q.rule = "after" /\ q.at = s.at + 1 /\ q.value = v  BY <1>2
  <1>4. ClosedState(s) = q  BY DEF ClosedState, r, v
  <1> HIDE DEF q
  <1> QED  BY <1>1, <1>3, <1>4 DEF Bracketed

LEMMA CloseLeads ==
  ASSUME NEW S, NEW t \in Seq(S), NEW s, Parsing(t, s), s.rule = "close"
  PROVE  Leads(t, s, Close(t, s))
  <1>p. Len(t) \in Nat /\ LastPlace(t) = Len(t) + 5 /\ Positions(t) = 1 .. Len(t) + 5
    BY Places
  <1>a. /\ s.at \in Positions(t) /\ s.at \in Nat /\ s.stack[1] \in Closing
    BY <1>p DEF Parsing
  <1>1. CASE At(t, s.at) # s.stack[1]
    <2>1. Close(t, s) = Failed(s, s.at)  BY <1>1 DEF Close
    <2>2. s.at <= s.at /\ (Traced(t, s) /\ Whole(t) => s.at <= Len(t) + 1)
      BY <1>a DEF Traced
    <2> QED  BY <2>1, <2>2, FailedLeads
  <1>2. CASE At(t, s.at) = s.stack[1]
    <2>1. Close(t, s) = ClosedState(s)  BY <1>2 DEF Close, ClosedState
    <2>2. ClosedState(s).rule = "after" /\ ClosedState(s).at = s.at + 1
      BY ClosedStateIs
    <2>3. s.at \in 1 .. Len(t)
      <3>1. At(t, s.at) # NUL  BY <1>a, <1>2, Symbols
      <3> QED  BY <1>a, <3>1, NextPlace
    <2>4. s.at + 1 - 1 = s.at /\ s.at <= s.at + 1 /\ s.at + 1 <= Len(t) + 1
      BY <2>3, <1>a, <1>p
    <2> DEFINE r == ClosedState(s)
    <2> HIDE DEF r
    <2>5. r.at = s.at + 1  BY <2>2 DEF r
    <2>6. At(t, r.at - 1) \in Closing /\ s.at <= r.at /\ r.at <= Len(t) + 1
      BY <1>a, <1>2, <2>4, <2>5
    <2>7. Leads(t, s, r)  BY <2>6 DEF Leads, Traced
    <2> QED  BY <2>1, <2>7 DEF r
  <1> QED  BY <1>1, <1>2

\* The pointer never goes back; in a text that is not cut off it stays where its NUL
\* is or before; and an array or object has its bracket right before the pointer.
LEMMA StepLeads ==
  ASSUME NEW S, NEW t \in Seq(S), NEW s, Parsing(t, s)
  PROVE  Leads(t, s, Step(t, s))
  <1>1. CASE s.rule = "value"  BY <1>1, ValueLeads DEF Step
  <1>2. CASE s.rule = "name"  BY <1>2, NameLeads DEF Step
  <1>3. CASE s.rule = "after"  BY <1>3, AfterValueLeads DEF Step
  <1>4. CASE s.rule = "close"  BY <1>4, CloseLeads DEF Step
  <1>5. CASE s.rule \in Ended
    <2>1. Step(t, s) = s  BY <1>5, StepGoesOn
    <2>2. s.at <= s.at  BY Places DEF Parsing
    <2> QED  BY <2>1, <2>2 DEF Leads
  <1> QED  BY <1>1, <1>2, <1>3, <1>4, <1>5 DEF Parsing

-----------------------------------------------------------------------------
(* A text that is no more than a literal, a string or a number              *)

\* Such a value begins at i.
Simple(t, i) == IsLiteral(t, i) \/ At(t, AfterCompare(t, i)) \in {Quote, "-", "1"}

\* In an array or object, or behind one.
Inner(s) ==
  \/ s.rule = "failed"
  \/ s.rule # "done" /\ s.stack # << >>
  \/ s.rule \in {"after", "done"} /\ Bracketed(s)

\* A value is of the one kind or of the other, and so is the one that is found.
LEMMA SimpleValue ==
  ASSUME NEW t, NEW s, Parsing(t, s), Simple(t, s.at)
  PROVE  /\ ParseValue(t, s).rule = "after" /\ ParseValue(t, s).stack = s.stack
         /\ ~Bracketed(ParseValue(t, s))
  <1> DEFINE i == AfterCompare(t, s.at)
  <1>1. ASSUME NEW type \in {"literal", "string", "number"}, NEW content, NEW at,
               ParseValue(t, s) = Returned(s, at, Value(type, content))
        PROVE  /\ ParseValue(t, s).rule = "after" /\ ParseValue(t, s).stack = s.stack
               /\ ~Bracketed(ParseValue(t, s))
    <2> DEFINE r == ParseValue(t, s)
    <2>1. r.rule = "after" /\ r.stack = s.stack /\ r.value = Value(type, content)
      BY <1>1, ReturnedIs
    <2> HIDE DEF r
    <2>2. ~Bracketed(r)  BY <2>1 DEF Bracketed, Value
    <2> QED  BY <2>1, <2>2 DEF r
  <1>2. CASE IsLiteral(t, s.at)
    <2>1. ParseValue(t, s) = Returned(s, s.at + 2, Value("literal", << >>))
      BY <1>2 DEF ParseValue
    <2> QED  BY <1>1, <2>1
  <1>3. CASE ~IsLiteral(t, s.at)
    <2>1. i = AfterCompare(t, s.at) /\ At(t, i) \in {Quote, "-", "1"}  BY <1>3 DEF Simple
    <2> HIDE DEF i
    <2>2. CASE At(t, i) = Quote
      <3> DEFINE content == Characters(t, i + 1)
      <3>1. ParseValue(t, s) = Returned(s, AfterString(t, i), Value("string", content))
        BY <1>3, <2>1, <2>2, ValueIs
      <3> HIDE DEF content
      <3> QED  BY <1>1, <3>1
    <2>3. CASE At(t, i) \in {"-", "1"}
      <3>1. ParseValue(t, s) = Returned(s, AfterNumber(t, i), Value("number", Numeral(t, i)))
        BY <1>3, <2>1, <2>3, ValueIs
      <3> QED  BY <1>1, <3>1
    <2> QED  BY <2>1, <2>2, <2>3
  <1> QED  BY <1>2, <1>3

LEMMA OpenInner ==
  ASSUME NEW t, NEW s, Parsing(t, s), NEW first, NEW symbol, NEW closing,
         NEW type \in {"array", "object"}, NEW rule \in {"value", "name"}
  PROVE  Inner(Open(s, first, symbol, closing, type, rule))
  <1> DEFINE r == Open(s, first, symbol, closing, type, rule)
  <1>1. CASE symbol = closing
    <2>1. r = Returned(s, first + 1, Value(type, << >>))  BY <1>1 DEF Open
    <2>2. r.rule = "after" /\ r.value = Value(type, << >>)  BY <2>1, ReturnedIs
    <2> HIDE DEF r
    <2>3. Inner(r)  BY <2>2 DEF Inner, Bracketed, Value
    <2> QED  BY <2>3 DEF r
  <1>2. CASE symbol # closing
    <2>1. r = [s EXCEPT !.rule = rule, !.at = first, !.stack = <<closing>> \o @]
      BY <1>2 DEF Open
    <2>2. r.rule = rule /\ r.stack = <<closing>> \o s.stack /\ s.stack \in Seq(Closing)
      BY <2>1 DEF Parsing
    <2> HIDE DEF r
    <2>3. r.stack # << >>  BY <2>2
    <2>4. Inner(r)  BY <2>2, <2>3 DEF Inner
    <2> QED  BY <2>4 DEF r
  <1> QED  BY <1>1, <1>2

LEMMA OtherValue ==
  ASSUME NEW t, NEW s, Parsing(t, s), ~Simple(t, s.at)
  PROVE  Inner(ParseValue(t, s))
  <1> DEFINE i == AfterCompare(t, s.at)
             first == Skip(t, i + 1)
  <1>1. /\ i = AfterCompare(t, s.at) /\ ~IsLiteral(t, s.at)
        /\ At(t, i) \notin {Quote, "-", "1"}
    BY DEF Simple
  <1> HIDE DEF i
  <1>2. CASE At(t, i) = "["
    <2>1. ParseValue(t, s) = Open(s, first, At(t, first), "]", "array", "value")
      BY <1>1, <1>2, ValueIs
    <2>2. Inner(Open(s, first, At(t, first), "]", "array", "value"))
      BY OpenInner, Zenon
    <2> HIDE DEF first
    <2> QED  BY <2>1, <2>2, Zenon
  <1>3. CASE At(t, i) = "{"
    <2>1. ParseValue(t, s) = Open(s, first, At(t, first), "}", "object", "name")
      BY <1>1, <1>3, ValueIs
    <2>2. Inner(Open(s, first, At(t, first), "}", "object", "name"))
      BY OpenInner, Zenon
    <2> HIDE DEF first
    <2> QED  BY <2>1, <2>2, Zenon
  <1>4. CASE At(t, i) \notin {Quote, "-", "1", "[", "{"}
    <2>1. ParseValue(t, s) = Failed(s, i)  BY <1>1, <1>4, ValueIs
    <2> QED  BY <2>1, FailedIs DEF Inner
  <1> QED  BY <1>1, <1>2, <1>3, <1>4

LEMMA SomeLed ==
  ASSUME NEW t, NEW s, s.stack # << >>
  PROVE  \E rule \in {"close", "value", "name"} : \E i : AfterValue(t, s) = Led(s, rule, i)
  <1> DEFINE sep == ","
             comma == Skip(t, s.at)
             more == Skip(t, comma + 1)
  <1>1. Follows(s) \in {"value", "name"}  BY DEF Follows
  <1>2. sep = "," /\ comma = Skip(t, s.at) /\ more = Skip(t, comma + 1)  OBVIOUS
  <1> HIDE DEF sep, comma, more
  <1>3. CASE At(t, comma) # sep
    <2>1. AfterValue(t, s) = Led(s, "close", comma)  BY <1>2, <1>3, NoComma, Zenon
    <2> QED  BY <2>1
  <1>4. CASE At(t, comma) = sep /\ At(t, more) = s.stack[1]
    <2>1. AfterValue(t, s) = Led(s, "close", more + 1)  BY <1>2, <1>4, CommaCloses, Zenon
    <2> QED  BY <2>1
  <1>5. CASE At(t, comma) = sep /\ At(t, more) # s.stack[1]
    <2>1. AfterValue(t, s) = Led(s, Follows(s), more)  BY <1>2, <1>5, CommaGoesOn, Zenon
    <2> QED  BY <1>1, <2>1
  <1> QED  BY <1>3, <1>4, <1>5

LEMMA StepInner ==
  ASSUME NEW S, NEW t \in Seq(S), NEW s, Parsing(t, s), Inner(s)
  PROVE  Inner(Step(t, s))
  <1>1. CASE s.rule = "value"
    <2>1. Step(t, s) = ParseValue(t, s) /\ s.stack # << >>  BY <1>1 DEF Step, Inner
    <2>2. CASE Simple(t, s.at)
      <3>1. ParseValue(t, s).rule = "after" /\ ParseValue(t, s).stack # << >>
        BY <2>1, <2>2, SimpleValue
      <3> QED  BY <2>1, <3>1 DEF Inner
    <2>3. CASE ~Simple(t, s.at)  BY <2>1, <2>3, OtherValue
    <2> QED  BY <2>2, <2>3
  <1>2. CASE s.rule = "name"
    <2> DEFINE r == ParseName(t, s)
    <2>1. Step(t, s) = r /\ s.stack # << >>  BY <1>2 DEF Step, Inner
    <2>2. r.rule = "failed" \/ (r.rule = "value" /\ r.stack = s.stack)
      BY DEF ParseName, Failed, Parsing
    <2> HIDE DEF r
    <2> QED  BY <2>1, <2>2 DEF Inner
  <1>3. CASE s.rule = "after"
    <2>0. Step(t, s) = AfterValue(t, s)  BY <1>3 DEF Step
    <2>1. CASE s.stack = << >>
      <3> DEFINE r == [s EXCEPT !.rule = "done"]
      <3>1. Step(t, s) = r  BY <2>0, <2>1 DEF AfterValue
      <3>2. r.rule = "done" /\ r.value = s.value /\ Bracketed(s)
        BY <1>3, <2>1 DEF Inner, Parsing
      <3> HIDE DEF r
      <3> QED  BY <3>1, <3>2 DEF Inner, Bracketed
    <2>2. CASE s.stack # << >>
      <3>1. PICK rule \in {"close", "value", "name"} : \E i : AfterValue(t, s) = Led(s, rule, i)
        BY <2>2, SomeLed
      <3>2. PICK i : AfterValue(t, s) = Led(s, rule, i)  BY <3>1
      <3>3. Led(s, rule, i).rule = rule  BY LedPlace
      <3>4. Led(s, rule, i).stack = s.stack  BY DEF Led, Kept, Parsing
      <3> QED  BY <2>0, <2>2, <3>2, <3>3, <3>4 DEF Inner
    <2> QED  BY <2>1, <2>2
  <1>4. CASE s.rule = "close"
    <2>1. Step(t, s) = Close(t, s)  BY <1>4 DEF Step
    <2>2. CASE At(t, s.at) # s.stack[1]
      BY <2>1, <2>2, FailedIs DEF Close, Inner
    <2>3. CASE At(t, s.at) = s.stack[1]
      <3>1. Close(t, s) = ClosedState(s)  BY <2>3 DEF Close, ClosedState
      <3> QED  BY <2>1, <3>1, ClosedStateIs DEF Inner
    <2> QED  BY <2>2, <2>3
  <1>5. CASE s.rule \in Ended
    BY <1>5, StepGoesOn
  <1> QED  BY <1>1, <1>2, <1>3, <1>4, <1>5 DEF Parsing

\* And it is of this kind in any text that holds its beginning.
LEMMA SimpleHeld ==
  ASSUME NEW S, NEW t \in Seq(S), NEW u \in Seq(S), NEW d, Holds(u, t, d),
         NEW i \in Positions(t), Simple(t, i)
  PROVE  Simple(u, i + d) /\ i <= Len(t)
  <1>p. /\ Len(t) \in Nat /\ d \in Nat /\ i \in Nat /\ i >= 1
        /\ \A k \in 1 .. Len(t) : At(u, k + d) = At(t, k)
        /\ \A j \in Int : At(t, j) # NUL => j \in 1 .. Len(t)
    BY HeldPlaces, Places
  <1>1. CASE IsLiteral(t, i)
    <2>1. At(t, i + 2) # NUL /\ i + 2 \in Int  BY <1>1, <1>p DEF IsLiteral
    <2>2. i + 2 \in 1 .. Len(t)  BY <2>1, <1>p
    <2>3. i + 2 <= Len(t) /\ i <= Len(t)  BY <2>2, <1>p
    <2>4. IsLiteral(u, i + d)  BY <1>1, <2>3, LiteralHeld
    <2> QED  BY <2>3, <2>4 DEF Simple
  <1>2. CASE ~IsLiteral(t, i)
    <2> DEFINE j == AfterCompare(t, i)
    <2>1. At(t, j) \in {Quote, "-", "1"}  BY <1>2 DEF Simple
    <2>2. j \in i .. LastPlace(t) /\ j \in Positions(t)  BY AfterComparePlace
    <2>3. j = AfterCompare(t, i)  OBVIOUS
    <2> HIDE DEF j
    <2>4. At(t, j) # NUL  BY <2>1, Symbols
    <2>5. j \in 1 .. Len(t)  BY <2>2, <2>4, NextPlace
    <2>6. j <= Len(t) /\ i <= Len(t)  BY <2>2, <2>5, <1>p
    <2>7. AfterCompare(u, i + d) = j + d  BY <1>2, <2>3, <2>6, LiteralHeld
    <2>8. At(u, j + d) = At(t, j)  BY <2>5, <1>p
    <2> QED  BY <2>1, <2>6, <2>7, <2>8 DEF Simple
  <1> QED  BY <1>1, <1>2

-----------------------------------------------------------------------------
(* What a run of the parser comes to                                        *)

\* Where a run begins, and that behind its end nothing changes.
LEMMA StartIs ==
  ASSUME NEW S, NEW t \in Seq(S)
  PROVE  /\ Start(t).rule = "value" /\ Start(t).at = Skip(t, 1) /\ Start(t).stack = << >>
         /\ Skip(t, 1) \in 1 .. Len(t) + 1 /\ Len(t) \in Nat
  <1>1. Len(t) \in Nat  BY Places
  <1>2. 1 \in 1 .. Len(t) + 1  BY <1>1
  <1>3. Skip(t, 1) \in 1 .. Len(t) + 1  BY <1>2, SkipWithin
  <1> QED  BY <1>1, <1>3 DEF Start

LEMMA EndStays ==
  ASSUME NEW S, NEW t \in Seq(S), NEW run, Runs(t, run), NEW n \in Nat, run[n].rule \in Ended
  PROVE  run[n] = ParseStream(t)
  <1> DEFINE K == {k \in Nat : run[n + k] = run[n]}
  <1>1. MostSteps(t) \in Nat  BY Places DEF MostSteps
  <1>2. 0 \in K  OBVIOUS
  <1>3. ASSUME NEW k \in K  PROVE k + 1 \in K
    <2>1. n + k \in Nat /\ n + (k + 1) = (n + k) + 1  OBVIOUS
    <2>2. Parsing(t, run[n + k]) /\ run[(n + k) + 1] = Step(t, run[n + k])
      BY <2>1 DEF Runs
    <2>3. run[n + k] = run[n]  OBVIOUS
    <2>4. Step(t, run[n + k]) = run[n + k]  BY <2>2, <2>3, StepGoesOn
    <2> QED  BY <2>1, <2>2, <2>3, <2>4
  <1>4. MostSteps(t) \in K
    <2>1. K \in SUBSET Nat  OBVIOUS
    <2> HIDE DEF K
    <2> QED  BY <1>1, <1>2, <1>3, <2>1, Induction
  <1>5. run[n + MostSteps(t)] = run[n]  BY <1>4
  <1>6. n + MostSteps(t) \in Nat /\ n + MostSteps(t) >= MostSteps(t)  BY <1>1
  <1> QED  BY <1>5, <1>6 DEF Runs

\* What every step keeps, a run keeps.
LEMMA RunTraced ==
  ASSUME NEW S, NEW t \in Seq(S), NEW run, Runs(t, run)
  PROVE  \A n \in Nat : Traced(t, run[n])
  <1> DEFINE K == {k \in Nat : Traced(t, run[k])}
  <1>1. 0 \in K
    <2>1. run[0].rule = "value" /\ run[0].at \in 1 .. Len(t) + 1 /\ Len(t) \in Nat
      BY StartIs DEF Runs
    <2> QED  BY <2>1 DEF Traced
  <1>2. ASSUME NEW k \in K  PROVE k + 1 \in K
    <2>1. Parsing(t, run[k]) /\ run[k + 1] = Step(t, run[k])  BY DEF Runs
    <2>2. Traced(t, run[k])  OBVIOUS
    <2> QED  BY <2>1, <2>2, StepLeads DEF Leads
  <1>3. K \in SUBSET Nat  OBVIOUS
  <1>4. K = Nat
    <2> HIDE DEF K
    <2> QED  BY <1>1, <1>2, <1>3, Induction
  <1> QED  BY <1>4

\* Up to the end of a run its pointer only moves on.
LEMMA RunForward ==
  ASSUME NEW S, NEW t \in Seq(S), NEW run, Runs(t, run), NEW n \in Nat
  PROVE  run[n].at <= ParseStream(t).at
  <1> DEFINE K == {k \in Nat : run[n].at <= run[n + k].at}
  <1>p. \A k \in Nat : run[k].at \in Nat
    <2>1. Positions(t) \subseteq Nat  BY Places
    <2> QED  BY <2>1 DEF Runs, Parsing
  <1>1. 0 \in K  BY <1>p
  <1>2. ASSUME NEW k \in K  PROVE k + 1 \in K
    <2>1. n + k \in Nat /\ n + (k + 1) = (n + k) + 1  OBVIOUS
    <2>2. Parsing(t, run[n + k]) /\ run[(n + k) + 1] = Step(t, run[n + k])
      BY <2>1 DEF Runs
    <2>3. run[n + k].at <= run[(n + k) + 1].at  BY <2>2, StepLeads DEF Leads
    <2>4. run[n].at <= run[n + k].at  OBVIOUS
    <2>5. /\ run[n].at \in Nat /\ run[n + k].at \in Nat /\ run[(n + k) + 1].at \in Nat
      BY <1>p, <2>1
    <2>6. run[n].at <= run[(n + k) + 1].at  BY <2>3, <2>4, <2>5
    <2> QED  BY <2>1, <2>6
  <1>3. K \in SUBSET Nat  OBVIOUS
  <1>4. MostSteps(t) \in Nat  BY Places DEF MostSteps
  <1>5. MostSteps(t) \in K
    <2> HIDE DEF K
    <2> QED  BY <1>1, <1>2, <1>3, <1>4, Induction
  <1>6. n + MostSteps(t) \in Nat /\ n + MostSteps(t) >= MostSteps(t)  BY <1>4
  <1>7. run[n + MostSteps(t)] = ParseStream(t)  BY <1>6 DEF Runs
  <1> QED  BY <1>5, <1>7

\* What is found is an array or object unless the text begins with something simpler.
LEMMA RunInner ==
  ASSUME NEW S, NEW t \in Seq(S), NEW run, Runs(t, run), ~Simple(t, Skip(t, 1))
  PROVE  Inner(ParseStream(t))
  <1> DEFINE K == {k \in Nat : Inner(run[k + 1])}
  <1>1. 0 \in K
    <2>1. Parsing(t, run[0]) /\ run[0 + 1] = Step(t, run[0]) /\ run[0] = Start(t)
      BY DEF Runs
    <2>2. run[0].rule = "value" /\ run[0].at = Skip(t, 1)  BY <2>1, StartIs
    <2>3. run[0 + 1] = ParseValue(t, run[0])  BY <2>1, <2>2 DEF Step
    <2>4. Inner(run[0 + 1])  BY <2>1, <2>2, <2>3, OtherValue
    <2> QED  BY <2>4
  <1>2. ASSUME NEW k \in K  PROVE k + 1 \in K
    <2>1. k + 1 \in Nat  OBVIOUS
    <2>2. Parsing(t, run[k + 1]) /\ run[(k + 1) + 1] = Step(t, run[k + 1])
      BY <2>1 DEF Runs
    <2>3. Inner(run[k + 1])  OBVIOUS
    <2>4. Inner(run[(k + 1) + 1])  BY <2>2, <2>3, StepInner
    <2> QED  BY <2>1, <2>4
  <1>3. K \in SUBSET Nat  OBVIOUS
  <1>4. MostSteps(t) \in Nat  BY Places DEF MostSteps
  <1>5. MostSteps(t) \in K
    <2> HIDE DEF K
    <2> QED  BY <1>1, <1>2, <1>3, <1>4, Induction
  <1>6. MostSteps(t) + 1 \in Nat /\ MostSteps(t) + 1 >= MostSteps(t)  BY <1>4
  <1>7. run[MostSteps(t) + 1] = ParseStream(t)  BY <1>6 DEF Runs
  <1> QED  BY <1>5, <1>7

LEMMA RunSimple ==
  ASSUME NEW S, NEW t \in Seq(S), NEW run, Runs(t, run), Simple(t, Skip(t, 1))
  PROVE  ParseStream(t).rule = "done" /\ ~Bracketed(ParseStream(t))
  <1>1. Parsing(t, run[0]) /\ run[0 + 1] = Step(t, run[0]) /\ run[0] = Start(t)
    BY DEF Runs
  <1>2. run[0].rule = "value" /\ run[0].at = Skip(t, 1) /\ run[0].stack = << >>
    BY <1>1, StartIs
  <1>3. run[0 + 1] = ParseValue(t, run[0])  BY <1>1, <1>2 DEF Step
  <1>4. run[1].rule = "after" /\ run[1].stack = << >> /\ ~Bracketed(run[1])
    BY <1>1, <1>2, <1>3, SimpleValue
  <1>5. Parsing(t, run[1]) /\ run[1 + 1] = Step(t, run[1])  BY DEF Runs
  <1>6. Step(t, run[1]) = [run[1] EXCEPT !.rule = "done"]
    BY <1>4 DEF Step, AfterValue
  <1>7. run[2].rule = "done" /\ ~Bracketed(run[2])
    <2> DEFINE r == [run[1] EXCEPT !.rule = "done"]
    <2>1. r.rule = "done" /\ r.value = run[1].value  BY <1>5 DEF Parsing
    <2>2. run[2] = r  BY <1>5, <1>6
    <2> HIDE DEF r
    <2> QED  BY <1>4, <2>1, <2>2 DEF Bracketed
  <1>8. run[2] = ParseStream(t)  BY <1>7, EndStays DEF Ended
  <1> QED  BY <1>7, <1>8

\* Nothing begins or ends with these.
Dead == {NUL, "."}

LEMMA DeadSymbols ==
  \A c \in Dead : /\ c \notin {Quote, "-", "1", "[", "{", ",", " ", "nu"}
                  /\ c \notin Closing
  BY Zenon DEF Dead, NUL, Quote, Closing

LEMMA DeadValue ==
  ASSUME NEW t, NEW s, At(t, s.at) \in Dead
  PROVE  ParseValue(t, s) = Failed(s, s.at)
  <1>1. At(t, s.at) \notin {Quote, "-", "1", "[", "{"} /\ At(t, s.at) # "nu"
    BY DeadSymbols, Zenon
  <1>2. ~IsLiteral(t, s.at) /\ s.at = AfterCompare(t, s.at)
    BY <1>1, Zenon DEF IsLiteral, AfterCompare
  <1> QED  BY <1>1, <1>2, NoValue, Zenon

\* A state the text behind has a part in comes to nothing in two steps, but for a
\* literal, a string or a number.
LEMMA Lost ==
  ASSUME NEW S, NEW t \in Seq(S), NEW s, Parsing(t, s), ~Firm(t, s),
         NEW r, r = Step(t, Step(t, s))
  PROVE  r.rule = "failed" \/ (r.rule = "done" /\ ~Bracketed(r))
  <1>p. /\ Len(t) \in Nat /\ Positions(t) = 1 .. Len(t) + 5
        /\ \A j \in Int : At(t, j) # NUL => j \in 1 .. Len(t)
    BY Places
  <1>a. s.at \in Positions(t) /\ s.at \in Nat  BY <1>p DEF Parsing
  <1>1. At(t, s.at) \in Dead
    <2>1. ~Inside(t, s.at)  BY DEF Firm
    <2>2. s.at > Len(t) \/ At(t, s.at) = "."  BY <2>1, <1>a, <1>p DEF Inside
    <2>3. s.at > Len(t) => At(t, s.at) = NUL  BY <1>a, <1>p
    <2> QED  BY <2>2, <2>3 DEF Dead
  <1>2. ASSUME Step(t, s).rule = "failed"  PROVE r.rule = "failed"
    <2>1. Parsing(t, Step(t, s))  BY StepGoesOn
    <2>2. Step(t, Step(t, s)) = Step(t, s)  BY <1>2, <2>1, StepGoesOn DEF Ended
    <2> QED  BY <1>2, <2>2
  <1>3. Failed(s, s.at).rule = "failed"  BY FailedIs
  <1>4. CASE s.rule = "value"
    <2>1. Step(t, s) = ParseValue(t, s)  BY <1>4 DEF Step
    <2> QED  BY <1>1, <1>2, <1>3, <2>1, DeadValue
  <1>5. CASE s.rule = "name"
    <2>1. Step(t, s) = ParseName(t, s)  BY <1>5 DEF Step
    <2>2. At(t, s.at) # Quote  BY <1>1, DeadSymbols, Zenon
    <2>3. ParseName(t, s) = Failed(s, s.at)  BY <2>2 DEF ParseName
    <2> QED  BY <1>2, <1>3, <2>1, <2>3
  \* The bracket is not there.
  <1>6. ASSUME NEW q, Parsing(t, q), q.rule = "close", q.at = s.at
        PROVE  Step(t, q).rule = "failed"
    <2>1. Step(t, q) = Close(t, q)  BY <1>6 DEF Step
    <2>2. q.stack[1] \in Closing  BY <1>6 DEF Parsing
    <2>3. At(t, q.at) # q.stack[1]  BY <1>1, <1>6, <2>2, DeadSymbols
    <2>4. Close(t, q) = Failed(q, q.at)  BY <2>3 DEF Close
    <2> QED  BY <1>6, <2>1, <2>4, FailedIs
  <1>7. CASE s.rule = "close"
    <2>1. Step(t, s).rule = "failed"  BY <1>6, <1>7
    <2> QED  BY <1>2, <2>1
  <1>8. CASE s.rule = "after" /\ s.stack # << >>
    <2>1. Step(t, s) = AfterValue(t, s)  BY <1>8 DEF Step
    <2>2. Skip(t, s.at) = s.at
      <3> DEFINE blank == " "
      <3>1. blank # NUL /\ At(t, s.at) # blank  BY <1>1, DeadSymbols, Zenon DEF NUL
      <3>2. Skip(t, s.at) = Past(t, blank, s.at)  BY DEF Skip
      <3> HIDE DEF blank
      <3>3. s.at \in s.at .. LastPlace(t) /\ \A k \in s.at .. s.at - 1 : At(t, k) = blank
        BY <1>a, <1>p DEF LastPlace
      <3>4. Past(t, blank, s.at) = s.at  BY <1>a, <3>1, <3>3, PastUnique
      <3> QED  BY <3>2, <3>4
    <2>3. At(t, s.at) # ","  BY <1>1, DeadSymbols, Zenon
    <2>4. AfterValue(t, s) = Led(s, "close", s.at)  BY <1>8, <2>2, <2>3, NoComma, Zenon
    <2>5. Led(s, "close", s.at).rule = "close" /\ Led(s, "close", s.at).at = s.at
      BY LedPlace
    <2>6. Parsing(t, Step(t, s))  BY StepGoesOn
    <2>7. Step(t, Step(t, s)).rule = "failed"  BY <1>6, <2>1, <2>4, <2>5, <2>6
    <2> QED  BY <2>7
  <1>9. CASE s.rule = "after" /\ s.stack = << >>
    <2> DEFINE q == [s EXCEPT !.rule = "done"]
    <2>1. Step(t, s) = q  BY <1>9 DEF Step, AfterValue
    <2>2. q.rule = "done" /\ q.value = s.value  BY DEF Parsing
    <2>3. ~Bracketed(s)  BY <1>9 DEF Firm
    <2>4. Parsing(t, q)  BY <2>1, StepGoesOn
    <2> HIDE DEF q
    <2>5. Step(t, q) = q  BY <2>2, <2>4, StepGoesOn DEF Ended
    <2> QED  BY <2>1, <2>2, <2>3, <2>5 DEF Bracketed
  <1>10. CASE s.rule = "failed"
    <2>1. Step(t, s) = s  BY <1>10, StepGoesOn DEF Ended
    <2> QED  BY <1>2, <1>10, <2>1
  <1>11. s.rule # "done"  BY DEF Firm
  <1> QED  BY <1>4, <1>5, <1>7, <1>8, <1>9, <1>10, <1>11 DEF Parsing, Ended

\* An array or object is found by what is in the text alone.
LEMMA FoundFirm ==
  ASSUME NEW S, NEW t \in Seq(S), NEW run, Runs(t, run),
         ParseStream(t).rule = "done", Bracketed(ParseStream(t)), NEW n \in Nat
  PROVE  Firm(t, run[n])
  <1> SUFFICES ASSUME ~Firm(t, run[n])  PROVE FALSE
    OBVIOUS
  <1>1. n + 1 \in Nat /\ (n + 1) + 1 = n + 2 /\ n + 2 \in Nat  OBVIOUS
  <1>2. Parsing(t, run[n]) /\ run[n + 1] = Step(t, run[n])  BY DEF Runs
  <1>3. run[(n + 1) + 1] = Step(t, run[n + 1])  BY <1>1 DEF Runs
  <1>4. run[n + 2] = Step(t, Step(t, run[n]))  BY <1>1, <1>2, <1>3
  <1>5. run[n + 2].rule = "failed" \/ (run[n + 2].rule = "done" /\ ~Bracketed(run[n + 2]))
    BY <1>2, <1>4, Lost
  <1>6. run[n + 2] = ParseStream(t)  BY <1>1, <1>5, EndStays DEF Ended
  <1> QED  BY <1>5, <1>6

\* So is something wrong before its end.
LEMMA WrongFirm ==
  ASSUME NEW S, NEW t \in Seq(S), NEW run, Runs(t, run),
         Inside(t, ParseStream(t).at), NEW n \in Nat
  PROVE  Firm(t, run[n])
  <1>p. Len(t) \in Nat /\ Positions(t) \subseteq Nat  BY Places
  <1>1. run[n].at <= ParseStream(t).at  BY RunForward
  <1>2. run[n].at \in Nat /\ ParseStream(t).at \in Nat
    BY <1>p, RunEnds DEF Runs, Parsing
  <1>3. Inside(t, run[n].at)  BY <1>1, <1>2, <1>p DEF Inside
  <1> QED  BY <1>3 DEF Firm

\* Nothing but blanks up to d.
Blanks(u, d) == \A k \in 1 .. d : At(u, k) = " "

LEMMA NoBlanks == \A u : Blanks(u, 0)
  <1>1. 1 .. 0 = {}  OBVIOUS
  <1> QED  BY <1>1, Zenon DEF Blanks

\* A text behind blanks, with anything behind it.
LEMMA StartHeld ==
  ASSUME NEW S, NEW t \in Seq(S), NEW u \in Seq(S), NEW d, Holds(u, t, d),
         Blanks(u, d), Skip(t, 1) <= Len(t)
  PROVE  Skip(u, 1) = Skip(t, 1) + d
  <1> DEFINE blank == " "
             j == Skip(t, 1)
             n == Skip(t, 1) + d
  <1>p. /\ Len(t) \in Nat /\ Len(u) \in Nat /\ d \in Nat /\ d + Len(t) <= Len(u)
        /\ Positions(t) = 1 .. Len(t) + 5 /\ Positions(u) = 1 .. Len(u) + 5
        /\ LastPlace(u) = Len(u) + 5
        /\ \A k \in 1 .. Len(t) : At(u, k + d) = At(t, k)
    BY HeldPlaces
  <1>0. blank # NUL  BY DEF NUL
  <1>1. \A r \in {t, u} : \A k : Skip(r, k) = Past(r, blank, k)  BY DEF Skip
  <1>2. \A k \in 1 .. d : At(u, k) = blank  BY DEF Blanks
  <1> HIDE DEF blank
  <1>3. 1 \in Positions(t) /\ 1 \in Positions(u)  BY <1>p
  <1>4. /\ j \in 1 .. LastPlace(t) /\ At(t, j) # blank
        /\ \A k \in 1 .. j - 1 : At(t, k) = blank
    BY <1>0, <1>1, <1>3, PastIs
  <1>5. j <= Len(t) /\ n = j + d  OBVIOUS
  <1> HIDE DEF j, n
  <1>6. j \in 1 .. Len(t) /\ n \in 1 .. LastPlace(u)  BY <1>4, <1>5, <1>p
  <1>7. At(u, n) # blank  BY <1>4, <1>5, <1>6, <1>p
  <1>8. ASSUME NEW k \in 1 .. n - 1  PROVE At(u, k) = blank
    <2>1. CASE k <= d  BY <1>2, <1>p, <2>1
    <2>2. CASE k > d
      <3>1. k - d \in 1 .. j - 1 /\ k - d \in 1 .. Len(t) /\ (k - d) + d = k
        BY <1>5, <1>6, <1>p, <2>2
      <3>2. At(u, (k - d) + d) = At(t, k - d)  BY <3>1, <1>p
      <3> QED  BY <1>4, <3>1, <3>2
    <2> QED  BY <2>1, <2>2, <1>5, <1>6, <1>p
  <1>9. Past(u, blank, 1) = n  BY <1>0, <1>3, <1>6, <1>7, <1>8, PastUnique
  <1> QED  BY <1>1, <1>9 DEF n

\* If the text behind has a part in none of its states, a run of the parser on a text is
\* its run on any text that holds it behind blanks.
LEMMA RunHeld ==
  ASSUME NEW S, NEW t \in Seq(S), NEW u \in Seq(S), NEW d, Holds(u, t, d),
         Blanks(u, d),
         NEW run, NEW other, Runs(t, run), Runs(u, other), \A n \in Nat : Firm(t, run[n])
  PROVE  Alike(ParseStream(u), ParseStream(t), d)
  <1> DEFINE K == {n \in Nat : Alike(other[n], run[n], d)}
  <1>1. 0 \in K
    <2>1. run[0] = Start(t) /\ other[0] = Start(u)  BY DEF Runs
    <2>2. Firm(t, Start(t)) /\ Start(t).rule = "value" /\ Start(t).at = Skip(t, 1)
      BY <2>1, StartIs
    <2>3. Skip(t, 1) <= Len(t)  BY <2>2 DEF Firm, Inside
    <2>4. Skip(u, 1) = Skip(t, 1) + d  BY <2>3, StartHeld
    <2>5. Alike(Start(u), Start(t), d)  BY <2>4 DEF Start, Alike
    <2> QED  BY <2>1, <2>5
  <1>2. ASSUME NEW n \in K  PROVE n + 1 \in K
    <2>1. /\ Parsing(t, run[n]) /\ run[n + 1] = Step(t, run[n])
          /\ Parsing(u, other[n]) /\ other[n + 1] = Step(u, other[n])
      BY DEF Runs
    <2>2. Alike(other[n], run[n], d) /\ Firm(t, run[n + 1])  OBVIOUS
    <2> QED  BY <2>1, <2>2, StepHeld
  <1>3. K \in SUBSET Nat  OBVIOUS
  <1>4. MostSteps(t) \in Nat /\ MostSteps(u) \in Nat  BY Places DEF MostSteps
  <1> DEFINE m == MostSteps(t) + MostSteps(u)
  <1>5. m \in Nat /\ m >= MostSteps(t) /\ m >= MostSteps(u)  BY <1>4
  <1>6. m \in K
    <2> HIDE DEF K, m
    <2> QED  BY <1>1, <1>2, <1>3, <1>5, Induction
  <1> HIDE DEF m
  <1>7. run[m] = ParseStream(t) /\ other[m] = ParseStream(u)  BY <1>5 DEF Runs
  <1> QED  BY <1>6, <1>7

-----------------------------------------------------------------------------
(* What has been read of a text                                             *)

\* Behind an array or object the pointer is in the text, or at its NUL.
LEMMA ClosedInside ==
  ASSUME NEW S, NEW t \in Seq(S), ParseStream(t).rule = "done", Bracketed(ParseStream(t))
  PROVE  ParseStream(t).at - 1 \in 1 .. Len(t) /\ ParseStream(t).at \in 1 .. Len(t) + 1
  <1> DEFINE p == ParseStream(t)
  <1>p. /\ Len(t) \in Nat /\ Positions(t) = 1 .. Len(t) + 5
        /\ \A j \in Int : At(t, j) # NUL => j \in 1 .. Len(t)
    BY Places
  <1>1. PICK run : Runs(t, run)  BY ParserRuns
  <1>2. Parsing(t, p) /\ Traced(t, p)  BY <1>1, RunEnds, RunTraced
  <1>3. At(t, p.at - 1) \in Closing  BY <1>2 DEF Traced
  <1>4. p.at - 1 \in Int /\ p.at \in Int  BY <1>2, <1>p DEF Parsing
  <1>5. At(t, p.at - 1) # NUL  BY <1>3, Symbols
  <1> HIDE DEF p
  <1>6. p.at - 1 \in 1 .. Len(t)  BY <1>4, <1>5, <1>p
  <1>7. p.at \in 1 .. Len(t) + 1  BY <1>4, <1>6, <1>p
  <1> QED  BY <1>6, <1>7 DEF p

\* Where the pointer is neither at a symbol behind which the parser does not look nor at
\* the NUL, the text ends where it should not.
LEMMA CutOff ==
  ASSUME NEW S, NEW t \in Seq(S), ~Inside(t, ParseStream(t).at),
         ParseStream(t).at # Len(t) + 1
  PROVE  FragileEnd(t)
  <1> DEFINE p == ParseStream(t)
  <1>p. /\ Len(t) \in Nat /\ Positions(t) = 1 .. Len(t) + 5
        /\ \A j \in Int : At(t, j) # NUL => j \in 1 .. Len(t)
    BY Places
  <1>1. PICK run : Runs(t, run)  BY ParserRuns
  <1>2. Parsing(t, p) /\ Traced(t, p)  BY <1>1, RunEnds, RunTraced
  <1>3. p.at \in 1 .. Len(t) + 5  BY <1>2, <1>p DEF Parsing
  <1>4. CASE p.at > Len(t)
    <2>1. ~(p.at <= Len(t) + 1)  BY <1>3, <1>4, <1>p
    <2>2. ~Whole(t)  BY <1>2, <2>1 DEF Traced
    <2>3. CASE InEscape(t)  BY <2>3 DEF FragileEnd
    <2>4. CASE At(t, Len(t)) = "ll"
      <3>1. At(t, Len(t)) # NUL  BY <2>4, Zenon DEF NUL
      <3>2. Len(t) \in 1 .. Len(t)  BY <3>1, <1>p
      <3>3. At(t, Len(t)) = t[Len(t)]  BY <3>2 DEF At
      <3> QED  BY <2>4, <3>3, Zenon DEF FragileEnd
    <2> QED  BY <2>2, <2>3, <2>4 DEF Whole
  <1>5. CASE ~(p.at > Len(t))
    <2>1. p.at = Len(t) /\ At(t, p.at) = "."  BY <1>3, <1>5, <1>p DEF Inside
    <2>2. Len(t) \in 1 .. Len(t)  BY <1>3, <2>1, <1>p
    <2>3. At(t, Len(t)) = t[Len(t)]  BY <2>2 DEF At
    <2> HIDE DEF p
    <2> QED  BY <2>1, <2>3, Zenon DEF FragileEnd
  <1> QED  BY <1>4, <1>5

\* Of blanks nothing is made.
LEMMA BlanksAwait ==
  ASSUME NEW S, NEW t \in Seq(S), Blanks(t, Len(t))
  PROVE  ParseStream(t).rule = "failed" /\ ParseStream(t).at = Len(t) + 1
  <1> DEFINE blank == " "
             n == Len(t) + 1
  <1>p. /\ Len(t) \in Nat /\ Positions(t) = 1 .. Len(t) + 5 /\ LastPlace(t) = Len(t) + 5
        /\ \A j \in Int : At(t, j) # NUL => j \in 1 .. Len(t)
    BY Places
  <1>0. blank # NUL  BY DEF NUL
  <1>1. Skip(t, 1) = Past(t, blank, 1)  BY DEF Skip
  <1>2. \A k \in 1 .. Len(t) : At(t, k) = blank  BY DEF Blanks
  <1> HIDE DEF blank
  <1>3. n \in Int /\ n \in 1 .. LastPlace(t) /\ 1 \in Positions(t)  BY <1>p
  <1>4. At(t, n) = NUL
    <2>1. n \notin 1 .. Len(t)  BY <1>p
    <2> HIDE DEF n
    <2> QED  BY <1>3, <2>1, <1>p
  <1>5. \A k \in 1 .. n - 1 : At(t, k) = blank  BY <1>2, <1>p
  <1> HIDE DEF n
  <1>6. Past(t, blank, 1) = n  BY <1>0, <1>3, <1>4, <1>5, PastUnique
  <1>7. PICK run : Runs(t, run)  BY ParserRuns
  <1>8. Parsing(t, run[0]) /\ run[0 + 1] = Step(t, run[0]) /\ run[0] = Start(t)
    BY <1>7 DEF Runs
  <1>9. run[0].rule = "value" /\ run[0].at = n  BY <1>1, <1>6, <1>8, StartIs
  <1>10. run[1] = ParseValue(t, run[0])  BY <1>8, <1>9 DEF Step
  <1>11. At(t, run[0].at) \in Dead  BY <1>4, <1>9 DEF Dead
  <1>12. run[1] = Failed(run[0], n)  BY <1>9, <1>10, <1>11, DeadValue
  <1>13. run[1].rule = "failed" /\ run[1].at = n  BY <1>8, <1>12, FailedIs
  <1>14. run[1] = ParseStream(t)  BY <1>7, <1>13, EndStays DEF Ended
  <1> QED  BY <1>13, <1>14 DEF n

\* What is read first of a text, and found to be something or nothing, is what all of
\* it is found to be; but nothing may be found where more would have helped.
LEMMA FoundInPart ==
  ASSUME NEW S, NEW t \in Seq(S), NEW u \in Seq(S), Holds(u, t, 0),
         ParseStream(t).rule = "done",
         ParseStream(u).rule = "done" => Bracketed(ParseStream(u))
  PROVE  Alike(ParseStream(u), ParseStream(t), 0) /\ Bracketed(ParseStream(t))
  <1>1. PICK run : Runs(t, run)  BY ParserRuns
  <1>2. PICK other : Runs(u, other)  BY ParserRuns
  <1>3. Bracketed(ParseStream(t))
    <2>1. SUFFICES ASSUME ~Bracketed(ParseStream(t))  PROVE FALSE
      OBVIOUS
    <2>2. Simple(t, Skip(t, 1))
      <3>1. SUFFICES ASSUME ~Simple(t, Skip(t, 1))  PROVE FALSE
        OBVIOUS
      <3>2. Inner(ParseStream(t))  BY <1>1, <3>1, RunInner
      <3> QED  BY <2>1, <3>2 DEF Inner
    <2>3. Len(t) \in Nat /\ Positions(t) = 1 .. Len(t) + 5  BY Places
    <2>4. Skip(t, 1) \in 1 .. Len(t) + 1  BY StartIs
    <2>5. Skip(t, 1) \in Positions(t)  BY <2>3, <2>4
    <2>6. Simple(u, Skip(t, 1) + 0) /\ Skip(t, 1) <= Len(t)  BY <2>2, <2>5, SimpleHeld
    <2>7. Skip(u, 1) = Skip(t, 1) + 0  BY <2>6, StartHeld, NoBlanks
    <2>8. ParseStream(u).rule = "done" /\ ~Bracketed(ParseStream(u))
      BY <1>2, <2>6, <2>7, RunSimple
    <2> QED  BY <2>8
  <1>4. \A n \in Nat : Firm(t, run[n])  BY <1>1, <1>3, FoundFirm
  <1>5. Blanks(u, 0)  BY NoBlanks
  <1>6. Alike(ParseStream(u), ParseStream(t), 0)  BY <1>1, <1>2, <1>4, <1>5, RunHeld
  <1> QED  BY <1>3, <1>6

\* What is read first of a text, and wrong before its end, is wrong in all of it.
LEMMA WrongInPart ==
  ASSUME NEW S, NEW t \in Seq(S), NEW u \in Seq(S), NEW d, Holds(u, t, d), Blanks(u, d),
         ParseStream(t).rule = "failed", Inside(t, ParseStream(t).at)
  PROVE  ParseStream(u).rule = "failed"
  <1>1. PICK run : Runs(t, run)  BY ParserRuns
  <1>2. PICK other : Runs(u, other)  BY ParserRuns
  <1>3. \A n \in Nat : Firm(t, run[n])  BY <1>1, WrongFirm
  <1>4. Alike(ParseStream(u), ParseStream(t), d)  BY <1>1, <1>2, <1>3, RunHeld
  <1> QED  BY <1>4 DEF Alike

\* A text behind blanks is found to be what it is.
LEMMA FoundBehind ==
  ASSUME NEW S, NEW t \in Seq(S), NEW u \in Seq(S), NEW d, Holds(u, t, d), Blanks(u, d),
         ParseStream(t).rule = "done", Bracketed(ParseStream(t))
  PROVE  Alike(ParseStream(u), ParseStream(t), d)
  <1>1. PICK run : Runs(t, run)  BY ParserRuns
  <1>2. PICK other : Runs(u, other)  BY ParserRuns
  <1>3. \A n \in Nat : Firm(t, run[n])  BY <1>1, FoundFirm
  <1> QED  BY <1>1, <1>2, <1>3, RunHeld

-----------------------------------------------------------------------------
(* The server                                                               *)

Loops == {"init", "setup", "running", "stopping", "blocked", "ended"}

\* The table and the loop.
TableOK ==
  /\ procedures \in Seq([name : Names, function : Functions])
  /\ calls \in Seq(HostCalls)
  /\ listening \in BOOLEAN
  /\ loop \in Loops
  /\ pending \subseteq Clients \cup {Listener}
  /\ eof \subseteq Clients /\ broken \subseteq Clients /\ ahead \subseteq Clients
  /\ lost \subseteq Clients

Of(f) == f = [c \in Clients |-> f[c]]

DomainsOK ==
  /\ Of(state) /\ Of(buffer_size) /\ Of(buffer) /\ Of(wire)
  /\ Of(answers) /\ Of(sent) /\ Of(taken)

\* A connection.  Its watcher is invoked only while it is open, and until it is closed
\* it has been answered at most once for each value taken.
Connection(c) ==
  /\ state[c] \in {"none", "backlog", "open", "closed"}
  /\ buffer_size[c] \in Nat /\ buffer[c] \in Seq(STRING) /\ wire[c] \in Seq(STRING)
  /\ Len(buffer[c]) < buffer_size[c]
  /\ buffer[c] # << >> => state[c] = "open"
  /\ sent[c] \in Seq(Programs[c]) /\ taken[c] \in Nat
  /\ \E S : answers[c] \in Seq(S)
  /\ Len(answers[c]) <= taken[c] + 1
  /\ state[c] # "closed" => Len(answers[c]) <= taken[c]
  /\ c \in pending => state[c] = "open"

IInv == TableOK /\ DomainsOK /\ \A c \in Clients : Connection(c)

Same(c) ==
  /\ state'[c] = state[c] /\ buffer_size'[c] = buffer_size[c] /\ buffer'[c] = buffer[c]
  /\ wire'[c] = wire[c] /\ sent'[c] = sent[c] /\ taken'[c] = taken[c]
  /\ answers'[c] = answers[c] /\ (c \in pending' => c \in pending)

LEMMA SameConnection ==
  ASSUME NEW c \in Clients, Connection(c), Same(c)
  PROVE  Connection(c)'
  BY DEF Connection, Same

LEMMA SomeLength ==
  ASSUME NEW q, \E S : q \in Seq(S)
  PROVE  Len(q) \in Nat
  OBVIOUS

LEMMA OneMore ==
  ASSUME NEW q, \E S : q \in Seq(S), NEW e
  PROVE  (\E S : Append(q, e) \in Seq(S)) /\ Len(Append(q, e)) = Len(q) + 1
  <1>1. PICK S : q \in Seq(S)  OBVIOUS
  <1>2. q \in Seq(S \cup {e}) /\ e \in S \cup {e}  BY <1>1
  <1>3. Append(q, e) \in Seq(S \cup {e}) /\ Len(Append(q, e)) = Len(q) + 1  BY <1>2
  <1> QED  BY <1>3

LEMMA IInvType == IInv => TypeOK
  <1> SUFFICES ASSUME IInv  PROVE TypeOK
    OBVIOUS
  <1>1. /\ state \in [Clients -> {"none", "backlog", "open", "closed"}]
        /\ buffer_size \in [Clients -> Nat]
    BY DEF IInv, DomainsOK, Of, Connection
  <1>2. Len(calls) \in Nat
    BY DEF IInv, TableOK
  <1>3. ASSUME NEW c \in Clients
        PROVE  /\ Len(buffer[c]) < buffer_size[c] /\ Len(wire[c]) \in Nat
               /\ buffer[c] # << >> => state[c] = "open"
               /\ sent[c] \in Seq(Programs[c])
               /\ taken[c] \in Nat
               /\ Len(answers[c]) <= taken[c] + 1
    <2>1. Connection(c)  BY DEF IInv
    <2> QED  BY <2>1 DEF Connection
  <1> QED  BY <1>1, <1>2, <1>3 DEF IInv, TableOK, TypeOK, Loops

LEMMA InitOK == Init => IInv
  <1> SUFFICES ASSUME Init  PROVE IInv
    OBVIOUS
  <1>1. TableOK
    <2>1. /\ procedures = << >> /\ calls \in Seq(HostCalls) /\ pending = {}
          /\ eof = {} /\ broken = {} /\ ahead = {} /\ lost = {}
      BY RpcAssumption DEF Init
    <2>2. listening \in BOOLEAN /\ loop \in Loops  BY DEF Init, Loops
    <2>3. procedures \in Seq([name : Names, function : Functions])  BY <2>1
    <2> QED  BY <2>1, <2>2, <2>3 DEF TableOK
  <1>2. DomainsOK
    BY DEF Init, DomainsOK, Of
  <1>3. ASSUME NEW c \in Clients  PROVE Connection(c)
    <2>1. << >> \in Seq(STRING) /\ << >> \in Seq(Programs[c]) /\ Len(<< >>) = 0
      OBVIOUS
    <2>2. /\ state[c] = "none" /\ buffer_size[c] = InitialSize /\ buffer[c] = << >>
          /\ wire[c] = << >> /\ answers[c] = << >> /\ sent[c] = << >> /\ taken[c] = 0
          /\ c \notin pending /\ InitialSize \in Nat /\ 0 < InitialSize
      BY RpcAssumption DEF Init
    <2> QED  BY <2>1, <2>2 DEF Connection
  <1> QED  BY <1>1, <1>2, <1>3 DEF IInv

LEMMA MinType ==
  ASSUME NEW T \in SUBSET Nat, T # {}
  PROVE  Min(T) \in T /\ \A y \in T : Min(T) <= y
  BY Least DEF Min

\* The entry that goes is one of the table's.
LEMMA DeregisteredType ==
  ASSUME IInv, NEW name
  PROVE  Deregistered(name) \in Seq([name : Names, function : Functions])
  <1> DEFINE P == [name : Names, function : Functions]
             i == Min(Entries(name))
  <1>1. procedures \in Seq(P)  BY DEF IInv, TableOK
  <1>2. CASE Entries(name) = {}  BY <1>1, <1>2 DEF Deregistered
  <1>3. CASE Entries(name) # {}
    <2>1. Entries(name) \in SUBSET (1 .. Len(procedures)) /\ Len(procedures) \in Nat
      BY <1>1 DEF Entries
    <2>2. Entries(name) \in SUBSET Nat  BY <2>1
    <2>3. i \in Entries(name)  BY <1>3, <2>2, MinType
    <2>4. i \in 1 .. Len(procedures)  BY <2>1, <2>3
    <2> HIDE DEF i, P
    <2>5. SubSeq(procedures, 1, i - 1) \in Seq(P)
      BY <1>1, <2>1, <2>4, SubSeqProperties
    <2>6. SubSeq(procedures, i + 1, Len(procedures)) \in Seq(P)
      BY <1>1, <2>1, <2>4, SubSeqProperties
    <2>7. RemoveAt(procedures, i) \in Seq(P)  BY <2>5, <2>6 DEF RemoveAt
    <2> QED  BY <1>3, <2>7 DEF Deregistered, i, P
  <1> QED  BY <1>2, <1>3

\* What is left in the buffer behind the value is the first part of what is behind it
\* in the text, wherever the pointer was left.
LEMMA PosLeftType ==
  ASSUME NEW rest \in Nat, NEW processed \in Nat
  PROVE  PosLeft(rest, processed) \in Nat /\ PosLeft(rest, processed) <= rest
  BY DEF PosLeft

LEMMA ShiftedIs ==
  ASSUME NEW S, NEW t \in Seq(S), NEW at \in Positions(t)
  PROVE  /\ Rest(t, at) \in Seq(S) /\ Shifted(t, at) \in Seq(S)
         /\ Len(Shifted(t, at)) <= Len(Rest(t, at)) /\ Len(Rest(t, at)) <= Len(t)
         /\ \A i \in 1 .. Len(Shifted(t, at)) : Shifted(t, at)[i] = Rest(t, at)[i]
  <1> DEFINE n == Len(Rest(t, at))
             k == PosLeft(n, at - 1)
             last == at - 1 + k
  <1>1. Len(t) \in Nat /\ at \in 1 .. Len(t) + 5 /\ at \in Nat /\ at - 1 \in Nat
    BY Places
  <1>2. Rest(t, at) = SubSeq(t, at, Len(t)) /\ Shifted(t, at) = SubSeq(t, at, last)
    BY DEF Rest, Shifted
  <1>3. CASE at <= Len(t) + 1
    <2>1. at \in 1 .. Len(t) + 1 /\ Len(t) \in at - 1 .. Len(t)  BY <1>1, <1>3
    <2>2. \A i \in at .. Len(t) : t[i] \in S  BY <1>1
    <2>3. /\ Rest(t, at) \in Seq(S) /\ n = Len(t) - at + 1
          /\ \A i \in 1 .. Len(t) - at + 1 : Rest(t, at)[i] = t[at + i - 1]
      BY <1>1, <1>2, <2>1, <2>2, SubSeqProperties
    <2> HIDE DEF n
    <2>4. n \in Nat /\ n <= Len(t)  BY <1>1, <2>1, <2>3
    <2>5. k \in Nat /\ k <= n  BY <1>1, <2>4, PosLeftType
    <2> HIDE DEF k
    <2>6. last \in at - 1 .. Len(t) /\ last \in Int /\ last - at + 1 = k
      BY <1>1, <2>1, <2>3, <2>5
    <2> HIDE DEF last
    <2>7. \A i \in at .. last : t[i] \in S  BY <1>1, <2>2, <2>6
    <2>8. /\ Shifted(t, at) \in Seq(S) /\ Len(Shifted(t, at)) = last - at + 1
          /\ \A i \in 1 .. last - at + 1 : Shifted(t, at)[i] = t[at + i - 1]
      BY <1>1, <1>2, <2>1, <2>6, <2>7, SubSeqProperties
    <2>9. /\ Shifted(t, at) \in Seq(S) /\ Len(Shifted(t, at)) = k
          /\ \A i \in 1 .. k : Shifted(t, at)[i] = t[at + i - 1]
      BY <2>6, <2>8
    <2>10. \A i \in 1 .. k : Rest(t, at)[i] = t[at + i - 1]
      BY <1>1, <2>3, <2>4, <2>5
    <2> QED  BY <2>3, <2>4, <2>5, <2>9, <2>10 DEF n
  <1>4. CASE ~(at <= Len(t) + 1)
    <2>1. Rest(t, at) = << >>  BY <1>1, <1>2, <1>4
    <2>2. n = 0  BY <2>1
    <2>3. k = 0
      <3>1. PosLeft(0, at - 1) \in Nat /\ PosLeft(0, at - 1) <= 0  BY <1>1, PosLeftType
      <3>2. k = PosLeft(0, at - 1)  BY <2>2
      <3> QED  BY <3>1, <3>2
    <2> HIDE DEF k
    <2>4. Shifted(t, at) = << >>  BY <1>1, <1>2, <2>3
    <2> QED  BY <1>1, <2>1, <2>4
  <1> QED  BY <1>3, <1>4

LEMMA ShiftedType ==
  ASSUME NEW S, NEW t \in Seq(S), NEW at \in Positions(t)
  PROVE  Shifted(t, at) \in Seq(S) /\ Len(Shifted(t, at)) <= Len(t)
  <1>1. /\ Rest(t, at) \in Seq(S) /\ Shifted(t, at) \in Seq(S)
        /\ Len(Shifted(t, at)) <= Len(Rest(t, at)) /\ Len(Rest(t, at)) <= Len(t)
    BY ShiftedIs
  <1>2. \A x, y, z \in Nat : x <= y /\ y <= z => x <= z  OBVIOUS
  <1>3. \A q \in Seq(S) : Len(q) \in Nat  OBVIOUS
  <1> QED  BY <1>1, <1>2, <1>3

\* There is always room to read at least one character, and its NUL.
LEMMA RoomToRead ==
  ASSUME IInv, NEW c \in Clients
  PROVE  /\ Len(buffer[c]) \in Nat /\ Grown(c) \in Nat /\ max_read_size(c) \in Nat
         /\ max_read_size(c) > 0 /\ Grown(c) = Len(buffer[c]) + max_read_size(c) + 1
  <1>1. /\ Len(buffer[c]) \in Nat /\ buffer_size[c] \in Nat
        /\ Len(buffer[c]) < buffer_size[c]
    BY DEF IInv, Connection
  <1>2. Grown(c) \in Nat /\ Grown(c) > Len(buffer[c]) + 1
    <2>1. CASE Len(buffer[c]) = buffer_size[c] - 1
      <3>1. Grown(c) = 2 * buffer_size[c]  BY <2>1 DEF Grown
      <3> QED  BY <1>1, <2>1, <3>1
    <2>2. CASE Len(buffer[c]) # buffer_size[c] - 1
      <3>1. Grown(c) = buffer_size[c]  BY <2>2 DEF Grown
      <3> QED  BY <1>1, <2>2, <3>1
    <2> QED  BY <2>1, <2>2
  <1>3. max_read_size(c) = Grown(c) - Len(buffer[c]) - 1  BY DEF max_read_size
  <1>4. \A g, l \in Nat : g > l + 1 => /\ g - l - 1 \in Nat /\ g - l - 1 > 0
                                      /\ g = l + (g - l - 1) + 1
    OBVIOUS
  <1> QED  BY <1>1, <1>2, <1>3, <1>4

-----------------------------------------------------------------------------
(* The steps                                                                *)

\* A step that leaves the connections alone.
LEMMA OnlyTable ==
  ASSUME IInv, UNCHANGED <<client, server>>, TableOK',
         \A c \in Clients : c \in pending' => Readable(c) \/ c \in pending
  PROVE  IInv'
  <1>1. DomainsOK'  BY DEF IInv, DomainsOK, Of, client, server
  <1>2. ASSUME NEW c \in Clients  PROVE Connection(c)'
    <2>1. Connection(c)  BY DEF IInv
    <2>2. UNCHANGED <<state, buffer_size, buffer, wire, sent, taken, answers>>
      BY DEF client, server
    <2>3. c \in pending' => state[c] = "open"  BY <2>1 DEF Readable, Connection
    <2> QED  BY <2>1, <2>2, <2>3 DEF Connection
  <1> QED  BY <1>1, <1>2 DEF IInv

\* A step of one connection, or of its client.
LEMMA OneConnection ==
  ASSUME IInv, NEW c \in Clients, DomainsOK', TableOK', Connection(c)',
         \A d \in Clients \ {c} : Same(d)
  PROVE  IInv'
  <1>1. ASSUME NEW d \in Clients \ {c}  PROVE Connection(d)'
    BY SameConnection DEF IInv
  <1> QED  BY <1>1 DEF IInv

LEMMA HostCallOK ==
  ASSUME IInv, HostCall  PROVE IInv'
  <1>1. /\ calls \in Seq(HostCalls) /\ calls # << >>
        /\ UNCHANGED <<listening, loop, pending, client, server>>
    BY DEF HostCall, IInv, TableOK
  <1>2. calls[1] \in HostCalls /\ calls' \in Seq(HostCalls)
    BY <1>1 DEF HostCall
  <1>3. procedures' \in Seq([name : Names, function : Functions])
    <2>1. CASE jrpc_register_procedure(calls[1].name, calls[1].function)
      <3>1. [name |-> calls[1].name, function |-> calls[1].function]
              \in [name : Names, function : Functions]
        BY <1>2 DEF HostCalls
      <3>2. procedures \in Seq([name : Names, function : Functions])
        BY DEF IInv, TableOK
      <3> QED  BY <2>1, <3>1, <3>2 DEF jrpc_register_procedure
    <2>2. CASE jrpc_deregister_procedure(calls[1].name)
      BY <2>2, DeregisteredType DEF jrpc_deregister_procedure
    <2> QED  BY <2>1, <2>2 DEF HostCall
  <1>4. TableOK'  BY <1>1, <1>2, <1>3 DEF IInv, TableOK, client, server
  <1> QED  BY <1>1, <1>4, OnlyTable

LEMMA LoopOK ==
  ASSUME IInv, jrpc_server_init \/ jrpc_server_run \/ Poll \/ EndLoop  PROVE IInv'
  <1>1. UNCHANGED <<client, server, calls>>
    BY DEF jrpc_server_init, jrpc_server_run, Poll, EndLoop, host
  <1>2. UNCHANGED <<eof, broken, ahead, lost>>  BY <1>1 DEF client, server
  <1>3. procedures' = procedures \/ procedures' = << >>
    BY DEF jrpc_server_init, jrpc_server_run, Poll, EndLoop, host
  <1>4. procedures' \in Seq([name : Names, function : Functions])
    <2> DEFINE P == [name : Names, function : Functions]
    <2>1. procedures \in Seq(P)  BY DEF IInv, TableOK
    <2> HIDE DEF P
    <2>2. << >> \in Seq(P)  OBVIOUS
    <2>3. procedures' \in Seq(P)  BY <1>3, <2>1, <2>2
    <2> QED  BY <2>3 DEF P
  <1>5. listening' \in BOOLEAN
    BY DEF jrpc_server_init, jrpc_server_run, Poll, EndLoop, host, IInv, TableOK
  <1>6. loop' \in Loops
    BY DEF jrpc_server_init, jrpc_server_run, Poll, EndLoop, IInv, TableOK, Loops
  <1>7. pending' = pending \/ pending' = Ready
    BY DEF jrpc_server_init, jrpc_server_run, Poll, EndLoop
  <1>8. Ready \subseteq Clients \cup {Listener}
    BY DEF Ready
  <1>9. \A c \in Clients : c \in pending' => Readable(c) \/ c \in pending
    <2>1. \A c \in Clients : c \in Ready => Readable(c)
      BY RpcAssumption DEF Ready
    <2> QED  BY <1>7, <2>1
  <1>10. TableOK'
    BY <1>1, <1>2, <1>4, <1>5, <1>6, <1>7, <1>8 DEF IInv, TableOK
  <1> QED  BY <1>1, <1>9, <1>10, OnlyTable

LEMMA AcceptOK ==
  ASSUME IInv, accept_cb  PROVE IInv'
  <1>1. /\ UNCHANGED <<host, loop, client, buffer_size, buffer, answers, taken, lost>>
        /\ pending' \subseteq pending
    BY DEF accept_cb, Invoked
  <1>2. UNCHANGED <<wire, sent, eof, broken, ahead, procedures, calls, listening>>
    BY <1>1 DEF client, host
  <1>3. TableOK'  BY <1>1, <1>2 DEF IInv, TableOK
  <1>4. CASE UNCHANGED state
    <2>1. UNCHANGED <<client, server>>  BY <1>1, <1>4 DEF server
    <2> QED  BY <1>1, <1>3, <2>1, OnlyTable
  <1>5. ASSUME NEW c \in Backlog, state' = [state EXCEPT ![c] = "open"]
        PROVE  IInv'
    <2>1. c \in Clients /\ state[c] = "backlog"  BY DEF Backlog
    <2>2. Of(state)  BY DEF IInv, DomainsOK
    <2>3. Of(state') /\ state'[c] = "open" /\ \A d \in Clients \ {c} : state'[d] = state[d]
      BY <1>5, <2>1, <2>2 DEF Of
    <2>4. DomainsOK'  BY <1>1, <1>2, <2>3 DEF IInv, DomainsOK, Of
    <2>5. Connection(c)'
      <3>1. Connection(c)  BY <2>1 DEF IInv
      <3> QED  BY <1>1, <1>2, <2>1, <2>3, <3>1 DEF Connection
    <2>6. \A d \in Clients \ {c} : Same(d)  BY <1>1, <1>2, <2>3 DEF Same
    <2> QED  BY <1>3, <2>1, <2>4, <2>5, <2>6, OneConnection
  <1> QED  BY <1>4, <1>5 DEF accept_cb

\* What every invocation of a connection's watcher leaves alone.
LEMMA InvokedConnection ==
  ASSUME IInv, NEW c \in Clients, Invoked(c), UNCHANGED <<host, eof, broken, sent, ahead>>
  PROVE  /\ state[c] = "open" /\ c \notin pending' /\ pending' \subseteq pending
         /\ Connection(c) /\ DomainsOK
         /\ loop' \in Loops /\ lost' \subseteq Clients => TableOK'
  <1>1. Connection(c) /\ DomainsOK /\ TableOK  BY DEF IInv
  <1>2. c \in pending /\ c \notin pending' /\ pending' \subseteq pending  BY DEF Invoked
  <1>3. state[c] = "open"  BY <1>1, <1>2 DEF Connection
  <1>4. UNCHANGED <<procedures, calls, listening>>  BY DEF host
  <1>5. loop' \in Loops /\ lost' \subseteq Clients => TableOK'
    BY <1>1, <1>2, <1>4 DEF TableOK
  <1> QED  BY <1>1, <1>2, <1>3, <1>5

LEMMA NothingReadOK ==
  ASSUME IInv, NEW c \in Clients, Invoked(c), NothingRead(c),
         UNCHANGED <<host, eof, broken, sent, ahead>>
  PROVE  IInv'
  <1>1. /\ state[c] = "open" /\ c \notin pending' /\ pending' \subseteq pending
        /\ Connection(c) /\ DomainsOK
    BY InvokedConnection
  <1>2. UNCHANGED <<loop, wire, buffer_size, answers, taken, sent, lost>>
    BY DEF NothingRead
  <1>3. TableOK'
    <2>1. loop' \in Loops /\ lost' \subseteq Clients
      BY <1>2 DEF IInv, TableOK
    <2> QED  BY <2>1, InvokedConnection
  <1>4. /\ state' = [state EXCEPT ![c] = "closed"]
        /\ buffer' = [buffer EXCEPT ![c] = << >>]
    BY DEF NothingRead, close_connection
  <1>5. /\ Of(state') /\ Of(buffer') /\ state'[c] = "closed" /\ buffer'[c] = << >>
        /\ \A d \in Clients \ {c} : state'[d] = state[d] /\ buffer'[d] = buffer[d]
    BY <1>1, <1>4 DEF DomainsOK, Of
  <1>6. DomainsOK'  BY <1>1, <1>2, <1>5 DEF DomainsOK, Of
  <1>7. Connection(c)'
    <2>1. << >> \in Seq(STRING) /\ Len(<< >>) = 0  OBVIOUS
    <2>2. 0 < buffer_size[c]  BY <1>1 DEF Connection
    <2> QED  BY <1>1, <1>2, <1>5, <2>1, <2>2 DEF Connection
  <1>8. \A d \in Clients \ {c} : Same(d)  BY <1>1, <1>2, <1>5 DEF Same
  <1> QED  BY <1>3, <1>6, <1>7, <1>8, OneConnection

\* A text and its NUL fit into the buffer, and the parser ends inside it.
LEMMA ReceivedText ==
  ASSUME IInv, NEW c \in Clients,
         NEW n \in 1 .. Min({max_read_size(c), Len(wire[c])})
  PROVE  LET text == buffer[c] \o SubSeq(wire[c], 1, n) IN
           /\ text \in Seq(STRING) /\ Len(text) < Grown(c)
           /\ ParseStream(text).at \in Positions(text)
           /\ SubSeq(wire[c], n + 1, Len(wire[c])) \in Seq(STRING)
  <1> DEFINE text == buffer[c] \o SubSeq(wire[c], 1, n)
             T == {max_read_size(c), Len(wire[c])}
  <1>1. /\ buffer[c] \in Seq(STRING) /\ wire[c] \in Seq(STRING) /\ Len(wire[c]) \in Nat
    BY DEF IInv, Connection
  <1>2. /\ Len(buffer[c]) \in Nat /\ max_read_size(c) \in Nat
        /\ Grown(c) = Len(buffer[c]) + max_read_size(c) + 1
    BY RoomToRead
  <1>3. T \in SUBSET Nat /\ T # {}  BY <1>1, <1>2
  <1>4. Min(T) \in Nat /\ Min(T) <= max_read_size(c) /\ Min(T) <= Len(wire[c])
    BY <1>3, MinType
  <1>5. n \in Nat /\ n >= 1 /\ n <= max_read_size(c) /\ n <= Len(wire[c])
    BY <1>1, <1>2, <1>4
  <1>6. SubSeq(wire[c], 1, n) \in Seq(STRING) /\ Len(SubSeq(wire[c], 1, n)) = n
    BY <1>1, <1>5, SubSeqProperties
  <1>7. SubSeq(wire[c], n + 1, Len(wire[c])) \in Seq(STRING)
    BY <1>1, <1>5, SubSeqProperties
  <1>8. text \in Seq(STRING) /\ Len(text) = Len(buffer[c]) + n
    BY <1>1, <1>6
  <1>9. Len(text) < Grown(c)
    <2> HIDE DEF text
    <2> QED  BY <1>2, <1>5, <1>8
  <1>10. ParseStream(text).at \in Positions(text)
    <2> HIDE DEF text
    <2> QED  BY <1>8, ParserEnds
  <1> QED  BY <1>7, <1>8, <1>9, <1>10

LEMMA ReceivedOK ==
  ASSUME IInv, NEW c \in Clients, Invoked(c), UNCHANGED <<host, eof, broken, sent, ahead>>,
         NEW n \in 1 .. Min({max_read_size(c), Len(wire[c])}), Received(c, n)
  PROVE  IInv'
  <1> DEFINE text == buffer[c] \o SubSeq(wire[c], 1, n)
             parsed == ParseStream(text)
  <1>1. /\ state[c] = "open" /\ c \notin pending' /\ pending' \subseteq pending
        /\ Connection(c) /\ DomainsOK
    BY InvokedConnection
  <1>2. /\ text \in Seq(STRING) /\ Len(text) < Grown(c) /\ parsed.at \in Positions(text)
        /\ SubSeq(wire[c], n + 1, Len(wire[c])) \in Seq(STRING)
    BY ReceivedText
  <1>3. /\ wire' = [wire EXCEPT ![c] = SubSeq(@, n + 1, Len(@))]
        /\ buffer_size' = [buffer_size EXCEPT ![c] = Grown(c)]
        /\ \/ TakeValue(c, text, parsed)
           \/ AwaitRest(c, text, parsed)
           \/ RefuseText(c, text, parsed)
           \/ BlockInWrite(c, text, parsed)
    BY DEF Received
  <1>4. /\ Of(wire') /\ Of(buffer_size') /\ wire'[c] \in Seq(STRING)
        /\ buffer_size'[c] = Grown(c) /\ Grown(c) \in Nat
        /\ \A d \in Clients \ {c} : wire'[d] = wire[d] /\ buffer_size'[d] = buffer_size[d]
    <2>1. /\ Of(wire') /\ wire'[c] = SubSeq(wire[c], n + 1, Len(wire[c]))
          /\ \A d \in Clients \ {c} : wire'[d] = wire[d]
      BY <1>1, <1>3 DEF DomainsOK, Of
    <2>2. /\ Of(buffer_size') /\ buffer_size'[c] = Grown(c)
          /\ \A d \in Clients \ {c} : buffer_size'[d] = buffer_size[d]
      BY <1>1, <1>3 DEF DomainsOK, Of
    <2>3. Grown(c) \in Nat  BY RoomToRead
    <2> QED  BY <1>2, <2>1, <2>2, <2>3
  <1> HIDE DEF text, parsed
  <1>5. Len(text) \in Nat /\ Len(answers[c]) \in Nat /\ taken[c] \in Nat
    BY <1>1, <1>2 DEF Connection
  \* What is left to show of a step that keeps a part of the text.
  <1>6. ASSUME loop' \in Loops, lost' \subseteq Clients,
               Of(state'), Of(buffer'), Of(answers'), Of(taken'),
               \A d \in Clients \ {c} :
                 /\ state'[d] = state[d] /\ buffer'[d] = buffer[d]
                 /\ answers'[d] = answers[d] /\ taken'[d] = taken[d],
               state'[c] \in {"open", "closed"}, taken'[c] \in Nat,
               buffer'[c] \in Seq(STRING), Len(buffer'[c]) <= Len(text),
               buffer'[c] # << >> => state'[c] = "open",
               \E S : answers'[c] \in Seq(S),
               Len(answers'[c]) <= taken'[c] + 1,
               state'[c] # "closed" => Len(answers'[c]) <= taken'[c]
        PROVE  IInv'
    <2>1. TableOK'  BY <1>6, InvokedConnection
    <2>2. DomainsOK'  BY <1>1, <1>4, <1>6 DEF DomainsOK, Of
    <2>3. Len(buffer'[c]) < Grown(c)
      <3>1. Len(buffer'[c]) \in Nat /\ Grown(c) \in Nat  BY <1>4, <1>6
      <3> QED  BY <1>2, <1>5, <1>6, <3>1
    <2>4. Connection(c)'
      BY <1>1, <1>4, <1>6, <2>3 DEF Connection
    <2>5. \A d \in Clients \ {c} : Same(d)  BY <1>1, <1>4, <1>6 DEF Same
    <2> QED  BY <2>1, <2>2, <2>4, <2>5, OneConnection
  <1>7. loop \in Loops /\ lost \subseteq Clients /\ "stopping" \in Loops /\ "blocked" \in Loops
    BY DEF IInv, TableOK, Loops
  <1>8. Of(state) /\ Of(buffer) /\ Of(answers) /\ Of(taken)
    BY <1>1 DEF DomainsOK
  <1>9. (\E S : answers[c] \in Seq(S)) /\ Len(answers[c]) <= taken[c]
    BY <1>1 DEF Connection
  <1>10. CASE TakeValue(c, text, parsed)
    <2>1. /\ buffer' = [buffer EXCEPT ![c] = Shifted(text, parsed.at)]
          /\ taken' = [taken EXCEPT ![c] = @ + 1]
          /\ UNCHANGED state
      BY <1>10 DEF TakeValue
    <2>l. lost' \subseteq Clients
      <3>1. lost' \in {lost, lost \cup {c}}  BY <1>10 DEF TakeValue
      <3> QED  BY <1>7, <3>1
    <2>2. /\ Of(buffer') /\ buffer'[c] = Shifted(text, parsed.at)
          /\ Of(taken') /\ taken'[c] = taken[c] + 1
          /\ \A d \in Clients \ {c} : buffer'[d] = buffer[d] /\ taken'[d] = taken[d]
      BY <1>8, <2>1 DEF Of
    <2>3. buffer'[c] \in Seq(STRING) /\ Len(buffer'[c]) <= Len(text)
      BY <1>2, <2>2, ShiftedType
    <2>4. CASE parsed.value.type = "object"
      <3>1. PICK reply : /\ answers' = [answers EXCEPT ![c] = Append(@, reply)]
                         /\ loop' = IF reply.by = ExitServer THEN "stopping" ELSE loop
        BY <1>10, <2>4 DEF TakeValue
      <3>2. /\ Of(answers') /\ answers'[c] = Append(answers[c], reply)
            /\ \A d \in Clients \ {c} : answers'[d] = answers[d]
        BY <1>8, <3>1 DEF Of
      <3>3. (\E S : answers'[c] \in Seq(S)) /\ Len(answers'[c]) = Len(answers[c]) + 1
        <4>1. /\ \E S : Append(answers[c], reply) \in Seq(S)
              /\ Len(Append(answers[c], reply)) = Len(answers[c]) + 1
          BY <1>9, OneMore, Zenon
        <4> QED  BY <3>2, <4>1
      <3>4. loop' \in Loops
        BY <1>7, <3>1
      <3>5. Len(answers'[c]) <= taken'[c] /\ Len(answers'[c]) <= taken'[c] + 1
        BY <1>5, <1>9, <2>2, <3>3
      <3> QED  BY <1>1, <1>5, <1>6, <1>8, <2>1, <2>l, <2>2, <2>3, <3>2, <3>3, <3>4, <3>5
    <2>5. CASE parsed.value.type # "object"
      <3>1. UNCHANGED <<answers, loop>>  BY <1>10, <2>5 DEF TakeValue
      <3>2. Len(answers'[c]) <= taken'[c] /\ Len(answers'[c]) <= taken'[c] + 1
        BY <1>5, <1>9, <2>2, <3>1
      <3> QED  BY <1>1, <1>5, <1>6, <1>7, <1>8, <1>9, <2>1, <2>l, <2>2, <2>3, <3>1, <3>2
    <2> QED  BY <2>4, <2>5
  <1>11. CASE AwaitRest(c, text, parsed) \/ BlockInWrite(c, text, parsed)
    <2>1. /\ buffer' = [buffer EXCEPT ![c] = text]
          /\ loop' \in {loop, "blocked"} /\ UNCHANGED <<state, answers, taken, lost>>
      BY <1>11 DEF AwaitRest, BlockInWrite
    <2>2. /\ Of(buffer') /\ buffer'[c] = text
          /\ \A d \in Clients \ {c} : buffer'[d] = buffer[d]
      BY <1>8, <2>1 DEF Of
    <2>3. Len(answers'[c]) <= taken'[c] /\ Len(answers'[c]) <= taken'[c] + 1
      BY <1>5, <1>9, <2>1
    <2>4. buffer'[c] \in Seq(STRING) /\ Len(buffer'[c]) <= Len(text)
      BY <1>2, <1>5, <2>2
    <2> QED  BY <1>1, <1>5, <1>6, <1>7, <1>8, <1>9, <2>1, <2>2, <2>3, <2>4
  <1>12. CASE RefuseText(c, text, parsed)
    <2>1. /\ \E e : answers' = [answers EXCEPT ![c] = Append(@, e)]
          /\ state' = [state EXCEPT ![c] = "closed"]
          /\ buffer' = [buffer EXCEPT ![c] = << >>]
          /\ UNCHANGED <<loop, taken, lost>>
      BY <1>12 DEF RefuseText, close_connection
    <2>2. PICK e : answers' = [answers EXCEPT ![c] = Append(@, e)]  BY <2>1
    <2>3. /\ Of(state') /\ state'[c] = "closed" /\ Of(buffer') /\ buffer'[c] = << >>
          /\ \A d \in Clients \ {c} : state'[d] = state[d] /\ buffer'[d] = buffer[d]
      BY <1>8, <2>1 DEF Of
    <2>4. /\ Of(answers') /\ answers'[c] = Append(answers[c], e)
          /\ \A d \in Clients \ {c} : answers'[d] = answers[d]
      BY <1>8, <2>2 DEF Of
    <2>5. (\E S : answers'[c] \in Seq(S)) /\ Len(answers'[c]) = Len(answers[c]) + 1
      <3>1. /\ \E S : Append(answers[c], e) \in Seq(S)
            /\ Len(Append(answers[c], e)) = Len(answers[c]) + 1
        BY <1>9, OneMore, Zenon
      <3> QED  BY <2>4, <3>1
    <2>6. Len(answers'[c]) <= taken'[c] + 1
      BY <1>5, <1>9, <2>1, <2>5
    <2>7. buffer'[c] \in Seq(STRING) /\ Len(buffer'[c]) <= Len(text)
      BY <1>5, <2>3
    <2> QED  BY <1>5, <1>6, <1>7, <1>8, <2>1, <2>3, <2>4, <2>5, <2>6, <2>7
  <1> QED  BY <1>3, <1>10, <1>11, <1>12

LEMMA ClientOK ==
  ASSUME IInv, NEW c \in Clients,
         \/ Connect(c) \/ StopSending(c) \/ Reset(c)
         \/ \E r \in Programs[c] : Send(c, r)
  PROVE  IInv'
  <1>1. Connection(c) /\ TableOK /\ DomainsOK  BY DEF IInv
  <1>2. UNCHANGED <<host, loop, pending, buffer_size, buffer, answers, taken, lost>>
    BY DEF Connect, StopSending, Reset, Send, server
  <1>3. UNCHANGED <<procedures, calls, listening>>  BY <1>2 DEF host
  <1>4. CASE Connect(c)
    <2>1. /\ state[c] = "none" /\ state' = [state EXCEPT ![c] = "backlog"]
          /\ UNCHANGED <<wire, sent, eof, broken, ahead>>
      BY <1>4 DEF Connect, client
    <2>2. /\ Of(state') /\ state'[c] = "backlog"
          /\ \A d \in Clients \ {c} : state'[d] = state[d]
      BY <1>1, <2>1 DEF DomainsOK, Of
    <2>3. TableOK'  BY <1>1, <1>2, <1>3, <2>1 DEF TableOK
    <2>4. DomainsOK'  BY <1>1, <1>2, <2>1, <2>2 DEF DomainsOK, Of
    <2>5. Connection(c)'  BY <1>1, <1>2, <2>1, <2>2 DEF Connection
    <2>6. \A d \in Clients \ {c} : Same(d)  BY <1>2, <2>1, <2>2 DEF Same
    <2> QED  BY <2>3, <2>4, <2>5, <2>6, OneConnection
  <1>5. CASE StopSending(c) \/ Reset(c)
    <2>1. UNCHANGED <<state, wire, sent, ahead>>
      BY <1>5 DEF StopSending, Reset, server
    <2>2. eof' \subseteq Clients /\ broken' \subseteq Clients
      BY <1>1, <1>5 DEF StopSending, Reset, TableOK
    <2>3. TableOK'  BY <1>1, <1>2, <1>3, <2>1, <2>2 DEF TableOK
    <2>4. DomainsOK'  BY <1>1, <1>2, <2>1 DEF DomainsOK, Of
    <2>5. \A d \in Clients : Same(d)  BY <1>2, <2>1 DEF Same
    <2>6. Connection(c)'  BY <1>1, <2>5, SameConnection
    <2> QED  BY <2>3, <2>4, <2>5, <2>6, OneConnection
  <1>6. ASSUME NEW r \in Programs[c], Send(c, r)  PROVE IInv'
    <2>1. /\ wire' = [wire EXCEPT ![c] = @ \o r.text]
          /\ sent' = [sent EXCEPT ![c] = Append(@, r)]
          /\ UNCHANGED <<state, eof, broken>> /\ ahead' \subseteq Clients
      BY <1>1, <1>6 DEF Send, server, TableOK
    <2>2. r.text \in Seq(STRING)  BY RpcAssumption
    <2>3. /\ Of(wire') /\ wire'[c] = wire[c] \o r.text
          /\ \A d \in Clients \ {c} : wire'[d] = wire[d]
      BY <1>1, <2>1 DEF DomainsOK, Of
    <2>4. /\ Of(sent') /\ sent'[c] = Append(sent[c], r)
          /\ \A d \in Clients \ {c} : sent'[d] = sent[d]
      BY <1>1, <2>1 DEF DomainsOK, Of
    <2>5. wire'[c] \in Seq(STRING)
      BY <1>1, <2>2, <2>3 DEF Connection
    <2>6. sent'[c] \in Seq(Programs[c])
      <3>1. sent[c] \in Seq(Programs[c])  BY <1>1 DEF Connection
      <3>2. Append(sent[c], r) \in Seq(Programs[c])  BY <3>1, AppendProperties
      <3> QED  BY <2>4, <3>2
    <2>7. TableOK'  BY <1>1, <1>2, <1>3, <2>1 DEF TableOK
    <2>8. DomainsOK'  BY <1>1, <1>2, <2>1, <2>3, <2>4 DEF DomainsOK, Of
    <2>9. Connection(c)'  BY <1>1, <1>2, <2>1, <2>5, <2>6 DEF Connection
    <2>10. \A d \in Clients \ {c} : Same(d)  BY <1>2, <2>1, <2>3, <2>4 DEF Same
    <2> QED  BY <2>7, <2>8, <2>9, <2>10, OneConnection
  <1> QED  BY <1>4, <1>5, <1>6

LEMMA NextOK == IInv /\ [Next]_vars => IInv'
  <1> SUFFICES ASSUME IInv, [Next]_vars  PROVE IInv'
    OBVIOUS
  <1>1. CASE jrpc_server_init \/ jrpc_server_run \/ Poll \/ EndLoop
    BY <1>1, LoopOK
  <1>2. CASE HostCall  BY <1>2, HostCallOK
  <1>3. CASE accept_cb  BY <1>3, AcceptOK
  <1>4. ASSUME NEW c \in Clients, connection_cb(c)  PROVE IInv'
    <2>1. Invoked(c) /\ UNCHANGED <<host, eof, broken, sent, ahead>>
      BY <1>4 DEF connection_cb
    <2>2. CASE NothingRead(c)  BY <2>1, <2>2, NothingReadOK
    <2>3. ASSUME NEW n \in 1 .. Min({max_read_size(c), Len(wire[c])}), Received(c, n)
          PROVE  IInv'
      BY <2>1, <2>3, ReceivedOK
    <2> QED  BY <1>4, <2>2, <2>3 DEF connection_cb
  <1>5. ASSUME NEW c \in Clients,
               \/ Connect(c) \/ StopSending(c) \/ Reset(c)
               \/ \E r \in Programs[c] : Send(c, r)
        PROVE  IInv'
    BY <1>5, ClientOK
  <1>6. CASE UNCHANGED vars
    <2>1. UNCHANGED <<host, loop, pending, client, server>>  BY <1>6 DEF vars
    <2>2. TableOK'  BY <2>1 DEF IInv, TableOK, host, client, server
    <2> QED  BY <2>1, <2>2, OnlyTable
  <1> QED  BY <1>1, <1>2, <1>3, <1>4, <1>5, <1>6 DEF Next, Serve

-----------------------------------------------------------------------------
(* The buffer                                                               *)

LEMMA Invariance == Spec => []IInv
  BY InitOK, NextOK, PTL DEF Spec

\* A text and its NUL fit into the buffer, which only an open connection has in use,
\* whatever the clients send, however their texts are divided into reads, and wherever
\* the parser leaves its pointer in them.
THEOREM TextsFit == Spec => []TypeOK
  BY Invariance, IInvType, PTL

\* read is always asked for at least one character: when it returns 0 the client has
\* hung up, and no connection is closed because its buffer is full.
RoomInEach == \A c \in Clients : max_read_size(c) > 0

THEOREM ReadsSomething == Spec => []RoomInEach
  <1>1. IInv => RoomInEach  BY RoomToRead DEF RoomInEach
  <1> QED  BY <1>1, Invariance, PTL

-----------------------------------------------------------------------------
(* What a client has sent, in pieces                                        *)

\* u is s, and t behind it.
Joined(u, s, t) == u = s \o t

LEMMA JoinedIs ==
  ASSUME NEW S, NEW s \in Seq(S), NEW t \in Seq(S), NEW u, Joined(u, s, t)
  PROVE  /\ u \in Seq(S) /\ Len(u) = Len(s) + Len(t)
         /\ \A i \in 1 .. Len(s) + Len(t) : u[i] = IF i <= Len(s) THEN s[i] ELSE t[i - Len(s)]
  BY ConcatProperties DEF Joined

LEMMA RestIs ==
  ASSUME NEW S, NEW s \in Seq(S), NEW a \in 1 .. Len(s) + 1
  PROVE  /\ Rest(s, a) \in Seq(S) /\ Len(Rest(s, a)) = Len(s) + 1 - a
         /\ \A i \in 1 .. Len(s) + 1 - a : Rest(s, a)[i] = s[a + i - 1]
  <1>1. Len(s) \in Nat /\ a \in Int  OBVIOUS
  <1>2. \A i \in a .. Len(s) : s[i] \in S  OBVIOUS
  <1> QED  BY <1>1, <1>2, SubSeqProperties DEF Rest

\* What is left of two texts joined, without the first symbols.
LEMMA Dropped ==
  ASSUME NEW S, NEW s \in Seq(S), NEW t \in Seq(S), NEW a \in 1 .. Len(s) + 1,
         NEW u, Joined(u, s, t), NEW r, Joined(r, Rest(s, a), t)
  PROVE  /\ u \in Seq(S) /\ r \in Seq(S) /\ Len(r) = Len(u) + 1 - a
         /\ \A i \in 1 .. Len(r) : r[i] = u[a + i - 1]
  <1> DEFINE q == Rest(s, a)
  <1>1. Len(s) \in Nat /\ Len(t) \in Nat /\ a \in 1 .. Len(s) + 1 /\ a \in Int  OBVIOUS
  <1>3. /\ q \in Seq(S) /\ Len(q) = Len(s) + 1 - a
        /\ \A i \in 1 .. Len(s) + 1 - a : q[i] = s[a + i - 1]
    BY RestIs
  <1>q. q \in Seq(S) /\ Joined(r, q, t)  BY <1>3
  <1> HIDE DEF q
  <1>4. /\ r \in Seq(S) /\ Len(r) = Len(q) + Len(t)
        /\ \A i \in 1 .. Len(q) + Len(t) : r[i] = IF i <= Len(q) THEN q[i] ELSE t[i - Len(q)]
    BY <1>q, JoinedIs
  <1>5. /\ u \in Seq(S) /\ Len(u) = Len(s) + Len(t)
        /\ \A i \in 1 .. Len(s) + Len(t) : u[i] = IF i <= Len(s) THEN s[i] ELSE t[i - Len(s)]
    BY JoinedIs
  <1>6. Len(r) = Len(u) + 1 - a  BY <1>1, <1>3, <1>4, <1>5
  <1>7. ASSUME NEW i \in 1 .. Len(r)  PROVE r[i] = u[a + i - 1]
    <2> DEFINE k == a + i - 1
    <2>1. i \in 1 .. Len(q) + Len(t) /\ k \in 1 .. Len(s) + Len(t) /\ i \in Int /\ k \in Int
      BY <1>1, <1>3, <1>4
    <2>2. k = a + i - 1  OBVIOUS
    <2> HIDE DEF k
    <2>3. CASE i <= Len(q)
      <3>1. k <= Len(s) /\ i \in 1 .. Len(s) + 1 - a  BY <1>1, <1>3, <2>1, <2>2, <2>3
      <3>2. r[i] = q[i] /\ u[k] = s[k]  BY <1>4, <1>5, <2>1, <2>3, <3>1
      <3>3. q[i] = s[k]  BY <1>3, <2>2, <3>1
      <3> QED  BY <2>2, <3>2, <3>3
    <2>4. CASE ~(i <= Len(q))
      <3>1. ~(k <= Len(s)) /\ i - Len(q) = k - Len(s)  BY <1>1, <1>3, <2>1, <2>2, <2>4
      <3>2. r[i] = t[i - Len(q)] /\ u[k] = t[k - Len(s)]
        BY <1>4, <1>5, <2>1, <2>4, <3>1
      <3> QED  BY <2>2, <3>1, <3>2
    <2> QED  BY <2>3, <2>4
  <1> QED  BY <1>4, <1>5, <1>6, <1>7

\* One text, divided in two ways: what is left of it behind the same place.
LEMMA LeftOf ==
  ASSUME NEW S, NEW s \in Seq(S), NEW t \in Seq(S), NEW lead \in Seq(S), NEW w \in Seq(S),
         NEW more \in Seq(S), NEW u, Joined(u, s, t), NEW v, Joined(v, w, more),
         Joined(u, lead, v),
         NEW a \in 1 .. Len(s) + 1, NEW b \in 1 .. Len(w) + 1, a = b + Len(lead),
         NEW l, Joined(l, Rest(s, a), t), NEW r, Joined(r, Rest(w, b), more)
  PROVE  l = r
  <1>1. /\ u \in Seq(S) /\ l \in Seq(S) /\ Len(l) = Len(u) + 1 - a
        /\ \A i \in 1 .. Len(l) : l[i] = u[a + i - 1]
    <2>1. Joined(u, s, t) /\ Joined(l, Rest(s, a), t)  OBVIOUS
    <2> QED  BY <2>1, Dropped
  <1>2. /\ v \in Seq(S) /\ r \in Seq(S) /\ Len(r) = Len(v) + 1 - b
        /\ \A i \in 1 .. Len(r) : r[i] = v[b + i - 1]
    BY Dropped
  <1> DEFINE d == Len(lead)
  <1>5. /\ Len(u) = d + Len(v)
        /\ \A i \in 1 .. d + Len(v) : u[i] = IF i <= d THEN lead[i] ELSE v[i - d]
    BY <1>2, JoinedIs
  <1>6. /\ d \in Nat /\ Len(v) \in Nat /\ Len(l) \in Nat /\ Len(r) \in Nat
        /\ a \in Nat /\ b \in Nat /\ a = b + d /\ b >= 1
        /\ Len(u) = d + Len(v) /\ Len(l) = Len(u) + 1 - a /\ Len(r) = Len(v) + 1 - b
    <2>1. /\ d \in Nat /\ Len(v) \in Nat /\ Len(l) \in Nat /\ Len(r) \in Nat
      <3>1. \A q \in Seq(S) : Len(q) \in Nat  OBVIOUS
      <3> QED  BY <3>1, <1>1, <1>2, Zenon
    <2>2. a \in Nat /\ b \in Nat /\ a = b + d /\ b >= 1  OBVIOUS
    <2> HIDE DEF d
    <2> QED  BY <1>1, <1>2, <1>5, <2>1, <2>2
  <1> HIDE DEF d
  <1>7. Len(l) = Len(r)  BY <1>6
  <1>8. ASSUME NEW i \in 1 .. Len(l)  PROVE l[i] = r[i]
    <2> DEFINE k == b + i - 1
               m == a + i - 1
               n == Len(v)
    <2>0. i \in Nat /\ 1 <= i /\ i <= Len(l)  BY <1>6
    <2>1. i \in Nat /\ i >= 1 /\ i <= n + 1 - b  BY <1>6, <1>7, <2>0
    <2>3. a \in Nat /\ b \in Nat /\ d \in Nat /\ n \in Nat /\ a = b + d /\ b >= 1
      BY <1>6
    <2> HIDE DEF n
    <2>4. k \in Int /\ m \in Int /\ m = k + d
      <3>1. \A x, y, z \in Nat : x + y - 1 \in Int /\ (x + z) + y - 1 = (x + y - 1) + z
        OBVIOUS
      <3>2. k \in Int /\ (b + d) + i - 1 = k + d  BY <2>1, <2>3, <3>1
      <3>3. m \in Int /\ m = (b + d) + i - 1  BY <2>1, <2>3, <3>1
      <3> QED  BY <3>2, <3>3
    <2>5. k >= 1 /\ k <= n  BY <2>1, <2>3
    <2> HIDE DEF k, m
    <2>6. k \in 1 .. n /\ m \in 1 .. d + n /\ ~(m <= d) /\ m - d = k
      BY <2>3, <2>4, <2>5
    <2> USE DEF k, m, n
    <2>2. l[i] = u[m] /\ r[i] = v[k]  BY <1>1, <1>2, <1>7
    <2> HIDE DEF k, m
    <2>7. u[m] = v[k]  BY <1>5, <2>6
    <2> QED  BY <2>2, <2>7
  <1>9. l \in Seq(S) /\ r \in Seq(S)  BY <1>1, <1>2
  <1> QED  BY <1>7, <1>8, <1>9, SeqEqual

\* Every part of a text holds what it is made of.
LEMMA PartHeld ==
  ASSUME NEW S, NEW s \in Seq(S), NEW t \in Seq(S), NEW u, Joined(u, s, t)
  PROVE  Holds(u, s, 0) /\ Holds(u, t, Len(s))
  <1>1. /\ u \in Seq(S) /\ Len(u) = Len(s) + Len(t) /\ Len(s) \in Nat /\ Len(t) \in Nat
        /\ \A i \in 1 .. Len(s) + Len(t) : u[i] = IF i <= Len(s) THEN s[i] ELSE t[i - Len(s)]
    BY JoinedIs
  <1>2. ASSUME NEW i \in 1 .. Len(s)  PROVE At(u, i + 0) = At(s, i)
    <2>1. i \in 1 .. Len(u) /\ i + 0 = i /\ i <= Len(s)  BY <1>1
    <2>2. u[i] = s[i]  BY <1>1, <2>1
    <2> QED  BY <2>1, <2>2 DEF At
  <1>3. ASSUME NEW i \in 1 .. Len(t)  PROVE At(u, i + Len(s)) = At(t, i)
    <2> DEFINE k == i + Len(s)
    <2>1. k \in 1 .. Len(u) /\ ~(k <= Len(s)) /\ k - Len(s) = i  BY <1>1
    <2> HIDE DEF k
    <2>2. u[k] = t[i]  BY <1>1, <2>1
    <2>3. At(u, k) = At(t, i)  BY <2>1, <2>2 DEF At
    <2> QED  BY <2>3 DEF k
  <1> QED  BY <1>1, <1>2, <1>3 DEF Holds

\* A text between two others is held by the three of them.
LEMMA MiddleHeld ==
  ASSUME NEW S, NEW lead \in Seq(S), NEW w \in Seq(S), NEW more \in Seq(S),
         NEW v, Joined(v, w, more), NEW u, Joined(u, lead, v)
  PROVE  Holds(u, w, Len(lead))
  <1> DEFINE d == Len(lead)
  <1>1. v \in Seq(S) /\ Holds(v, w, 0)  BY JoinedIs, PartHeld
  <1>2. u \in Seq(S) /\ Holds(u, v, d)  BY <1>1, JoinedIs, PartHeld
  <1> HIDE DEF d
  <1>3. /\ Len(w) \in Nat /\ Len(v) \in Nat /\ Len(u) \in Nat /\ d \in Nat
        /\ d + Len(v) <= Len(u) /\ Len(w) <= Len(v)
        /\ \A i \in 1 .. Len(w) : At(v, i + 0) = At(w, i)
        /\ \A i \in 1 .. Len(v) : At(u, i + d) = At(v, i)
    BY <1>1, <1>2 DEF Holds
  <1>4. ASSUME NEW i \in 1 .. Len(w)  PROVE At(u, i + d) = At(w, i)
    <2>1. i \in 1 .. Len(v) /\ i + 0 = i  BY <1>3
    <2> QED  BY <1>3, <2>1
  <1>5. Holds(u, w, d)  BY <1>3, <1>4 DEF Holds
  <1> QED  BY <1>5 DEF d

LEMMA BlanksHeld ==
  ASSUME NEW S, NEW lead \in Seq(S), NEW t \in Seq(S), Blanks(lead, Len(lead)),
         NEW u, Joined(u, lead, t)
  PROVE  Blanks(u, Len(lead))
  <1> DEFINE blank == " "
  <1>1. \A k \in 1 .. Len(lead) : At(lead, k) = blank  BY DEF Blanks
  <1>2. Holds(u, lead, 0) /\ Len(lead) \in Nat  BY PartHeld
  <1> HIDE DEF blank
  <1>3. ASSUME NEW k \in 1 .. Len(lead)  PROVE At(u, k) = blank
    <2>1. At(u, k + 0) = At(lead, k) /\ k + 0 = k  BY <1>2 DEF Holds
    <2> QED  BY <1>1, <2>1
  <1> QED  BY <1>3 DEF Blanks, blank

\* What the client sends behind the value.
BlankFrom(t, i) == \A k \in i .. Len(t) : At(t, k) = " "

LEMMA BlanksLeft ==
  ASSUME NEW S, NEW t \in Seq(S), NEW i \in 1 .. Len(t) + 1, BlankFrom(t, i)
  PROVE  Rest(t, i) \in Seq(S) /\ Blanks(Rest(t, i), Len(Rest(t, i)))
  <1> DEFINE blank == " "
             q == Rest(t, i)
  <1>1. /\ q \in Seq(S) /\ Len(q) = Len(t) + 1 - i
        /\ \A k \in 1 .. Len(t) + 1 - i : q[k] = t[i + k - 1]
    BY RestIs
  <1>2. \A k \in i .. Len(t) : At(t, k) = blank  BY DEF BlankFrom
  <1>3. Len(t) \in Nat /\ i \in Nat /\ i >= 1  OBVIOUS
  <1> HIDE DEF blank, q
  <1>4. ASSUME NEW k \in 1 .. Len(q)  PROVE At(q, k) = blank
    <2> DEFINE j == i + k - 1
    <2>1. k \in 1 .. Len(t) + 1 - i /\ k \in Nat  BY <1>1, <1>3
    <2>2. q[k] = t[j]  BY <1>1, <2>1
    <2>3. j \in i .. Len(t) /\ j \in 1 .. Len(t)  BY <1>3, <2>1
    <2> HIDE DEF j
    <2>4. At(t, j) = t[j] /\ At(q, k) = q[k]  BY <2>3 DEF At
    <2> QED  BY <1>2, <2>2, <2>3, <2>4
  <1>5. Blanks(q, Len(q))  BY <1>4 DEF Blanks, blank
  <1> QED  BY <1>1, <1>5 DEF q

\* What a client sends.
LEMMA TextsAre ==
  ASSUME NEW r \in Requests
  PROVE  LET p == ParseStream(r.text) IN
           /\ r.text \in Seq(STRING)
           /\ r.kind = "malformed" => p.rule = "failed" /\ Inside(r.text, p.at)
           /\ r.kind # "malformed" =>
                p.rule = "done" /\ Bracketed(p) /\ Means(p, r) /\ BlankFrom(r.text, p.at)
  <1> DEFINE t == r.text
             p == ParseStream(t)
             blank == " "
             point == "."
  <1>1. t \in Seq(STRING)  BY RpcAssumption
  <1>2. /\ r.kind = "malformed" =>
             /\ p.rule = "failed" /\ p.at \in 1 .. Len(t)
             /\ p.at = Len(t) => t[p.at] # point
        /\ r.kind # "malformed" =>
             /\ p.rule = "done" /\ p.value.type \in {"array", "object"} /\ Means(p, r)
             /\ \A i \in p.at .. Len(t) : t[i] = blank
    BY TextAssumption, Zenon
  <1>3. Len(t) \in Nat /\ p.at \in Positions(t) /\ Positions(t) = 1 .. Len(t) + 5
    <2>1. PICK run : Runs(t, run)  BY <1>1, ParserRuns
    <2>2. Parsing(t, p)  BY <1>1, <2>1, RunEnds
    <2> QED  BY <1>1, <2>2, Places DEF Parsing
  <1> HIDE DEF p, blank, point
  <1>4. ASSUME r.kind = "malformed"  PROVE p.rule = "failed" /\ Inside(t, p.at)
    <2>1. /\ p.rule = "failed" /\ p.at \in 1 .. Len(t) /\ (p.at = Len(t) => t[p.at] # point)
      BY <1>2, <1>4
    <2>2. p.at <= Len(t) /\ At(t, p.at) = t[p.at]  BY <1>3, <2>1 DEF At
    <2>3. p.at = Len(t) => At(t, p.at) # point  BY <2>1, <2>2
    <2> QED  BY <2>1, <2>2, <2>3 DEF Inside, point
  <1>5. ASSUME r.kind # "malformed"
        PROVE  p.rule = "done" /\ Bracketed(p) /\ Means(p, r) /\ BlankFrom(t, p.at)
    <2>1. /\ p.rule = "done" /\ p.value.type \in {"array", "object"} /\ Means(p, r)
          /\ \A i \in p.at .. Len(t) : t[i] = blank
      BY <1>2, <1>5
    <2>2. ASSUME NEW i \in p.at .. Len(t)  PROVE At(t, i) = blank
      <3>1. i \in 1 .. Len(t)  BY <1>3
      <3> QED  BY <2>1, <2>2, <3>1 DEF At
    <2>3. BlankFrom(t, p.at)  BY <2>2 DEF BlankFrom, blank
    <2> QED  BY <2>1, <2>3 DEF Bracketed
  <1> QED  BY <1>1, <1>4, <1>5 DEF p

\* The meaning is in the value, not in where it was found.
LEMMA SameMeaning ==
  ASSUME NEW p, NEW q, NEW r, p.value = q.value, p.members = q.members, Means(q, r)
  PROVE  Means(p, r)
  BY DEF Means

\* Blanks, and then this.
Behind(u, v) == \E lead \in Seq(STRING) : Blanks(lead, Len(lead)) /\ Joined(u, lead, v)

\* What a read makes of the first request, r, not yet taken, of which the text may be
\* there only in part, or with more behind it.
LEMMA TextRead ==
  ASSUME NEW r \in Requests, NEW more \in Seq(STRING), NEW text \in Seq(STRING),
         NEW behind \in Seq(STRING), NEW u, Joined(u, text, behind),
         NEW v, Joined(v, r.text, more), Behind(u, v), NEW p, p = ParseStream(text)
  PROVE  /\ p.rule = "done" => Means(p, r) /\ Behind(Rest(text, p.at) \o behind, more)
         /\ p.rule = "failed" /\ p.at # Len(text) + 1 /\ r.kind # "malformed" =>
              FragileEnd(text)
  <1>0. PICK lead \in Seq(STRING) : Blanks(lead, Len(lead)) /\ Joined(u, lead, v)
    BY DEF Behind
  <1> DEFINE w == r.text
             q == ParseStream(w)
             d == Len(lead)
  <1>1. /\ w \in Seq(STRING)
        /\ r.kind = "malformed" => q.rule = "failed" /\ Inside(w, q.at)
        /\ r.kind # "malformed" =>
             q.rule = "done" /\ Bracketed(q) /\ Means(q, r) /\ BlankFrom(w, q.at)
    BY TextsAre
  <1>v. Joined(v, w, more)  OBVIOUS
  <1>q. q = ParseStream(w)  OBVIOUS
  <1>d. d = Len(lead) /\ d \in Nat  OBVIOUS
  <1> HIDE DEF w, q
  <1>2. v \in Seq(STRING) /\ u \in Seq(STRING)  BY <1>1, <1>v, JoinedIs
  <1>3. Holds(u, w, d) /\ Holds(u, text, 0) /\ Blanks(u, d)
    <2>1. Holds(u, w, d)  BY <1>0, <1>1, <1>v, MiddleHeld
    <2>2. Holds(u, text, 0)  BY PartHeld
    <2>3. Blanks(u, d)  BY <1>0, <1>2, BlanksHeld
    <2> QED  BY <2>1, <2>2, <2>3
  <1> HIDE DEF d
  <1>4. CASE r.kind = "malformed"
    <2>1. ParseStream(u).rule = "failed"  BY <1>1, <1>2, <1>3, <1>4, <1>q, WrongInPart
    <2>2. SUFFICES ASSUME p.rule = "done"  PROVE FALSE
      BY <1>4
    <2>3. Alike(ParseStream(u), p, 0)  BY <1>2, <1>3, <2>1, <2>2, FoundInPart
    <2> QED  BY <2>1, <2>2, <2>3 DEF Alike
  <1>5. CASE r.kind # "malformed"
    <2>1. q.rule = "done" /\ Bracketed(q) /\ Means(q, r) /\ BlankFrom(w, q.at)
      BY <1>1, <1>5
    <2>2. Alike(ParseStream(u), q, d)  BY <1>1, <1>2, <1>3, <1>q, <2>1, FoundBehind
    <2>3. ParseStream(u).rule = "done" /\ Bracketed(ParseStream(u))
      BY <2>1, <2>2 DEF Alike, Bracketed
    <2>4. ASSUME p.rule = "done"
          PROVE  Means(p, r) /\ Behind(Rest(text, p.at) \o behind, more)
      <3>1. Alike(ParseStream(u), p, 0) /\ Bracketed(p)
        BY <1>2, <1>3, <2>3, <2>4, FoundInPart
      <3>2. p.value = q.value /\ p.members = q.members /\ p.at + 0 = q.at + d
        BY <2>2, <3>1 DEF Alike
      <3>3. Means(p, r)  BY <2>1, <3>2, SameMeaning
      <3>4. p.at \in 1 .. Len(text) + 1  BY <2>4, <3>1, ClosedInside
      <3>5. q.at \in 1 .. Len(w) + 1  BY <1>1, <1>q, <2>1, ClosedInside
      <3> DEFINE left == Rest(w, q.at)
      <3>6. left \in Seq(STRING) /\ Blanks(left, Len(left))  BY <1>1, <2>1, <3>5, BlanksLeft
      <3>7. Rest(text, p.at) \o behind = left \o more
        <4> DEFINE a == p.at
                   b == q.at
        <4>1. a = b + Len(lead)  BY <1>d, <3>2, <3>4, <3>5
        <4>2. a \in 1 .. Len(text) + 1 /\ b \in 1 .. Len(w) + 1  BY <3>4, <3>5
        <4> HIDE DEF a, b
        <4>3. Rest(text, a) \o behind = Rest(w, b) \o more
          <5> DEFINE l == Rest(text, a) \o behind
                     k == Rest(w, b) \o more
          <5>1. Joined(l, Rest(text, a), behind) /\ Joined(k, Rest(w, b), more)
            BY DEF Joined
          <5>2. w \in Seq(STRING)  BY <1>1
          <5> HIDE DEF left, l, k
          <5>3. l = k  BY <5>1, <5>2, <1>0, <1>v, <4>1, <4>2, LeftOf
          <5> QED  BY <5>3 DEF l, k
        <4> QED  BY <4>3 DEF a, b
      <3>8. Behind(Rest(text, p.at) \o behind, more)
        <4> HIDE DEF left
        <4> QED  BY <3>6, <3>7 DEF Behind, Joined
      <3> QED  BY <3>3, <3>8
    <2>5. ASSUME p.rule = "failed", p.at # Len(text) + 1
          PROVE  FragileEnd(text)
      <3>1. ~Inside(text, p.at)
        <4>1. SUFFICES ASSUME Inside(text, p.at)  PROVE FALSE
          OBVIOUS
        <4>2. ParseStream(u).rule = "failed"
          BY <1>2, <1>3, <2>5, <4>1, WrongInPart, NoBlanks
        <4> QED  BY <2>3, <4>2
      <3> QED  BY <2>5, <3>1, CutOff
    <2> QED  BY <2>4, <2>5
  <1> QED  BY <1>4, <1>5

\* Where all requests are taken, nothing is found but the end.
LEMMA BlanksRead ==
  ASSUME NEW S, NEW lead \in Seq(S), Blanks(lead, Len(lead)), NEW text \in Seq(S),
         NEW behind \in Seq(S), Joined(lead, text, behind)
  PROVE  ParseStream(text).rule = "failed" /\ ParseStream(text).at = Len(text) + 1
  <1> DEFINE blank == " "
  <1>1. \A k \in 1 .. Len(lead) : At(lead, k) = blank  BY DEF Blanks
  <1>2. Holds(lead, text, 0) /\ Len(text) \in Nat /\ Len(lead) \in Nat  BY PartHeld
  <1> HIDE DEF blank
  <1>3. ASSUME NEW k \in 1 .. Len(text)  PROVE At(text, k) = blank
    <2>1. At(lead, k + 0) = At(text, k) /\ k + 0 = k /\ k \in 1 .. Len(lead)
      BY <1>2 DEF Holds
    <2> QED  BY <1>1, <2>1
  <1>4. Blanks(text, Len(text))  BY <1>3 DEF Blanks, blank
  <1> QED  BY <1>4, BlanksAwait

\* rest[i] is what the client has sent behind its request i.
Texts(c, rest) ==
  /\ \A i \in 0 .. Len(sent[c]) : rest[i] \in Seq(STRING)
  /\ rest[Len(sent[c])] = << >>
  /\ \A i \in 1 .. Len(sent[c]) : Joined(rest[i - 1], sent[c][i].text, rest[i])

\* The buffer and what is to be read hold the requests not yet taken, behind blanks.
Untaken(c) ==
  /\ taken[c] <= Len(sent[c])
  /\ \E rest : Texts(c, rest) /\ Behind(buffer[c] \o wire[c], rest[taken[c]])

LEMMA JoinedTwice ==
  ASSUME NEW S, NEW b \in Seq(S), NEW f \in Seq(S), NEW g \in Seq(S),
         NEW text, Joined(text, b, f), NEW w, Joined(w, f, g), NEW u, Joined(u, b, w)
  PROVE  Joined(u, text, g)
  <1>1. (b \o f) \o g = b \o (f \o g)  BY ConcatAssociative
  <1>2. text = b \o f /\ w = f \o g /\ u = b \o w  BY Zenon DEF Joined
  <1>3. u = text \o g  BY <1>1, <1>2, Zenon
  <1> QED  BY <1>3, Zenon DEF Joined

\* A read takes some of what is there.
LEMMA Divided ==
  ASSUME NEW S, NEW b \in Seq(S), NEW w \in Seq(S), NEW n \in 1 .. Len(w),
         NEW text, Joined(text, b, SubSeq(w, 1, n)), NEW u, Joined(u, b, w)
  PROVE  /\ text \in Seq(S) /\ Len(text) = Len(b) + n
         /\ Rest(w, n + 1) \in Seq(S) /\ Len(Rest(w, n + 1)) = Len(w) - n
         /\ Joined(u, text, Rest(w, n + 1))
  <1> DEFINE first == SubSeq(w, 1, n)
             behind == Rest(w, n + 1)
  <1>1. Len(w) \in Nat /\ Len(b) \in Nat /\ n \in Nat /\ n >= 1 /\ n <= Len(w)  OBVIOUS
  <1>2. \A i \in 1 .. n : w[i] \in S  BY <1>1
  <1>3. first \in Seq(S) /\ Len(first) = n
    <2>1. first \in Seq(S) /\ Len(first) = n - 1 + 1
      BY <1>1, <1>2, SubSeqProperties
    <2>2. n - 1 + 1 = n  BY <1>1
    <2> QED  BY <2>1, <2>2
  <1>4. behind \in Seq(S) /\ Len(behind) = Len(w) - n
    <2> DEFINE a == n + 1
    <2>1. a \in 1 .. Len(w) + 1 /\ Len(w) + 1 - a = Len(w) - n  BY <1>1
    <2> HIDE DEF a
    <2>2. Rest(w, a) \in Seq(S) /\ Len(Rest(w, a)) = Len(w) + 1 - a
      BY <2>1, RestIs
    <2> QED  BY <2>1, <2>2 DEF a
  <1>5. w = first \o behind
    <2>1. 1 \in 1 .. Len(w) + 1 /\ n \in 1 - 1 .. Len(w) /\ Len(w) \in n .. Len(w)
      BY <1>1
    <2>2. first \o SubSeq(w, n + 1, Len(w)) = SubSeq(w, 1, Len(w))
      BY <1>1, <2>1, ConcatAdjacentSubSeq
    <2>3. SubSeq(w, 1, Len(w)) = w  OBVIOUS
    <2> QED  BY <2>2, <2>3 DEF Rest
  <1>6. Joined(w, first, behind)  BY <1>5 DEF Joined
  <1>7. Joined(text, b, first)  OBVIOUS
  <1> HIDE DEF first, behind
  <1>8. Joined(u, text, behind)  BY <1>3, <1>4, <1>6, <1>7, JoinedTwice
  <1>9. text \in Seq(S) /\ Len(text) = Len(b) + Len(first)
    <2>1. first \in Seq(S)  BY <1>3
    <2> QED  BY <2>1, <1>7, JoinedIs
  <1> QED  BY <1>3, <1>4, <1>8, <1>9 DEF behind

\* What a read takes from the first of them.
LEMMA UntakenRead ==
  ASSUME IInv, NEW c \in Clients, Untaken(c), NEW n \in 1 .. Len(wire[c]),
         NEW text, Joined(text, buffer[c], SubSeq(wire[c], 1, n)),
         NEW p, p = ParseStream(text)
  PROVE  /\ text \in Seq(STRING) /\ Len(text) = Len(buffer[c]) + n
         /\ p.rule = "done" =>
              /\ taken[c] < Len(sent[c]) /\ Means(p, sent[c][taken[c] + 1])
              /\ \E rest : Texts(c, rest) /\
                   Behind(Rest(text, p.at) \o Rest(wire[c], n + 1), rest[taken[c] + 1])
         /\ p.rule = "failed" /\ p.at # Len(text) + 1 =>
              \/ \E i \in taken[c] + 1 .. Len(sent[c]) : sent[c][i].kind = "malformed"
              \/ FragileEnd(text)
  <1> DEFINE k == taken[c]
             m == Len(sent[c])
             u == buffer[c] \o wire[c]
             behind == Rest(wire[c], n + 1)
  <1>1. /\ k \in Nat /\ m \in Nat /\ sent[c] \in Seq(Programs[c])
        /\ buffer[c] \in Seq(STRING) /\ wire[c] \in Seq(STRING)
    BY DEF IInv, Connection
  <1>2. k <= m  BY DEF Untaken
  <1>3. PICK rest : Texts(c, rest) /\ Behind(u, rest[k])  BY DEF Untaken
  <1>4. Joined(u, buffer[c], wire[c])  BY DEF Joined
  <1> HIDE DEF u
  <1>5. /\ text \in Seq(STRING) /\ Len(text) = Len(buffer[c]) + n
        /\ behind \in Seq(STRING) /\ Joined(u, text, behind)
    <2>1. n \in 1 .. Len(wire[c])  OBVIOUS
    <2>2. Joined(text, buffer[c], SubSeq(wire[c], 1, n))  OBVIOUS
    <2>3. buffer[c] \in Seq(STRING) /\ wire[c] \in Seq(STRING)  BY <1>1
    <2> HIDE DEF k, m, behind
    <2>4. text \in Seq(STRING) /\ Len(text) = Len(buffer[c]) + n
      BY <2>1, <2>2, <2>3, <1>4, Divided
    <2>5. /\ Rest(wire[c], n + 1) \in Seq(STRING)
          /\ Joined(u, text, Rest(wire[c], n + 1))
      BY <2>1, <2>2, <2>3, <1>4, Divided
    <2> QED  BY <2>4, <2>5 DEF behind
  <1> HIDE DEF behind
  <1>7. CASE k = m
    <2>1. rest[k] = << >>  BY <1>3, <1>7 DEF Texts
    <2>2. PICK lead \in Seq(STRING) : Blanks(lead, Len(lead)) /\ Joined(u, lead, rest[k])
      BY <1>3 DEF Behind
    <2>3. u = lead  BY <2>1, <2>2, ConcatEmptySeq DEF Joined
    <2>4. Joined(lead, text, behind)  BY <1>5, <2>3
    <2>5. p.rule = "failed" /\ p.at = Len(text) + 1  BY <1>5, <2>2, <2>4, BlanksRead
    <2> QED  BY <1>5, <2>5
  <1>8. CASE k < m
    <2> DEFINE r == sent[c][k + 1]
               more == rest[k + 1]
               v == rest[k]
    <2>1. k + 1 \in 1 .. m /\ k + 1 \in 0 .. m /\ k \in 0 .. m /\ (k + 1) - 1 = k
      BY <1>1, <1>8
    <2>2. more \in Seq(STRING) /\ Joined(v, r.text, more)  BY <1>3, <2>1 DEF Texts
    <2>3. r \in Requests
      <3>1. r \in Programs[c]  BY <1>1, <2>1
      <3> QED  BY <3>1, RpcAssumption
    <2>4. Behind(u, v)  BY <1>3
    <2>5. ASSUME r.kind = "malformed"
          PROVE  \E i \in taken[c] + 1 .. Len(sent[c]) : sent[c][i].kind = "malformed"
      <3>1. k + 1 \in taken[c] + 1 .. Len(sent[c])  BY <1>1, <1>8
      <3> QED  BY <2>5, <3>1
    <2> HIDE DEF r, more, v
    <2>6. /\ p.rule = "done" => Means(p, r) /\ Behind(Rest(text, p.at) \o behind, more)
          /\ p.rule = "failed" /\ p.at # Len(text) + 1 /\ r.kind # "malformed" =>
               FragileEnd(text)
      BY <1>5, <2>2, <2>3, <2>4, TextRead
    <2>7. p.rule = "done" => Means(p, sent[c][k + 1])
                             /\ Behind(Rest(text, p.at) \o behind, rest[k + 1])
      BY <2>6 DEF r, more
    <2> QED  BY <1>3, <1>5, <1>8, <2>5, <2>6, <2>7 DEF behind
  <1>9. k = m \/ k < m
    <2> HIDE DEF k, m
    <2> QED  BY <1>1, <1>2
  <1> QED  BY <1>7, <1>8, <1>9

-----------------------------------------------------------------------------
(* The requests not yet taken                                               *)

\* The requests are there as long as nothing of them is lost.  A watcher is pending
\* only while there is something to read, or nothing will come.
TextInv ==
  \A c \in Clients :
    /\ state[c] # "closed" /\ c \notin lost => Untaken(c)
    /\ c \in pending => wire[c] # << >> \/ c \in eof \cup broken

SameText(c) ==
  /\ sent'[c] = sent[c] /\ taken'[c] = taken[c]
  /\ buffer'[c] = buffer[c] /\ wire'[c] = wire[c]

LEMMA UntakenSame ==
  ASSUME NEW c \in Clients, Untaken(c), SameText(c)
  PROVE  Untaken(c)'
  BY DEF Untaken, Texts, SameText

\* The invariant holds at first, and every step keeps it.
LEMMA TextInit == Init => TextInv
  <1> SUFFICES ASSUME Init, NEW c \in Clients
               PROVE  Untaken(c) /\ c \notin pending
    BY DEF TextInv
  <1>1. /\ buffer[c] = << >> /\ wire[c] = << >> /\ sent[c] = << >> /\ taken[c] = 0
        /\ pending = {}
    BY DEF Init
  <1> DEFINE rest == [i \in {0} |-> << >>]
  <1>2. Len(<< >>) = 0 /\ << >> \in Seq(STRING) /\ rest[0] = << >>  OBVIOUS
  <1>3. Texts(c, rest)  BY <1>1, <1>2 DEF Texts
  <1>4. << >> \o << >> = << >>  BY <1>2, ConcatEmptySeq
  <1>5. Blanks(<< >>, 0)  BY NoBlanks
  <1>6. Behind(<< >>, << >>)  BY <1>2, <1>4, <1>5 DEF Behind, Joined
  <1>7. Untaken(c)
    <2> HIDE DEF rest
    <2> QED  BY <1>1, <1>2, <1>3, <1>4, <1>6 DEF Untaken
  <1> QED  BY <1>1, <1>7

LEMMA JoinedLonger ==
  ASSUME NEW S, NEW s \in Seq(S), NEW t \in Seq(S), NEW u \in Seq(S), NEW more \in Seq(S),
         Joined(u, s, t)
  PROVE  Joined(u \o more, s, t \o more)
  BY ConcatAssociative DEF Joined

\* A client sends one request more.
LEMMA SendText ==
  ASSUME IInv, NEW c \in Clients, Untaken(c), NEW r \in Programs[c],
         sent'[c] = Append(sent[c], r), wire'[c] = wire[c] \o r.text,
         buffer'[c] = buffer[c], taken'[c] = taken[c]
  PROVE  Untaken(c)'
  <1> DEFINE m == Len(sent[c])
             t == r.text
  <1>1. /\ sent[c] \in Seq(Programs[c]) /\ m \in Nat /\ taken[c] \in Nat
        /\ buffer[c] \in Seq(STRING) /\ wire[c] \in Seq(STRING)
    BY DEF IInv, Connection
  <1>2. t \in Seq(STRING)  BY RpcAssumption
  <1>3. PICK rest : Texts(c, rest) /\ Behind(buffer[c] \o wire[c], rest[taken[c]])
    BY DEF Untaken
  <1>4. /\ \A i \in 0 .. m : rest[i] \in Seq(STRING)
        /\ rest[m] = << >>
        /\ \A i \in 1 .. m : Joined(rest[i - 1], sent[c][i].text, rest[i])
    BY <1>3 DEF Texts
  <1>5. /\ Len(sent'[c]) = m + 1 /\ sent'[c][m + 1] = r
        /\ \A i \in 1 .. m : sent'[c][i] = sent[c][i]
    BY <1>1, AppendProperties
  <1>6. taken[c] \in 0 .. m  BY <1>1 DEF Untaken
  <1> HIDE DEF t, m
  <1>7. PICK more : (\A i \in 0 .. m : more[i] = rest[i] \o t) /\ more[m + 1] = << >>
    <2> DEFINE f == [i \in 0 .. m + 1 |-> IF i \in 0 .. m THEN rest[i] \o t ELSE << >>]
    <2>1. m + 1 \notin 0 .. m /\ m + 1 \in 0 .. m + 1  BY <1>1 DEF m
    <2>2. \A i \in 0 .. m : i \in 0 .. m + 1  BY <1>1 DEF m
    <2>3. (\A i \in 0 .. m : f[i] = rest[i] \o t) /\ f[m + 1] = << >>  BY <2>1, <2>2
    <2> HIDE DEF f
    <2> QED  BY <2>3
  <1>8. ASSUME NEW i \in 0 .. m + 1  PROVE more[i] \in Seq(STRING)
    <2>1. CASE i \in 0 .. m
      <3>1. rest[i] \o t \in Seq(STRING)  BY <1>2, <1>4, <2>1, ConcatProperties
      <3> QED  BY <1>7, <2>1, <3>1
    <2>2. CASE i = m + 1
      <3>1. << >> \in Seq(STRING)  OBVIOUS
      <3>2. more[i] = << >>  BY <1>7, <2>2
      <3> QED  BY <3>1, <3>2
    <2>3. i \in 0 .. m \/ i = m + 1  BY <1>1 DEF m
    <2> QED  BY <2>1, <2>2, <2>3
  <1>9. ASSUME NEW i \in 1 .. m + 1
        PROVE  Joined(more[i - 1], sent'[c][i].text, more[i])
    <2>1. CASE i \in 1 .. m
      <3> DEFINE a == rest[i - 1]
                 x == sent[c][i].text
                 b == rest[i]
      <3>1. i - 1 \in 0 .. m /\ i \in 0 .. m  BY <1>1, <2>1 DEF m
      <3>2. Joined(a, x, b) /\ a \in Seq(STRING) /\ b \in Seq(STRING)
        BY <1>4, <2>1, <3>1
      <3>3. x \in Seq(STRING)
        <4>1. sent[c][i] \in Programs[c]  BY <1>1, <2>1 DEF m
        <4>2. sent[c][i] \in Requests  BY <4>1, RpcAssumption
        <4> QED  BY <4>2, RpcAssumption
      <3>4. more[i - 1] = a \o t /\ more[i] = b \o t  BY <1>7, <3>1
      <3> HIDE DEF a, x, b
      <3>5. Joined(a \o t, x, b \o t)  BY <1>2, <3>2, <3>3, JoinedLonger
      <3> QED  BY <1>5, <2>1, <3>4, <3>5 DEF x
    <2>2. CASE i = m + 1
      <3>1. i - 1 = m /\ m \in 0 .. m  BY <1>1, <2>2 DEF m
      <3>2. more[m] = << >> \o t /\ more[i] = << >>  BY <1>4, <1>7, <2>2, <3>1
      <3>3. << >> \o t = t /\ t \o << >> = t  BY <1>2, ConcatEmptySeq
      <3>4. Joined(t, t, << >>)  BY <3>3 DEF Joined
      <3>5. sent'[c][i].text = t  BY <1>5, <2>2 DEF t
      <3> QED  BY <3>1, <3>2, <3>3, <3>4, <3>5
    <2>3. i \in 1 .. m \/ i = m + 1  BY <1>1 DEF m
    <2> QED  BY <2>1, <2>2, <2>3
  <1>10. Texts(c, more)'
    <2>1. Len(sent'[c]) = m + 1  BY <1>5
    <2> QED  BY <1>7, <1>8, <1>9, <2>1 DEF Texts
  <1>11. Behind(buffer'[c] \o wire'[c], more[taken[c]])
    <2> DEFINE v == rest[taken[c]]
               u == buffer[c] \o wire[c]
    <2>1. v \in Seq(STRING) /\ more[taken[c]] = v \o t  BY <1>4, <1>6, <1>7
    <2>2. u \in Seq(STRING) /\ Behind(u, v)  BY <1>1, <1>3, ConcatProperties
    <2>3. buffer'[c] \o wire'[c] = u \o t
      <3>1. Joined(u, buffer[c], wire[c])  BY DEF Joined
      <3>2. Joined(u \o t, buffer[c], wire[c] \o t)  BY <1>1, <1>2, <2>2, <3>1, JoinedLonger
      <3>3. buffer'[c] \o wire'[c] = buffer[c] \o (wire[c] \o t)  BY DEF t
      <3> QED  BY <3>2, <3>3 DEF Joined
    <2> HIDE DEF u, v
    <2>4. PICK lead \in Seq(STRING) : Blanks(lead, Len(lead)) /\ Joined(u, lead, v)
      BY <2>2 DEF Behind
    <2>5. Joined(u \o t, lead, v \o t)  BY <1>2, <2>1, <2>2, <2>4, JoinedLonger
    <2>6. Behind(u \o t, v \o t)  BY <2>4, <2>5 DEF Behind
    <2> QED  BY <2>1, <2>3, <2>6
  <1>12. taken'[c] <= Len(sent'[c])  BY <1>1, <1>5, <1>6 DEF m
  <1> QED  BY <1>10, <1>11, <1>12 DEF Untaken

\* Of blanks, blanks are left.
LEMMA BlanksKept ==
  ASSUME NEW q \in Seq(STRING), NEW g \in Seq(STRING), Len(g) <= Len(q),
         \A i \in 1 .. Len(g) : g[i] = q[i],
         NEW behind \in Seq(STRING), NEW u, Joined(u, q, behind), Behind(u, << >>),
         NEW v, Joined(v, g, behind)
  PROVE  Behind(v, << >>)
  <1> DEFINE blank == " "
  <1>1. PICK lead \in Seq(STRING) : Blanks(lead, Len(lead)) /\ Joined(u, lead, << >>)
    BY DEF Behind
  <1>2. u = lead  BY <1>1, ConcatEmptySeq DEF Joined
  <1>3. \A k \in 1 .. Len(u) : At(u, k) = blank  BY <1>1, <1>2 DEF Blanks
  <1>4. /\ u \in Seq(STRING) /\ Len(u) = Len(q) + Len(behind)
        /\ \A i \in 1 .. Len(q) + Len(behind) :
             u[i] = IF i <= Len(q) THEN q[i] ELSE behind[i - Len(q)]
    BY JoinedIs
  <1>5. /\ v \in Seq(STRING) /\ Len(v) = Len(g) + Len(behind)
        /\ \A i \in 1 .. Len(g) + Len(behind) :
             v[i] = IF i <= Len(g) THEN g[i] ELSE behind[i - Len(g)]
    BY JoinedIs
  <1>6. Len(q) \in Nat /\ Len(g) \in Nat /\ Len(behind) \in Nat  OBVIOUS
  <1>7. ASSUME NEW i \in 1 .. Len(u)  PROVE u[i] = blank
    <2> HIDE DEF blank
    <2> QED  BY <1>3 DEF At
  <1> HIDE DEF blank
  <1>8. ASSUME NEW i \in 1 .. Len(v)  PROVE At(v, i) = blank
    <2>1. i \in 1 .. Len(g) + Len(behind) /\ At(v, i) = v[i]  BY <1>5 DEF At
    <2>2. CASE i <= Len(g)
      <3>1. v[i] = q[i] /\ i \in 1 .. Len(g)  BY <1>5, <1>6, <2>1, <2>2
      <3>2. i \in 1 .. Len(q) + Len(behind) /\ i <= Len(q)  BY <1>6, <3>1
      <3>3. u[i] = q[i] /\ i \in 1 .. Len(u)  BY <1>4, <3>2
      <3> QED  BY <1>7, <2>1, <3>1, <3>3
    <2>3. CASE ~(i <= Len(g))
      <3> DEFINE k == i - Len(g) + Len(q)
      <3>1. /\ k \in 1 .. Len(q) + Len(behind) /\ ~(k <= Len(q))
            /\ k - Len(q) = i - Len(g)
        BY <1>6, <2>1, <2>3
      <3> HIDE DEF k
      <3>2. v[i] = behind[i - Len(g)]  BY <1>5, <2>1, <2>3
      <3>3. u[k] = behind[i - Len(g)] /\ k \in 1 .. Len(u)  BY <1>4, <3>1
      <3> QED  BY <1>7, <2>1, <3>2, <3>3
    <2> QED  BY <2>2, <2>3
  <1>9. Blanks(v, Len(v))  BY <1>8 DEF Blanks, blank
  <1>10. Joined(v, v, << >>)  BY <1>5, ConcatEmptySeq DEF Joined
  <1> QED  BY <1>5, <1>9, <1>10 DEF Behind

LEMMA ReadLength ==
  ASSUME IInv, NEW c \in Clients, NEW n \in 1 .. Min({max_read_size(c), Len(wire[c])})
  PROVE  n \in 1 .. Len(wire[c])
  <1> DEFINE T == {max_read_size(c), Len(wire[c])}
  <1>1. Len(wire[c]) \in Nat /\ max_read_size(c) \in Nat
    BY RoomToRead DEF IInv, Connection
  <1>2. Min(T) <= Len(wire[c]) /\ Min(T) \in Nat  BY <1>1, MinType
  <1> QED  BY <1>1, <1>2

\* What a read of n symbols does to a connection.
LEMMA ReceivedBy ==
  ASSUME IInv, NEW c \in Clients, NEW n \in 1 .. Len(wire[c]), Received(c, n)
  PROVE  LET text == buffer[c] \o SubSeq(wire[c], 1, n)
             p == ParseStream(text) IN
           /\ wire'[c] = Rest(wire[c], n + 1)
           /\ \A d \in Clients \ {c} : /\ state'[d] = state[d] /\ buffer'[d] = buffer[d]
                                       /\ wire'[d] = wire[d] /\ taken'[d] = taken[d]
           /\ \/ /\ p.rule = "done" /\ state' = state
                 /\ buffer'[c] = Shifted(text, p.at) /\ taken'[c] = taken[c] + 1
                 /\ lost' = IF Drops(c, text, p.at) THEN lost \cup {c} ELSE lost
              \/ /\ state' = state /\ lost' = lost
                 /\ buffer'[c] = text /\ taken' = taken
              \/ /\ p.rule = "failed" /\ p.at # Len(text) + 1 /\ lost' = lost
                 /\ state'[c] = "closed" /\ taken' = taken
  <1> DEFINE text == buffer[c] \o SubSeq(wire[c], 1, n)
             p == ParseStream(text)
  <1>1. \/ TakeValue(c, text, p)
        \/ AwaitRest(c, text, p) \/ BlockInWrite(c, text, p)
        \/ RefuseText(c, text, p)
    BY DEF Received
  <1>2. /\ DOMAIN state = Clients /\ DOMAIN buffer = Clients
        /\ DOMAIN wire = Clients /\ DOMAIN taken = Clients
    BY DEF IInv, DomainsOK, Of
  <1>3. wire' = [wire EXCEPT ![c] = SubSeq(@, n + 1, Len(@))]  BY DEF Received
  <1>4. /\ wire'[c] = Rest(wire[c], n + 1)
        /\ \A d \in Clients \ {c} : wire'[d] = wire[d]
    BY <1>2, <1>3 DEF Rest
  <1> HIDE DEF text, p
  <1>5. CASE TakeValue(c, text, p)
    <2>1. /\ p.rule = "done" /\ buffer' = [buffer EXCEPT ![c] = Shifted(text, p.at)]
          /\ taken' = [taken EXCEPT ![c] = @ + 1] /\ UNCHANGED state
          /\ lost' = IF Drops(c, text, p.at) THEN lost \cup {c} ELSE lost
      BY <1>5 DEF TakeValue
    <2>2. /\ buffer'[c] = Shifted(text, p.at) /\ taken'[c] = taken[c] + 1 /\ state' = state
          /\ \A d \in Clients \ {c} : buffer'[d] = buffer[d] /\ taken'[d] = taken[d]
      BY <1>2, <2>1
    <2> QED  BY <1>4, <2>1, <2>2 DEF text, p
  <1>6. CASE AwaitRest(c, text, p) \/ BlockInWrite(c, text, p)
    <2>1. buffer' = [buffer EXCEPT ![c] = text] /\ UNCHANGED <<state, taken, lost>>
      BY <1>6 DEF AwaitRest, BlockInWrite
    <2>2. buffer'[c] = text /\ \A d \in Clients \ {c} : buffer'[d] = buffer[d]
      BY <1>2, <2>1
    <2> QED  BY <1>4, <2>1, <2>2 DEF text, p
  <1>7. CASE RefuseText(c, text, p)
    <2>1. /\ p.rule = "failed" /\ p.at # Len(text) + 1
          /\ state' = [state EXCEPT ![c] = "closed"] /\ buffer' = [buffer EXCEPT ![c] = << >>]
          /\ UNCHANGED <<taken, lost>>
      BY <1>7 DEF RefuseText, close_connection
    <2>2. /\ state'[c] = "closed"
          /\ \A d \in Clients \ {c} : state'[d] = state[d] /\ buffer'[d] = buffer[d]
      BY <1>2, <2>1
    <2> QED  BY <1>4, <2>1, <2>2 DEF text, p
  <1> QED  BY <1>1, <1>5, <1>6, <1>7 DEF text, p

\* A read keeps it: what is taken is the first request, and what the shift leaves of
\* the rest moves to the front.
LEMMA ReceivedTexts ==
  ASSUME IInv, NEW c \in Clients, Untaken(c), sent' = sent, NEW n \in 1 .. Len(wire[c]),
         Received(c, n), state'[c] # "closed", c \notin lost'
  PROVE  Untaken(c)'
  <1> DEFINE text == buffer[c] \o SubSeq(wire[c], 1, n)
             p == ParseStream(text)
             u == buffer[c] \o wire[c]
             behind == Rest(wire[c], n + 1)
  <1>1. Joined(text, buffer[c], SubSeq(wire[c], 1, n)) /\ Joined(u, buffer[c], wire[c])
    BY DEF Joined
  <1>2. /\ wire'[c] = behind
        /\ \/ /\ p.rule = "done" /\ buffer'[c] = Shifted(text, p.at)
              /\ taken'[c] = taken[c] + 1 /\ ~Drops(c, text, p.at)
           \/ buffer'[c] = text /\ taken' = taken
    BY ReceivedBy
  <1>3. buffer[c] \in Seq(STRING) /\ wire[c] \in Seq(STRING)
    BY DEF IInv, Connection
  <1>t. taken[c] \in Nat /\ Len(sent[c]) \in Nat  BY DEF IInv, Connection
  <1>p. p = ParseStream(text)  OBVIOUS
  <1>u. u = buffer[c] \o wire[c]  OBVIOUS
  <1> HIDE DEF text, p, u, behind
  <1>4. ASSUME p.rule = "done", buffer'[c] = Shifted(text, p.at), taken'[c] = taken[c] + 1,
               ~Drops(c, text, p.at)
        PROVE  Untaken(c)'
    <2> DEFINE rest_of_text == Rest(text, p.at)
               left == Shifted(text, p.at)
    <2>1. /\ taken[c] < Len(sent[c])
          /\ \E rest : Texts(c, rest) /\ Behind(rest_of_text \o behind, rest[taken[c] + 1])
      BY <1>1, <1>4, <1>p, UntakenRead DEF behind
    <2>2. PICK rest :
            Texts(c, rest) /\ Behind(rest_of_text \o behind, rest[taken[c] + 1])
      BY <2>1
    <2>3. Texts(c, rest)'  BY <2>2 DEF Texts
    <2>4. Behind(left \o behind, rest[taken[c] + 1])
      <3>1. CASE left = rest_of_text  BY <2>2, <3>1
      <3>2. CASE left # rest_of_text
        <4>1. ~(taken[c] + 1 < Len(sent[c]))  BY <1>4, <3>2 DEF Drops
        <4>2. taken[c] + 1 = Len(sent[c])  BY <1>t, <2>1, <4>1
        <4>3. rest[taken[c] + 1] = << >>  BY <2>2, <4>2 DEF Texts
        <4>4. text \in Seq(STRING) /\ p.at \in Positions(text)
          <5>1. text \in Seq(STRING)  BY <1>1, <1>p, UntakenRead
          <5> QED  BY <1>p, <5>1, ParserEnds
        <4>5. /\ rest_of_text \in Seq(STRING) /\ left \in Seq(STRING)
              /\ Len(left) <= Len(rest_of_text)
              /\ \A i \in 1 .. Len(left) : left[i] = rest_of_text[i]
          BY <4>4, ShiftedIs
        <4>6. behind \in Seq(STRING)  BY <1>1, <1>3, Divided DEF behind
        <4> HIDE DEF left, rest_of_text
        <4>7. /\ Joined(rest_of_text \o behind, rest_of_text, behind)
              /\ Joined(left \o behind, left, behind)
          BY DEF Joined
        <4>8. Behind(rest_of_text \o behind, << >>)  BY <2>2, <4>3
        <4>9. Behind(left \o behind, << >>)  BY <4>5, <4>6, <4>7, <4>8, BlanksKept
        <4> QED  BY <4>3, <4>9
      <3> QED  BY <3>1, <3>2
    <2>5. Behind(buffer'[c] \o wire'[c], rest[taken'[c]])  BY <1>2, <1>4, <2>4
    <2>6. taken'[c] <= Len(sent'[c])  BY <1>t, <1>4, <2>1
    <2> QED  BY <2>3, <2>5, <2>6 DEF Untaken
  <1>5. ASSUME buffer'[c] = text, taken' = taken
        PROVE  Untaken(c)'
    <2>1. PICK rest : Texts(c, rest) /\ Behind(u, rest[taken[c]])
      BY <1>u DEF Untaken
    <2>2. Joined(u, text, behind)
      BY <1>1, <1>3, Divided DEF behind
    <2>3. buffer'[c] \o wire'[c] = u  BY <1>2, <1>5, <2>2 DEF Joined
    <2>4. Texts(c, rest)'  BY <2>1 DEF Texts
    <2>5. taken'[c] <= Len(sent'[c])  BY <1>5 DEF Untaken
    <2> QED  BY <1>5, <2>1, <2>3, <2>4, <2>5 DEF Untaken
  <1> QED  BY <1>2, <1>4, <1>5

LEMMA TextNext ==
  ASSUME IInv, TextInv, [Next]_vars
  PROVE  TextInv'
  \* A step that leaves the texts alone.
  <1>1. ASSUME \A c \in Clients : SameText(c),
               \A c \in Clients : state'[c] # "closed" => state[c] # "closed",
               lost' = lost, eof \subseteq eof', broken \subseteq broken',
               \A c \in Clients : c \in pending' => c \in pending \/ Readable(c)
        PROVE  TextInv'
    <2>1. ASSUME NEW c \in Clients, state'[c] # "closed", c \notin lost'
          PROVE  Untaken(c)'
      BY <1>1, <2>1, UntakenSame DEF TextInv
    <2>2. ASSUME NEW c \in Clients, c \in pending'
          PROVE  wire'[c] # << >> \/ c \in eof' \cup broken'
      <3>1. wire[c] # << >> \/ c \in eof \cup broken
        BY <1>1, <2>2 DEF TextInv, Readable
      <3> QED  BY <1>1, <3>1 DEF SameText
    <2> QED  BY <2>1, <2>2 DEF TextInv
  \* A step of one connection.
  <1>2. ASSUME NEW c \in Clients, sent' = sent, eof' = eof, broken' = broken,
               pending' \subseteq pending \ {c}, lost \subseteq lost',
               state'[c] # "closed" /\ c \notin lost' => Untaken(c)',
               \A d \in Clients \ {c} : SameText(d) /\ state'[d] = state[d]
        PROVE  TextInv'
    <2>1. ASSUME NEW d \in Clients, state'[d] # "closed", d \notin lost'
          PROVE  Untaken(d)'
      BY <1>2, <2>1, UntakenSame DEF TextInv
    <2>2. ASSUME NEW d \in Clients, d \in pending'
          PROVE  wire'[d] # << >> \/ d \in eof' \cup broken'
      BY <1>2, <2>2 DEF TextInv, SameText
    <2> QED  BY <2>1, <2>2 DEF TextInv
  <1>3. CASE jrpc_server_init \/ jrpc_server_run \/ Poll \/ EndLoop \/ HostCall
    <2>1. UNCHANGED <<client, server>>
      BY <1>3 DEF jrpc_server_init, jrpc_server_run, Poll, EndLoop, HostCall
    <2>2. pending' = pending \/ pending' = Ready
      BY <1>3 DEF jrpc_server_init, jrpc_server_run, Poll, EndLoop, HostCall
    <2>3. \A c \in Clients : c \in Ready => Readable(c)
      BY RpcAssumption DEF Ready
    <2> QED  BY <1>1, <2>1, <2>2, <2>3 DEF client, server, SameText
  <1>4. CASE accept_cb
    <2>1. UNCHANGED <<client, buffer, taken, lost>> /\ pending' \subseteq pending
      BY <1>4 DEF accept_cb, Invoked
    <2>2. \A c \in Clients : state'[c] # "closed" => state[c] # "closed"
      <3>1. SUFFICES ASSUME NEW c \in Backlog, state' = [state EXCEPT ![c] = "open"]
                     PROVE  \A d \in Clients : state'[d] # "closed" => state[d] # "closed"
        BY <1>4 DEF accept_cb
      <3>2. c \in Clients /\ state[c] = "backlog" /\ DOMAIN state = Clients
        BY DEF Backlog, IInv, DomainsOK, Of
      <3>3. \A d \in Clients \ {c} : state'[d] = state[d]  BY <3>1, <3>2
      <3> QED  BY <3>2, <3>3
    <2> QED  BY <1>1, <2>1, <2>2 DEF client, SameText
  <1>5. ASSUME NEW c \in Clients, connection_cb(c)  PROVE TextInv'
    <2>1. /\ Invoked(c) /\ UNCHANGED <<host, eof, broken, sent, ahead>>
          /\ pending' \subseteq pending \ {c}
      BY <1>5 DEF connection_cb, Invoked
    <2>2. CASE NothingRead(c)
      <3>1. /\ state' = [state EXCEPT ![c] = "closed"]
            /\ buffer' = [buffer EXCEPT ![c] = << >>] /\ UNCHANGED <<wire, taken, lost>>
        BY <2>2 DEF NothingRead, close_connection
      <3>2. DOMAIN state = Clients /\ DOMAIN buffer = Clients
        BY DEF IInv, DomainsOK, Of
      <3>3. /\ state'[c] = "closed"
            /\ \A d \in Clients \ {c} : SameText(d) /\ state'[d] = state[d]
        BY <2>1, <3>1, <3>2 DEF SameText
      <3> QED  BY <1>2, <2>1, <3>1, <3>3
    <2>3. ASSUME NEW n \in 1 .. Min({max_read_size(c), Len(wire[c])}), Received(c, n)
          PROVE  TextInv'
      <3>1. n \in 1 .. Len(wire[c])  BY ReadLength
      <3>2. /\ \A d \in Clients \ {c} : SameText(d) /\ state'[d] = state[d]
            /\ lost \subseteq lost'
        BY <2>1, <2>3, <3>1, ReceivedBy DEF SameText
      <3>3. c \notin lost' => Untaken(c)
        <4>1. state[c] = "open"  BY <2>1 DEF Invoked, IInv, Connection
        <4> QED  BY <3>2, <4>1 DEF TextInv
      <3>4. state'[c] # "closed" /\ c \notin lost' => Untaken(c)'
        BY <2>1, <2>3, <3>1, <3>3, ReceivedTexts
      <3> QED  BY <1>2, <2>1, <3>2, <3>4
    <2> QED  BY <1>5, <2>2, <2>3 DEF connection_cb
  <1>6. ASSUME NEW c \in Clients, Connect(c) \/ StopSending(c) \/ Reset(c)  PROVE TextInv'
    <2>1. /\ UNCHANGED <<pending, wire, sent, buffer, taken, lost>>
          /\ eof \subseteq eof' /\ broken \subseteq broken'
      BY <1>6 DEF Connect, StopSending, Reset, client, server
    <2>2. \A d \in Clients : state'[d] # "closed" => state[d] # "closed"
      <3>1. CASE Connect(c)
        <4>1. state[c] = "none" /\ state' = [state EXCEPT ![c] = "backlog"]
          BY <3>1 DEF Connect
        <4>2. DOMAIN state = Clients  BY DEF IInv, DomainsOK, Of
        <4>3. \A d \in Clients \ {c} : state'[d] = state[d]  BY <4>1, <4>2
        <4> QED  BY <4>1, <4>3
      <3>2. CASE StopSending(c) \/ Reset(c)
        BY <3>2 DEF StopSending, Reset, server
      <3> QED  BY <1>6, <3>1, <3>2
    <2> QED  BY <1>1, <2>1, <2>2 DEF SameText
  <1>7. ASSUME NEW c \in Clients, NEW r \in Programs[c], Send(c, r)  PROVE TextInv'
    <2>1. /\ wire' = [wire EXCEPT ![c] = @ \o r.text]
          /\ sent' = [sent EXCEPT ![c] = Append(@, r)]
          /\ UNCHANGED <<pending, eof, broken, state, buffer, taken, lost>>
      BY <1>7 DEF Send, server
    <2>2. DOMAIN wire = Clients /\ DOMAIN sent = Clients  BY DEF IInv, DomainsOK, Of
    <2>3. /\ wire'[c] = wire[c] \o r.text /\ sent'[c] = Append(sent[c], r)
          /\ \A d \in Clients \ {c} : SameText(d)
      BY <2>1, <2>2 DEF SameText
    <2>4. ASSUME NEW d \in Clients, state'[d] # "closed", d \notin lost'
          PROVE  Untaken(d)'
      <3>1. state[d] # "closed" /\ Untaken(d)  BY <2>1, <2>4 DEF TextInv
      <3>2. CASE d = c  BY <2>1, <2>3, <3>1, <3>2, SendText
      <3>3. CASE d # c  BY <2>3, <3>1, <3>3, UntakenSame
      <3> QED  BY <3>2, <3>3
    <2>5. ASSUME NEW d \in Clients, d \in pending'
          PROVE  wire'[d] # << >> \/ d \in eof' \cup broken'
      <3>1. wire[d] # << >> \/ d \in eof \cup broken  BY <2>1, <2>5 DEF TextInv
      <3>2. wire[d] # << >> => wire'[d] # << >>
        <4>1. CASE d = c
          <5> DEFINE w == wire[c]
                     t == r.text
          <5>1. w \in Seq(STRING) /\ t \in Seq(STRING)
            BY RpcAssumption DEF IInv, Connection
          <5> HIDE DEF w, t
          <5>2. w # << >> => w \o t # << >>  BY <5>1, ConcatEqualIffEmpty
          <5> QED  BY <2>3, <4>1, <5>2 DEF w, t
        <4>2. CASE d # c  BY <2>3, <4>2 DEF SameText
        <4> QED  BY <4>1, <4>2
      <3> QED  BY <2>1, <3>1, <3>2
    <2> QED  BY <2>4, <2>5 DEF TextInv
  <1>8. CASE UNCHANGED vars
    <2>1. UNCHANGED <<client, server, pending>>  BY <1>8 DEF vars
    <2> QED  BY <1>1, <2>1 DEF client, server, SameText
  <1> QED  BY <1>3, <1>4, <1>5, <1>6, <1>7, <1>8 DEF Next, Serve

LEMMA TextInvariance == Spec => []TextInv
  <1>1. IInv /\ TextInv /\ [Next]_vars => TextInv'  BY TextNext
  <1> QED  BY <1>1, TextInit, Invariance, PTL DEF Spec

\* Where there is a request behind the first not yet taken, it was sent ahead.
AheadInv ==
  /\ lost \subseteq ahead
  /\ \A c \in Clients : taken[c] + 1 < Len(sent[c]) => c \in ahead

LEMMA AheadInit == Init => AheadInv
  <1> SUFFICES ASSUME Init  PROVE AheadInv
    OBVIOUS
  <1>1. lost = {}  BY DEF Init
  <1>2. ASSUME NEW c \in Clients  PROVE ~(taken[c] + 1 < Len(sent[c]))
    <2>1. sent[c] = << >> /\ taken[c] = 0 /\ Len(<< >>) = 0  BY DEF Init
    <2> QED  BY <2>1
  <1> QED  BY <1>1, <1>2 DEF AheadInv

LEMMA AheadNext ==
  ASSUME IInv, AheadInv, [Next]_vars
  PROVE  AheadInv'
  <1>1. CASE UNCHANGED <<sent, taken, ahead, lost>>
    BY <1>1 DEF AheadInv
  <1>2. ASSUME NEW c \in Clients, connection_cb(c)  PROVE AheadInv'
    <2>1. UNCHANGED <<sent, ahead>>  BY <1>2 DEF connection_cb
    <2>2. CASE NothingRead(c)  BY <1>1, <2>1, <2>2 DEF NothingRead
    <2>3. ASSUME NEW n \in 1 .. Min({max_read_size(c), Len(wire[c])}), Received(c, n)
          PROVE  AheadInv'
      <3> DEFINE text == buffer[c] \o SubSeq(wire[c], 1, n)
                 p == ParseStream(text)
      <3>1. /\ \A d \in Clients \ {c} : taken'[d] = taken[d]
            /\ \/ /\ taken'[c] = taken[c] + 1
                  /\ lost' = IF Drops(c, text, p.at) THEN lost \cup {c} ELSE lost
               \/ taken' = taken /\ lost' = lost
        BY <2>3, ReadLength, ReceivedBy
      <3> HIDE DEF text, p
      <3>2. \A d \in Clients : taken[d] \in Nat /\ Len(sent[d]) \in Nat
        BY DEF IInv, Connection
      <3>3. lost' \subseteq ahead
        <4>1. Drops(c, text, p.at) => c \in ahead  BY DEF Drops, AheadInv
        <4> QED  BY <3>1, <4>1 DEF AheadInv
      <3>4. ASSUME NEW d \in Clients, taken'[d] + 1 < Len(sent[d])  PROVE d \in ahead
        <4>1. taken'[d] \in {taken[d], taken[d] + 1}  BY <3>1
        <4>2. taken[d] + 1 < Len(sent[d])  BY <3>2, <3>4, <4>1
        <4> QED  BY <4>2 DEF AheadInv
      <3> QED  BY <2>1, <3>3, <3>4 DEF AheadInv
    <2> QED  BY <1>2, <2>2, <2>3 DEF connection_cb
  <1>3. ASSUME NEW c \in Clients, NEW r \in Programs[c], Send(c, r)  PROVE AheadInv'
    <2>1. /\ sent' = [sent EXCEPT ![c] = Append(@, r)]
          /\ ahead' = IF taken[c] < Len(sent[c]) THEN ahead \cup {c} ELSE ahead
          /\ UNCHANGED <<taken, lost>>
      BY <1>3 DEF Send, server
    <2>2. DOMAIN sent = Clients /\ sent[c] \in Seq(Programs[c]) /\ taken[c] \in Nat
      BY DEF IInv, DomainsOK, Of, Connection
    <2>3. /\ sent'[c] = Append(sent[c], r)
          /\ \A d \in Clients \ {c} : sent'[d] = sent[d]
      BY <2>1, <2>2
    <2>4. Len(sent'[c]) = Len(sent[c]) + 1 /\ Len(sent[c]) \in Nat
      BY <2>2, <2>3, AppendProperties
    <2>5. ASSUME NEW d \in Clients, taken[d] + 1 < Len(sent'[d])  PROVE d \in ahead'
      <3>1. CASE d = c
        <4>1. taken[c] < Len(sent[c])  BY <2>2, <2>4, <2>5, <3>1
        <4> QED  BY <2>1, <3>1, <4>1
      <3>2. CASE d # c  BY <2>1, <2>3, <2>5, <3>2 DEF AheadInv
      <3> QED  BY <3>1, <3>2
    <2> QED  BY <2>1, <2>5 DEF AheadInv
  <1>4. CASE \/ jrpc_server_init \/ HostCall \/ jrpc_server_run \/ Poll \/ EndLoop \/ accept_cb
    BY <1>1, <1>4 DEF jrpc_server_init, HostCall, jrpc_server_run, Poll, EndLoop, accept_cb,
                      client, server
  <1>5. ASSUME NEW c \in Clients, Connect(c) \/ StopSending(c) \/ Reset(c)  PROVE AheadInv'
    BY <1>1, <1>5 DEF Connect, StopSending, Reset, client, server
  <1>6. CASE UNCHANGED vars
    BY <1>1, <1>6 DEF vars, client, server
  <1> QED  BY <1>2, <1>3, <1>4, <1>5, <1>6 DEF Next, Serve

LEMMA AheadInvariance == Spec => []AheadInv
  <1>1. IInv /\ AheadInv /\ [Next]_vars => AheadInv'  BY AheadNext
  <1> QED  BY <1>1, AheadInit, Invariance, PTL DEF Spec

\* What the parser finds in what has been read, before all of a request has come, or
\* with more behind it, is the first request not yet taken, unless the server has lost
\* a part of what that client has sent ahead.
THEOREM Understands == Spec => []Understood
  <1>1. IInv /\ TextInv /\ AheadInv => Understood
    <2> SUFFICES ASSUME IInv, TextInv, AheadInv, NEW c \in Clients \ lost, state[c] = "open",
                        NEW n \in 1 .. Min({max_read_size(c), Len(wire[c])}),
                        ParseStream(buffer[c] \o SubSeq(wire[c], 1, n)).rule = "done"
                 PROVE  /\ taken[c] < Len(sent[c])
                        /\ Means(ParseStream(buffer[c] \o SubSeq(wire[c], 1, n)),
                                 sent[c][taken[c] + 1])
      BY DEF Understood, AheadInv
    <2> DEFINE text == buffer[c] \o SubSeq(wire[c], 1, n)
               p == ParseStream(text)
    <2>1. Joined(text, buffer[c], SubSeq(wire[c], 1, n))  BY DEF Joined
    <2>2. Untaken(c)  BY DEF TextInv
    <2>3. n \in 1 .. Len(wire[c])  BY ReadLength
    <2>4. p = ParseStream(text) /\ p.rule = "done"  OBVIOUS
    <2>5. taken[c] < Len(sent[c]) /\ Means(p, sent[c][taken[c] + 1])
      <3> HIDE DEF text, p
      <3> QED  BY <2>1, <2>2, <2>3, <2>4, UntakenRead
    <2> QED  BY <2>5
  <1> QED  BY <1>1, Invariance, TextInvariance, AheadInvariance, PTL

\* What ClosedForCause says of a step.
ClosedStep ==
  \A c \in Clients :
    state[c] = "open" /\ state'[c] = "closed" =>
      \/ c \in broken
      \/ c \in eof /\ wire[c] = << >>
      \/ c \in lost
      \/ \E i \in taken[c] + 1 .. Len(sent[c]) : sent[c][i].kind = "malformed"
      \/ wire'[c] # wire[c] /\ FragileEnd(ReadSoFar(c, wire'[c]))

\* connection_cb closes a connection for one of these reasons only: it is broken, the
\* client has hung up and all it sent is read, a part of its requests was lost, one is
\* malformed, or a read has ended inside an escape or where the parser looks behind
\* what it needs.
THEOREM ClosesForCause == Spec => ClosedForCause
  <1>1. IInv /\ TextInv /\ [Next]_vars => ClosedStep
    <2> SUFFICES ASSUME IInv, TextInv, [Next]_vars, NEW c \in Clients,
                        state[c] = "open", state'[c] = "closed"
                 PROVE  \/ c \in broken
                        \/ c \in eof /\ wire[c] = << >>
                        \/ c \in lost
                        \/ \E i \in taken[c] + 1 .. Len(sent[c]) :
                             sent[c][i].kind = "malformed"
                        \/ wire'[c] # wire[c] /\ FragileEnd(ReadSoFar(c, wire'[c]))
      BY DEF ClosedStep
    <2>1. DOMAIN state = Clients  BY DEF IInv, DomainsOK, Of
    <2>2. ASSUME NEW d \in Clients, connection_cb(d)
          PROVE  d = c
      <3>1. CASE NothingRead(d)
        <4>1. state' = [state EXCEPT ![d] = "closed"]
          BY <3>1 DEF NothingRead, close_connection
        <4> QED  BY <2>1, <4>1
      <3>2. ASSUME NEW n \in 1 .. Min({max_read_size(d), Len(wire[d])}), Received(d, n)
            PROVE  d = c
        <4>1. n \in 1 .. Len(wire[d])  BY ReadLength
        <4>2. \A e \in Clients \ {d} : state'[e] = state[e]  BY <3>2, <4>1, ReceivedBy
        <4> QED  BY <4>2
      <3> QED  BY <2>2, <3>1, <3>2 DEF connection_cb
    <2>3. connection_cb(c)
      <3>1. CASE jrpc_server_init \/ jrpc_server_run \/ Poll \/ EndLoop \/ HostCall
        BY <3>1 DEF jrpc_server_init, jrpc_server_run, Poll, EndLoop, HostCall, server
      <3>2. CASE accept_cb
        <4>1. state' = state \/ \E d \in Backlog : state' = [state EXCEPT ![d] = "open"]
          BY <3>2 DEF accept_cb
        <4> QED  BY <2>1, <4>1
      <3>3. ASSUME NEW d \in Clients,
                   \/ Connect(d) \/ StopSending(d) \/ Reset(d)
                   \/ \E r \in Programs[d] : Send(d, r)
            PROVE  FALSE
        <4>1. state' = state \/ state' = [state EXCEPT ![d] = "backlog"]
          BY <3>3 DEF Connect, StopSending, Reset, Send, server
        <4> QED  BY <2>1, <4>1
      <3>4. CASE UNCHANGED vars
        BY <3>4 DEF vars, server
      <3> QED  BY <2>2, <3>1, <3>2, <3>3, <3>4 DEF Next, Serve
    <2>4. CASE NothingRead(c)
      <3>1. max_read_size(c) # 0  BY RoomToRead
      <3>2. c \in broken \/ wire[c] = << >>  BY <2>4, <3>1 DEF NothingRead
      <3>3. c \in pending  BY <2>3 DEF connection_cb, Invoked
      <3>4. wire[c] # << >> \/ c \in eof \cup broken  BY <3>3 DEF TextInv
      <3> QED  BY <3>2, <3>4
    <2>5. ASSUME NEW n \in 1 .. Min({max_read_size(c), Len(wire[c])}), Received(c, n)
          PROVE  \/ c \in lost
                 \/ \E i \in taken[c] + 1 .. Len(sent[c]) : sent[c][i].kind = "malformed"
                 \/ wire'[c] # wire[c] /\ FragileEnd(ReadSoFar(c, wire'[c]))
      <3> DEFINE text == buffer[c] \o SubSeq(wire[c], 1, n)
                 p == ParseStream(text)
      <3>1. n \in 1 .. Len(wire[c])  BY ReadLength
      <3>2. /\ wire'[c] = Rest(wire[c], n + 1)
            /\ p.rule = "failed" /\ p.at # Len(text) + 1
        BY <2>5, <3>1, ReceivedBy
      <3>3. Joined(text, buffer[c], SubSeq(wire[c], 1, n))  BY DEF Joined
      <3>4. c \notin lost => Untaken(c)  BY DEF TextInv
      <3>5. p = ParseStream(text)  OBVIOUS
      <3> HIDE DEF p
      <3>6. \/ c \in lost
            \/ \E i \in taken[c] + 1 .. Len(sent[c]) : sent[c][i].kind = "malformed"
            \/ FragileEnd(text)
        <4> HIDE DEF text
        <4> QED  BY <3>1, <3>2, <3>3, <3>4, <3>5, UntakenRead
      <3>7. Len(wire'[c]) = Len(wire[c]) - n /\ Len(wire[c]) \in Nat
        <4> DEFINE a == n + 1
        <4>1. wire[c] \in Seq(STRING) /\ Len(wire[c]) \in Nat  BY DEF IInv, Connection
        <4>2. a \in 1 .. Len(wire[c]) + 1 /\ Len(wire[c]) + 1 - a = Len(wire[c]) - n
          BY <3>1, <4>1
        <4> HIDE DEF a
        <4>3. Len(Rest(wire[c], a)) = Len(wire[c]) + 1 - a  BY <4>1, <4>2, RestIs
        <4> QED  BY <3>2, <4>1, <4>2, <4>3 DEF a
      <3>8. Len(wire'[c]) # Len(wire[c]) /\ Len(wire[c]) - Len(wire'[c]) = n
        BY <3>1, <3>7
      <3>9. ReadSoFar(c, wire'[c]) = text  BY <3>8 DEF ReadSoFar
      <3> QED  BY <3>6, <3>8, <3>9
    <2> QED  BY <2>3, <2>4, <2>5 DEF connection_cb
  <1>2. ClosedStep <=> \A c \in Clients :
          state[c] = "open" /\ state'[c] = "closed" =>
            \/ c \in broken
            \/ c \in eof /\ wire[c] = << >>
            \/ c \in lost
            \/ \E i \in taken[c] + 1 .. Len(sent[c]) : sent[c][i].kind = "malformed"
            \/ wire'[c] # wire[c] /\ FragileEnd(ReadSoFar(c, wire'[c]))
    BY DEF ClosedStep
  <1> QED  BY <1>1, <1>2, Invariance, TextInvariance, PTL DEF Spec, ClosedForCause

-----------------------------------------------------------------------------
(* What a table binds to a name                                             *)

Collected(p, name, b, i) ==
  IF i = 0 THEN << >>
  ELSE IF p[i].name = name THEN Append(b[i - 1], p[i].function) ELSE b[i - 1]

\* b counts through the table p.
Counts(p, name, b) == b = [i \in 0 .. Len(p) |-> Collected(p, name, b, i)]

LEMMA BoundCounts ==
  ASSUME NEW S, NEW p \in Seq(S), NEW name
  PROVE  \E b : Counts(p, name, b) /\ Bound(p, name) = b[Len(p)]
  <1> DEFINE K == {k \in Nat : \E f : f = [i \in 0 .. k |-> Collected(p, name, f, i)]}
             bound == CHOOSE f : f = [i \in 0 .. Len(p) |-> Collected(p, name, f, i)]
  <1>1. Len(p) \in Nat  OBVIOUS
  <1>2. ASSUME NEW f, NEW g, NEW i, i # 0 => f[i - 1] = g[i - 1]
        PROVE  Collected(p, name, f, i) = Collected(p, name, g, i)
    BY <1>2 DEF Collected
  <1>3. 0 \in K
    <2> DEFINE f == [i \in 0 .. 0 |-> << >>]
    <2>1. f = [i \in 0 .. 0 |-> Collected(p, name, f, i)]  BY DEF Collected
    <2> QED  BY <2>1
  <1>4. ASSUME NEW k \in K  PROVE k + 1 \in K
    <2>1. PICK f : f = [i \in 0 .. k |-> Collected(p, name, f, i)]  OBVIOUS
    <2> DEFINE g == [i \in 0 .. k + 1 |->
                       IF i \in 0 .. k THEN f[i] ELSE Collected(p, name, f, i)]
    <2>2. ASSUME NEW i \in 0 .. k + 1  PROVE g[i] = Collected(p, name, g, i)
      <3>1. g[i] = Collected(p, name, f, i)
        <4>1. CASE i \in 0 .. k  BY <2>1, <4>1
        <4>2. CASE i \notin 0 .. k  BY <4>2
        <4> QED  BY <4>1, <4>2
      <3>2. i # 0 => f[i - 1] = g[i - 1]
        <4>1. i # 0 => i - 1 \in 0 .. k /\ i - 1 \in 0 .. k + 1  OBVIOUS
        <4> QED  BY <4>1
      <3> HIDE DEF g
      <3>3. Collected(p, name, f, i) = Collected(p, name, g, i)  BY <1>2, <3>2
      <3> QED  BY <3>1, <3>3
    <2>3. g = [i \in 0 .. k + 1 |-> Collected(p, name, g, i)]  BY <2>2
    <2>4. \E h : h = [i \in 0 .. k + 1 |-> Collected(p, name, h, i)]
      <3> HIDE DEF g
      <3> QED  BY <2>3
    <2> QED  BY <2>4
  <1>5. bound = [i \in 0 .. Len(p) |-> Collected(p, name, bound, i)]
    <2>1. Len(p) \in K
      <3> HIDE DEF K
      <3>1. K \in SUBSET Nat  BY DEF K
      <3> QED  BY <1>1, <1>3, <1>4, <3>1, Induction
    <2>2. \E f : f = [i \in 0 .. Len(p) |-> Collected(p, name, f, i)]  BY <2>1
    <2> QED  BY <2>2
  <1>6. Bound(p, name) = bound[Len(p)]  BY DEF Bound, Collected
  <1> HIDE DEF bound
  <1> QED  BY <1>5, <1>6 DEF Counts

Stepwise(p, name, b) ==
  /\ b[0] = << >>
  /\ \A i \in 1 .. Len(p) : /\ p[i].name = name => b[i] = Append(b[i - 1], p[i].function)
                            /\ p[i].name # name => b[i] = b[i - 1]

LEMMA CountsOne ==
  ASSUME NEW S, NEW p \in Seq(S), NEW name, NEW b, Counts(p, name, b)
  PROVE  Stepwise(p, name, b)
  <1>1. Len(p) \in Nat  OBVIOUS
  <1>2. \A i \in 0 .. Len(p) : b[i] = Collected(p, name, b, i)  BY DEF Counts
  <1>3. b[0] = << >>  BY <1>1, <1>2 DEF Collected
  <1>4. ASSUME NEW i \in 1 .. Len(p)
        PROVE  /\ p[i].name = name => b[i] = Append(b[i - 1], p[i].function)
               /\ p[i].name # name => b[i] = b[i - 1]
    <2>1. i # 0 /\ i \in 0 .. Len(p)  BY <1>1
    <2> QED  BY <1>2, <2>1 DEF Collected
  <1> QED  BY <1>3, <1>4 DEF Stepwise

Table == Seq([name : Names, function : Functions])

LEMMA CountsTable ==
  ASSUME NEW p \in Table, NEW name, NEW b, Counts(p, name, b)
  PROVE  Stepwise(p, name, b)
  <1> DEFINE E == [name : Names, function : Functions]
  <1>1. p \in Seq(E)  BY DEF Table
  <1> HIDE DEF E
  <1> QED  BY <1>1, CountsOne

LEMMA CountsType ==
  ASSUME NEW p \in Table, NEW name, NEW b, Counts(p, name, b), NEW i \in 0 .. Len(p)
  PROVE  b[i] \in Seq(Functions)
  <1> DEFINE K == {k \in Nat : k <= Len(p) => b[k] \in Seq(Functions)}
  <1>0. Len(p) \in Nat /\ \A k \in 1 .. Len(p) : p[k] \in [name : Names, function : Functions]
    <2> DEFINE E == [name : Names, function : Functions]
    <2>1. p \in Seq(E)  BY DEF Table
    <2> HIDE DEF E
    <2>2. Len(p) \in Nat /\ \A k \in 1 .. Len(p) : p[k] \in E  BY <2>1
    <2> QED  BY <2>2 DEF E
  <1>1. Len(p) \in Nat /\ \A k \in 1 .. Len(p) : p[k].function \in Functions
    BY <1>0
  <1>2. Stepwise(p, name, b)  BY CountsTable
  <1>3. 0 \in K
    <2>1. << >> \in Seq(Functions)  OBVIOUS
    <2> QED  BY <1>2, <2>1 DEF Stepwise
  <1>4. ASSUME NEW k \in K  PROVE k + 1 \in K
    <2>1. SUFFICES ASSUME k + 1 <= Len(p)  PROVE b[k + 1] \in Seq(Functions)
      OBVIOUS
    <2>2. k + 1 \in 1 .. Len(p) /\ (k + 1) - 1 = k /\ b[k] \in Seq(Functions)
      BY <1>1, <2>1
    <2>3. p[k + 1].function \in Functions  BY <1>1, <2>2
    <2>4. b[k + 1] = Append(b[k], p[k + 1].function) \/ b[k + 1] = b[k]
      BY <1>2, <2>2 DEF Stepwise
    <2>5. Append(b[k], p[k + 1].function) \in Seq(Functions)
      BY <2>2, <2>3, AppendProperties
    <2> QED  BY <2>2, <2>4, <2>5
  <1>5. K = Nat
    <2> HIDE DEF K
    <2>1. K \in SUBSET Nat  BY DEF K
    <2> QED  BY <1>3, <1>4, <2>1, Induction
  <1> QED  BY <1>1, <1>5

\* Tables that agree on their first k entries.
LEMMA CountsAgree ==
  ASSUME NEW p \in Table, NEW q \in Table, NEW name,
         NEW b, Counts(p, name, b), NEW d, Counts(q, name, d),
         NEW k \in Nat, k <= Len(p), k <= Len(q), \A i \in 1 .. k : p[i] = q[i]
  PROVE  b[k] = d[k]
  <1> DEFINE K == {l \in Nat : l <= k => b[l] = d[l]}
  <1>1. Len(p) \in Nat /\ Len(q) \in Nat  BY DEF Table
  <1>2. Stepwise(p, name, b)  BY CountsTable
  <1>3. Stepwise(q, name, d)  BY CountsTable
  <1>4. 0 \in K  BY <1>2, <1>3 DEF Stepwise
  <1>5. ASSUME NEW l \in K  PROVE l + 1 \in K
    <2>1. SUFFICES ASSUME l + 1 <= k  PROVE b[l + 1] = d[l + 1]
      OBVIOUS
    <2>2. /\ l + 1 \in 1 .. Len(p) /\ l + 1 \in 1 .. Len(q) /\ (l + 1) - 1 = l
          /\ b[l] = d[l] /\ p[l + 1] = q[l + 1]
      BY <1>1, <2>1
    <2>3. CASE p[l + 1].name = name
      <3>1. b[l + 1] = Append(b[l], p[l + 1].function)  BY <1>2, <2>2, <2>3 DEF Stepwise
      <3>2. d[l + 1] = Append(d[l], q[l + 1].function)  BY <1>3, <2>2, <2>3 DEF Stepwise
      <3> QED  BY <2>2, <3>1, <3>2
    <2>4. CASE p[l + 1].name # name
      <3>1. b[l + 1] = b[l] /\ d[l + 1] = d[l]  BY <1>2, <1>3, <2>2, <2>4 DEF Stepwise
      <3> QED  BY <2>2, <3>1
    <2> QED  BY <2>3, <2>4
  <1>6. K = Nat
    <2> HIDE DEF K
    <2>1. K \in SUBSET Nat  BY DEF K
    <2> QED  BY <1>4, <1>5, <2>1, Induction
  <1> QED  BY <1>6

LEMMA BoundEmpty ==
  ASSUME NEW name  PROVE Bound(<< >>, name) = << >>
  <1>1. << >> \in Table /\ Len(<< >>) = 0  BY DEF Table
  <1>2. PICK b : Counts(<< >>, name, b) /\ Bound(<< >>, name) = b[0]
    BY <1>1, BoundCounts DEF Table
  <1>3. Stepwise(<< >>, name, b)  BY <1>1, <1>2, CountsTable
  <1>4. b[0] = << >>  BY <1>3 DEF Stepwise
  <1> QED  BY <1>2, <1>4

\* Registered last, bound last.
LEMMA BoundAppended ==
  ASSUME NEW p \in Table, NEW e \in [name : Names, function : Functions], NEW name
  PROVE  Bound(Append(p, e), name) =
           IF e.name = name THEN Append(Bound(p, name), e.function) ELSE Bound(p, name)
  <1> DEFINE q == Append(p, e)
  <1>1. /\ q \in Table /\ Len(p) \in Nat /\ Len(q) = Len(p) + 1 /\ q[Len(p) + 1] = e
        /\ \A i \in 1 .. Len(p) : p[i] = q[i]
    BY AppendProperties DEF Table
  <1> HIDE DEF q
  <1>2. PICK b : Counts(p, name, b) /\ Bound(p, name) = b[Len(p)]
    BY BoundCounts DEF Table
  <1>3. PICK d : Counts(q, name, d) /\ Bound(q, name) = d[Len(q)]
    BY <1>1, BoundCounts DEF Table
  <1>4. b[Len(p)] = d[Len(p)]
    <2>1. Len(p) <= Len(p) /\ Len(p) <= Len(q)  BY <1>1
    <2> QED  BY <1>1, <1>2, <1>3, <2>1, CountsAgree
  <1>5. Len(p) + 1 \in 1 .. Len(q) /\ (Len(p) + 1) - 1 = Len(p)  BY <1>1
  <1>6. /\ e.name = name => d[Len(p) + 1] = Append(d[Len(p)], e.function)
        /\ e.name # name => d[Len(p) + 1] = d[Len(p)]
    <2>1. Stepwise(q, name, d)  BY <1>1, <1>3, CountsTable
    <2> QED  BY <1>1, <1>5, <2>1 DEF Stepwise
  <1> QED  BY <1>1, <1>2, <1>3, <1>4, <1>6 DEF q

\* No entry of that name up to k.
LEMMA CountsNone ==
  ASSUME NEW p \in Table, NEW name, NEW b, Counts(p, name, b),
         NEW j \in Nat, NEW k \in Nat, j <= k, k <= Len(p),
         \A i \in j + 1 .. k : p[i].name # name
  PROVE  b[k] = b[j]
  <1> DEFINE K == {l \in Nat : j + l <= k => b[j + l] = b[j]}
  <1>1. Len(p) \in Nat  BY DEF Table
  <1>2. Stepwise(p, name, b)  BY CountsTable
  <1>3. 0 \in K  OBVIOUS
  <1>4. ASSUME NEW l \in K  PROVE l + 1 \in K
    <2>1. SUFFICES ASSUME j + (l + 1) <= k  PROVE b[j + (l + 1)] = b[j]
      OBVIOUS
    <2>2. /\ j + (l + 1) \in 1 .. Len(p) /\ j + (l + 1) \in j + 1 .. k
          /\ (j + (l + 1)) - 1 = j + l /\ b[j + l] = b[j]
      BY <1>1, <2>1
    <2>3. p[j + (l + 1)].name # name  BY <2>2
    <2> QED  BY <1>2, <2>2, <2>3 DEF Stepwise
  <1>5. K = Nat
    <2> HIDE DEF K
    <2>1. K \in SUBSET Nat  BY DEF K
    <2> QED  BY <1>3, <1>4, <2>1, Induction
  <1>6. k - j \in K /\ j + (k - j) = k
    <2> HIDE DEF K
    <2> QED  BY <1>5
  <1> QED  BY <1>6

\* The last one bound is the last entry of that name.
LEMMA BoundLast ==
  ASSUME NEW p \in Table, NEW name, NEW j \in 1 .. Len(p), p[j].name = name,
         \A i \in 1 .. Len(p) : p[i].name = name => i <= j
  PROVE  /\ Bound(p, name) # << >>
         /\ Bound(p, name)[Len(Bound(p, name))] = p[j].function
  <1>1. Len(p) \in Nat  BY DEF Table
  <1>2. PICK b : Counts(p, name, b) /\ Bound(p, name) = b[Len(p)]
    BY BoundCounts DEF Table
  <1>3. b[j] = Append(b[j - 1], p[j].function)
    <2>1. Stepwise(p, name, b)  BY <1>2, CountsTable
    <2> QED  BY <2>1 DEF Stepwise
  <1>4. b[Len(p)] = b[j]
    <2>1. /\ j \in Nat /\ j <= Len(p) /\ Len(p) <= Len(p)
          /\ \A i \in j + 1 .. Len(p) : p[i].name # name
      BY <1>1
    <2> QED  BY <1>1, <1>2, <2>1, CountsNone
  <1>5. b[j - 1] \in Seq(Functions)
    <2>1. j - 1 \in 0 .. Len(p)  BY <1>1
    <2> QED  BY <1>2, <2>1, CountsType
  <1>6. \A q \in Seq(Functions) : \A e :
          Append(q, e) # << >> /\ Append(q, e)[Len(Append(q, e))] = e
    OBVIOUS
  <1> QED  BY <1>2, <1>3, <1>4, <1>5, <1>6

LEMMA BoundNone ==
  ASSUME NEW p \in Table, NEW name, \A i \in 1 .. Len(p) : p[i].name # name
  PROVE  Bound(p, name) = << >>
  <1>1. Len(p) \in Nat  BY DEF Table
  <1>2. PICK b : Counts(p, name, b) /\ Bound(p, name) = b[Len(p)]
    BY BoundCounts DEF Table
  <1>3. b[Len(p)] = b[0]
    <2>1. /\ 0 \in Nat /\ 0 <= Len(p) /\ Len(p) <= Len(p)
          /\ \A i \in 0 + 1 .. Len(p) : p[i].name # name
      BY <1>1
    <2> QED  BY <1>1, <1>2, <2>1, CountsNone
  <1>4. Stepwise(p, name, b)  BY <1>2, CountsTable
  <1> QED  BY <1>2, <1>3, <1>4 DEF Stepwise

\* Without its first entry of a name the table binds that name to the rest, and every
\* other to what it was bound to.
LEMMA BoundRemoved ==
  ASSUME NEW p \in Table, NEW m \in 1 .. Len(p),
         \A i \in 1 .. m - 1 : p[i].name # p[m].name,
         NEW q \in Table, Len(q) = Len(p) - 1,
         \A i \in 1 .. m - 1 : q[i] = p[i],
         \A i \in m .. Len(q) : q[i] = p[i + 1],
         NEW name
  PROVE  /\ p[m].name = name => /\ Bound(p, name) # << >>
                                /\ Bound(q, name) = Tail(Bound(p, name))
         /\ p[m].name # name => Bound(q, name) = Bound(p, name)
  <1> DEFINE Moved(x) == IF p[m].name = name THEN <<p[m].function>> \o x ELSE x
  <1>1. Len(p) \in Nat /\ Len(q) \in Nat /\ m \in Nat /\ Len(q) = Len(p) - 1
    BY DEF Table
  <1>2. PICK b : Counts(p, name, b) /\ Bound(p, name) = b[Len(p)]
    BY BoundCounts DEF Table
  <1>3. PICK d : Counts(q, name, d) /\ Bound(q, name) = d[Len(q)]
    BY BoundCounts DEF Table
  <1>4. b[m - 1] = d[m - 1]
    <2>1. m - 1 \in Nat /\ m - 1 <= Len(p) /\ m - 1 <= Len(q)  BY <1>1
    <2> QED  BY <1>2, <1>3, <2>1, CountsAgree
  <1>5. \A k \in 0 .. Len(q) : d[k] \in Seq(Functions)
    BY <1>3, CountsType
  <1>6. Stepwise(p, name, b)  BY <1>2, CountsTable
  <1>7. Stepwise(q, name, d)  BY <1>3, CountsTable
  \* Up to each entry behind the one that goes.
  <1> DEFINE K == {l \in Nat : m + l <= Len(p) => b[m + l] = Moved(d[m - 1 + l])}
  <1>8. 0 \in K
    <2>1. CASE p[m].name = name
      <3>1. b[m] = Append(b[m - 1], p[m].function)  BY <1>6, <2>1 DEF Stepwise
      <3>2. b[m - 1] = b[0]
        <4>1. /\ 0 \in Nat /\ m - 1 \in Nat /\ 0 <= m - 1 /\ m - 1 <= Len(p)
              /\ \A i \in 0 + 1 .. m - 1 : p[i].name # name
          BY <1>1, <2>1
        <4> QED  BY <1>2, <4>1, CountsNone
      <3>3. b[m - 1] = << >> /\ d[m - 1] = << >>  BY <3>2, <1>6, <1>4 DEF Stepwise
      <3>4. b[m] = <<p[m].function>>  BY <3>1, <3>3
      <3>5. Moved(d[m - 1]) = <<p[m].function>> \o << >>  BY <2>1, <3>3
      <3>6. <<p[m].function>> \o << >> = <<p[m].function>>  OBVIOUS
      <3>7. m + 0 = m /\ m - 1 + 0 = m - 1  BY <1>1
      <3> HIDE DEF Moved
      <3> QED  BY <3>4, <3>5, <3>6, <3>7
    <2>2. CASE p[m].name # name
      <3>1. b[m] = b[m - 1]  BY <1>6, <2>2 DEF Stepwise
      <3>2. m + 0 = m /\ m - 1 + 0 = m - 1  BY <1>1
      <3> QED  BY <1>4, <2>2, <3>1, <3>2
    <2> QED  BY <2>1, <2>2
  <1>9. ASSUME NEW l \in K  PROVE l + 1 \in K
    <2>1. SUFFICES ASSUME m + (l + 1) <= Len(p)
                   PROVE  b[m + (l + 1)] = Moved(d[m - 1 + (l + 1)])
      OBVIOUS
    <2>2. /\ m + (l + 1) \in 1 .. Len(p) /\ (m + (l + 1)) - 1 = m + l
          /\ m - 1 + (l + 1) = m + l /\ m + l \in 1 .. Len(q) /\ m + l \in m .. Len(q)
          /\ (m + l) - 1 = m - 1 + l /\ (m + l) + 1 = m + (l + 1) /\ m - 1 + l \in 0 .. Len(q)
          /\ m + l <= Len(p) /\ l \in Nat
      BY <1>1, <2>1
    <2>3. b[m + l] = Moved(d[m - 1 + l])  BY <2>2
    <2>4. q[m + l] = p[m + (l + 1)]  BY <2>2
    <2>5. d[m - 1 + l] \in Seq(Functions)  BY <1>5, <2>2
    <2>6. CASE q[m + l].name = name
      <3>1. d[m + l] = Append(d[m - 1 + l], q[m + l].function)
        BY <1>7, <2>2, <2>6 DEF Stepwise
      <3>2. b[m + (l + 1)] = Append(b[m + l], q[m + l].function)
        BY <1>6, <2>2, <2>4, <2>6 DEF Stepwise
      <3>3. \A x \in Seq(Functions) : \A f, e : <<f>> \o Append(x, e) = Append(<<f>> \o x, e)
        <4> SUFFICES ASSUME NEW x \in Seq(Functions), NEW f, NEW e
                     PROVE  <<f>> \o Append(x, e) = Append(<<f>> \o x, e)
          OBVIOUS
        <4> DEFINE T == Functions \cup {f, e}
        <4>1. x \in Seq(T) /\ <<f>> \in Seq(T) /\ <<e>> \in Seq(T) /\ f \in T /\ e \in T
          OBVIOUS
        <4> HIDE DEF T
        <4>2. Append(x, e) = x \o <<e>> /\ Append(<<f>> \o x, e) = (<<f>> \o x) \o <<e>>
          BY <4>1, AppendIsConcat, ConcatProperties
        <4> QED  BY <4>1, <4>2, ConcatAssociative
      <3>4. Moved(Append(d[m - 1 + l], q[m + l].function))
              = Append(Moved(d[m - 1 + l]), q[m + l].function)
        <4>1. CASE p[m].name = name
          <5> DEFINE x == d[m - 1 + l]
                     e == q[m + l].function
                     f == p[m].function
          <5>1. <<f>> \o Append(x, e) = Append(<<f>> \o x, e)
            <6> x \in Seq(Functions)  BY <2>5
            <6> HIDE DEF x, e, f
            <6> QED  BY <3>3
          <5>2. Moved(Append(x, e)) = <<f>> \o Append(x, e) /\ Moved(x) = <<f>> \o x
            BY <4>1
          <5> HIDE DEF Moved
          <5> QED  BY <5>1, <5>2
        <4>2. CASE p[m].name # name
          BY <4>2
        <4> QED  BY <4>1, <4>2
      <3> HIDE DEF Moved
      <3> QED  BY <2>2, <2>3, <3>1, <3>2, <3>4
    <2>7. CASE q[m + l].name # name
      <3>1. d[m + l] = d[m - 1 + l] /\ b[m + (l + 1)] = b[m + l]
        BY <1>6, <1>7, <2>2, <2>4, <2>7 DEF Stepwise
      <3> HIDE DEF Moved
      <3> QED  BY <2>2, <2>3, <3>1
    <2> QED  BY <2>6, <2>7
  <1>10. K = Nat
    <2> HIDE DEF K
    <2>1. K \in SUBSET Nat  BY DEF K
    <2> QED  BY <1>8, <1>9, <2>1, Induction
  <1>11. Bound(p, name) = Moved(Bound(q, name))
    <2>1. Len(p) - m \in K /\ m + (Len(p) - m) = Len(p) /\ m - 1 + (Len(p) - m) = Len(q)
      <3> HIDE DEF K
      <3> QED  BY <1>1, <1>10
    <2> HIDE DEF Moved
    <2> QED  BY <1>1, <1>2, <1>3, <2>1
  <1>12. Bound(q, name) \in Seq(Functions)
    BY <1>1, <1>3, <1>5
  <1>13. \A x \in Seq(Functions) : \A f : <<f>> \o x # << >> /\ Tail(<<f>> \o x) = x
    <2> SUFFICES ASSUME NEW x \in Seq(Functions), NEW f
                 PROVE  <<f>> \o x # << >> /\ Tail(<<f>> \o x) = x
      OBVIOUS
    <2> DEFINE T == Functions \cup {f}
               y == <<f>> \o x
    <2>1. x \in Seq(T) /\ <<f>> \in Seq(T) /\ Len(<<f>>) = 1  OBVIOUS
    <2> HIDE DEF T
    <2>2. /\ y \in Seq(T) /\ Len(y) = 1 + Len(x) /\ Len(x) \in Nat
          /\ \A i \in 1 .. Len(x) : y[i + 1] = x[i]
      BY <2>1
    <2> HIDE DEF y
    <2>3. y # << >>  BY <2>2
    <2>4. /\ Tail(y) \in Seq(T) /\ Len(Tail(y)) = Len(x)
          /\ \A i \in 1 .. Len(x) : Tail(y)[i] = x[i]
      BY <2>2, <2>3
    <2>5. Tail(y) = x  BY <2>1, <2>4, SeqEqual
    <2> QED  BY <2>3, <2>5 DEF y
  <1> QED  BY <1>11, <1>12, <1>13

-----------------------------------------------------------------------------
(* The refinement                                                           *)

\* Nothing is registered before the server is initialised, nobody is connected to a
\* server that does not listen, and no watcher is left over when the loop has ended.
LoopInv ==
  /\ loop = "init" => procedures = << >> /\ ~listening
  /\ \A c \in Clients : state[c] # "none" => listening
  /\ pending # {} => listening /\ loop \in {"running", "stopping", "blocked"}

LEMMA LoopInvInit == Init => LoopInv
  BY DEF Init, LoopInv

LEMMA LoopInvNext == IInv /\ LoopInv /\ [Next]_vars => LoopInv'
  <1> SUFFICES ASSUME IInv, LoopInv, [Next]_vars  PROVE LoopInv'
    OBVIOUS
  <1>1. CASE jrpc_server_init
    <2>1. /\ UNCHANGED <<procedures, pending, state>>
          /\ loop = "init" /\ loop' \in {"setup", "ended"}
      BY <1>1 DEF jrpc_server_init, server
    <2> QED  BY <2>1 DEF LoopInv
  <1>2. CASE HostCall \/ jrpc_server_run
    <2>1. /\ UNCHANGED <<listening, pending, state>>
          /\ loop = "setup" /\ loop' \in {"setup", "running"}
      BY <1>2 DEF HostCall, jrpc_server_run, server, host
    <2> QED  BY <2>1 DEF LoopInv
  <1>3. CASE Poll
    <2>1. /\ UNCHANGED <<procedures, listening, loop, state>> /\ loop = "running"
          /\ pending' = Ready /\ Ready # {}
      BY <1>3 DEF Poll, server, host
    <2>2. listening
      <3>1. (\E c \in Clients : Readable(c)) \/ listening
        BY <2>1 DEF Ready
      <3> QED  BY <3>1 DEF Readable, LoopInv
    <2> QED  BY <2>1, <2>2 DEF LoopInv
  <1>4. CASE EndLoop
    <2>1. UNCHANGED <<listening, pending, state>> /\ loop' = "ended"
      BY <1>4 DEF EndLoop, server
    <2>2. pending = {}  BY <1>4 DEF EndLoop, LoopInv
    <2> QED  BY <2>1, <2>2 DEF LoopInv
  <1>5. CASE accept_cb
    <2>1. /\ UNCHANGED <<procedures, listening, loop>>
          /\ pending # {} /\ pending' \subseteq pending
      BY <1>5 DEF accept_cb, Invoked, host
    <2> QED  BY <2>1 DEF LoopInv
  <1>6. ASSUME NEW c \in Clients, connection_cb(c)  PROVE LoopInv'
    <2>1. /\ UNCHANGED <<procedures, listening>> /\ pending # {} /\ pending' \subseteq pending
      BY <1>6 DEF connection_cb, Invoked, host
    <2>2. loop' \in {loop, "stopping", "blocked"}
      <3>1. CASE NothingRead(c)  BY <3>1 DEF NothingRead
      <3>2. ASSUME NEW n \in 1 .. Min({max_read_size(c), Len(wire[c])}), Received(c, n)
            PROVE  loop' \in {loop, "stopping", "blocked"}
        BY <3>2 DEF Received, TakeValue, AwaitRest, RefuseText, BlockInWrite
      <3> QED  BY <1>6, <3>1, <3>2 DEF connection_cb
    <2> QED  BY <2>1, <2>2 DEF LoopInv
  <1>7. ASSUME NEW c \in Clients, Connect(c)  PROVE LoopInv'
    <2>1. UNCHANGED <<procedures, listening, loop, pending>> /\ listening
      BY <1>7 DEF Connect, host
    <2> QED  BY <2>1 DEF LoopInv
  <1>8. ASSUME NEW c \in Clients, \/ StopSending(c) \/ Reset(c)
                                  \/ \E r \in Programs[c] : Send(c, r)
        PROVE  LoopInv'
    <2>1. UNCHANGED <<procedures, listening, loop, pending, state>>
      BY <1>8 DEF StopSending, Reset, Send, host, server
    <2> QED  BY <2>1 DEF LoopInv
  <1>9. CASE UNCHANGED vars
    BY <1>9 DEF vars, host, server, LoopInv
  <1> QED  BY <1>1, <1>2, <1>3, <1>4, <1>5, <1>6, <1>7, <1>8, <1>9 DEF Next, Serve

LEMMA MaxType ==
  ASSUME NEW N \in Nat, NEW T \in SUBSET (1 .. N), T # {}
  PROVE  Max(T) \in T /\ \A y \in T : y <= Max(T)
  <1> DEFINE U == {N - y : y \in T}
  <1>1. U \in SUBSET Nat /\ U # {}
    <2>1. \A y \in T : N - y \in Nat  OBVIOUS
    <2>2. PICK y \in T : TRUE  OBVIOUS
    <2>3. N - y \in U  OBVIOUS
    <2>4. \A v \in U : v \in Nat  BY <2>1
    <2> HIDE DEF U
    <2> QED  BY <2>3, <2>4
  <1>2. PICK u \in U : \A v \in U : u <= v  BY <1>1, Least
  <1>3. PICK x \in T : u = N - x  OBVIOUS
  <1>4. \A y \in T : y <= x
    <2> SUFFICES ASSUME NEW y \in T  PROVE y <= x
      OBVIOUS
    <2>1. N - y \in U  OBVIOUS
    <2>2. N - x <= N - y  BY <1>2, <1>3, <2>1
    <2> QED  BY <2>2
  <1> QED  BY <1>4 DEF Max

\* The function that serves a name is the one bound to it last.
LEMMA FoundIsLast ==
  ASSUME IInv, NEW name
  PROVE  IF Bound(procedures, name) = << >> THEN Found(name) = NoFunction
         ELSE /\ Found(name) = Bound(procedures, name)[Len(Bound(procedures, name))]
              /\ Found(name) # NoFunction
  <1> DEFINE E == [name : Names, function : Functions]
             j == Max(Entries(name))
  <1>1. procedures \in Table  BY DEF IInv, TableOK, Table
  <1>2. /\ Len(procedures) \in Nat
        /\ Entries(name) = {i \in 1 .. Len(procedures) : procedures[i].name = name}
    <2>1. procedures \in Seq(E)  BY <1>1 DEF Table
    <2> HIDE DEF E
    <2> QED  BY <2>1 DEF Entries
  <1>3. CASE Entries(name) = {}
    <2>1. \A i \in 1 .. Len(procedures) : procedures[i].name # name  BY <1>2, <1>3
    <2>2. Bound(procedures, name) = << >>  BY <1>1, <2>1, BoundNone
    <2> QED  BY <1>3, <2>2 DEF Found
  <1>4. CASE Entries(name) # {}
    <2>1. j \in Entries(name) /\ \A i \in Entries(name) : i <= j
      BY <1>2, <1>4, MaxType
    <2> HIDE DEF j
    <2>2. /\ j \in 1 .. Len(procedures) /\ procedures[j].name = name
          /\ \A i \in 1 .. Len(procedures) : procedures[i].name = name => i <= j
      BY <1>2, <2>1
    <2>3. /\ Bound(procedures, name) # << >>
          /\ Bound(procedures, name)[Len(Bound(procedures, name))] = procedures[j].function
      BY <1>1, <2>2, BoundLast
    <2>4. Found(name) = procedures[j].function  BY <1>4 DEF Found, j
    <2>5. procedures[j].function \in Functions
      <3>1. procedures \in Seq(E)  BY <1>1 DEF Table
      <3> HIDE DEF E
      <3>2. procedures[j] \in E  BY <2>2, <3>1
      <3> QED  BY <3>2 DEF E
    <2> QED  BY <2>3, <2>4, <2>5, RpcAssumption
  <1> QED  BY <1>3, <1>4

\* What the host does to the table the service does to the bindings.
Registers ==
  \E n \in Names :
    Service!Deregister(n) \/ \E f \in Functions : Service!Register(n, f)

LEMMA HostCallServes ==
  ASSUME IInv, HostCall
  PROVE  Registers \/ UNCHANGED Service!vars
  <1> DEFINE E == [name : Names, function : Functions]
             B(p) == [n \in Names |-> Bound(p, n)]
             call == calls[1]
  <1>1. /\ calls \in Seq(HostCalls) /\ calls # << >> /\ procedures \in Table
        /\ UNCHANGED <<loop, state, sent, taken, answers, lost>>
    BY DEF HostCall, IInv, TableOK, Table, client, server
  <1>2. call \in HostCalls  BY <1>1
  <1>3. call.name \in Names /\ call.function \in Functions  BY <1>2 DEF HostCalls
  <1>4. /\ UNCHANGED <<sent, taken, answers, lost>>
        /\ {c \in Clients : state[c] = "open" /\ loop # "ended"}'
             = {c \in Clients : state[c] = "open" /\ loop # "ended"}
    BY <1>1
  <1>5. CASE jrpc_register_procedure(call.name, call.function)
    <2> DEFINE e == [name |-> call.name, function |-> call.function]
    <2>1. e \in E /\ e.name = call.name /\ e.function = call.function  BY <1>3
    <2>2. procedures' = Append(procedures, e)
      BY <1>5 DEF jrpc_register_procedure
    <2> HIDE DEF e, call
    <2>3. \A n \in Names :
            Bound(procedures', n) = IF call.name = n
              THEN Append(Bound(procedures, n), call.function) ELSE Bound(procedures, n)
      BY <1>1, <2>1, <2>2, BoundAppended
    <2>4. B(procedures') = [B(procedures) EXCEPT ![call.name] = Append(@, call.function)]
      BY <1>3, <2>3
    <2>5. Service!Register(call.name, call.function)
      BY <1>4, <2>4 DEF Service!Register
    <2> QED  BY <1>3, <2>5 DEF Registers
  <1>6. CASE jrpc_deregister_procedure(call.name)
    <2> DEFINE m == Min(Entries(call.name))
    <2>0. procedures' = Deregistered(call.name)  BY <1>6 DEF jrpc_deregister_procedure
    <2>1. CASE Entries(call.name) = {}
      <3>1. procedures' = procedures  BY <2>0, <2>1 DEF Deregistered
      <3> QED  BY <1>4, <3>1 DEF Service!vars
    <2>2. CASE Entries(call.name) # {}
      <3> HIDE DEF call
      <3>1. procedures \in Seq(E)  BY <1>1 DEF Table
      <3>2. /\ Len(procedures) \in Nat
            /\ Entries(call.name) =
                 {i \in 1 .. Len(procedures) : procedures[i].name = call.name}
        <4> HIDE DEF E
        <4> QED  BY <3>1 DEF Entries
      <3>3. m \in Entries(call.name) /\ \A i \in Entries(call.name) : m <= i
        <4>1. Entries(call.name) \in SUBSET Nat  BY <3>2
        <4> QED  BY <2>2, <4>1, MinType
      <3>4. procedures' = RemoveAt(procedures, m)
        BY <2>0, <2>2 DEF Deregistered
      <3> HIDE DEF m, E
      <3>5. /\ m \in 1 .. Len(procedures) /\ procedures[m].name = call.name
            /\ \A i \in 1 .. m - 1 : procedures[i].name # procedures[m].name
        BY <3>2, <3>3
      <3> DEFINE a == SubSeq(procedures, 1, m - 1)
                 z == SubSeq(procedures, m + 1, Len(procedures))
                 q == a \o z
      <3>6. /\ a \in Seq(E) /\ Len(a) = m - 1 /\ \A i \in 1 .. m - 1 : a[i] = procedures[i]
        BY <3>1, <3>2, <3>5, SubSeqProperties
      <3>7. /\ z \in Seq(E) /\ Len(z) = Len(procedures) - m
            /\ \A i \in 1 .. Len(procedures) - m : z[i] = procedures[m + i]
        BY <3>1, <3>2, <3>5, SubSeqProperties
      <3>8. procedures' = q  BY <3>4 DEF RemoveAt
      <3> HIDE DEF a, z
      <3>9. /\ q \in Seq(E) /\ Len(q) = Len(procedures) - 1
            /\ \A i \in 1 .. m - 1 : q[i] = procedures[i]
            /\ \A i \in m .. Len(q) : q[i] = procedures[i + 1]
        <4>1. q \in Seq(E) /\ Len(q) = Len(a) + Len(z)  BY <3>6, <3>7
        <4>2. Len(q) = Len(procedures) - 1  BY <3>2, <3>5, <3>6, <3>7, <4>1
        <4>3. ASSUME NEW i \in 1 .. m - 1  PROVE q[i] = procedures[i]
          <5>1. q[i] = a[i]  BY <3>6, <3>7
          <5> QED  BY <3>6, <5>1
        <4>4. ASSUME NEW i \in m .. Len(q)  PROVE q[i] = procedures[i + 1]
          <5>1. /\ i - (m - 1) \in 1 .. Len(procedures) - m /\ i > Len(a)
                /\ i - Len(a) = i - (m - 1) /\ m + (i - (m - 1)) = i + 1
                /\ i \in 1 .. Len(a) + Len(z)
            BY <3>2, <3>5, <3>6, <3>7, <4>2
          <5>2. q[i] = z[i - Len(a)]
            <6>1. q[i] = IF i <= Len(a) THEN a[i] ELSE z[i - Len(a)]
              BY <3>6, <3>7, <5>1, ConcatProperties
            <6>2. ~(i <= Len(a))  BY <3>2, <3>5, <3>6, <5>1
            <6> QED  BY <6>1, <6>2
          <5> QED  BY <3>7, <5>1, <5>2
        <4> QED  BY <4>1, <4>2, <4>3, <4>4
      <3> HIDE DEF q
      <3>10. q \in Table  BY <3>9 DEF Table, E
      <3>11. \A n \in Names :
               /\ call.name = n => /\ Bound(procedures, n) # << >>
                                   /\ Bound(q, n) = Tail(Bound(procedures, n))
               /\ call.name # n => Bound(q, n) = Bound(procedures, n)
        <4>1. \A n \in Names :
                /\ procedures[m].name = n => /\ Bound(procedures, n) # << >>
                                             /\ Bound(q, n) = Tail(Bound(procedures, n))
                /\ procedures[m].name # n => Bound(q, n) = Bound(procedures, n)
          BY <1>1, <3>5, <3>9, <3>10, BoundRemoved
        <4> QED  BY <3>5, <4>1
      <3>12. B(procedures') = [B(procedures) EXCEPT ![call.name] = Tail(@)]
        BY <1>3, <3>8, <3>11
      <3>13. B(procedures)[call.name] # << >>  BY <1>3, <3>11
      <3>14. Service!Deregister(call.name)
        BY <1>4, <3>12, <3>13 DEF Service!Deregister
      <3> QED  BY <1>3, <3>14 DEF Registers
    <2> QED  BY <2>1, <2>2
  <1> QED  BY <1>5, <1>6 DEF HostCall

StillOpen == {c \in Clients : state[c] = "open" /\ loop # "ended"}

LEMMA SameService ==
  ASSUME UNCHANGED <<procedures, sent, taken, answers, lost>>, StillOpen' = StillOpen
  PROVE  UNCHANGED Service!vars
  BY DEF Service!vars, StillOpen

LEMMA InitServes == Init => Service!Init
  <1> SUFFICES ASSUME Init  PROVE Service!Init
    OBVIOUS
  <1>1. /\ procedures = << >> /\ loop = "init" /\ state = [c \in Clients |-> "none"]
        /\ sent = [c \in Clients |-> << >>] /\ answers = [c \in Clients |-> << >>]
        /\ taken = [c \in Clients |-> 0] /\ lost = {}
    BY DEF Init
  <1>2. [n \in Names |-> Bound(procedures, n)] = [n \in Names |-> << >>]
    BY <1>1, BoundEmpty
  <1>3. {c \in Clients : state[c] = "open" /\ loop # "ended"} = {}
    BY <1>1
  <1> QED  BY <1>1, <1>2, <1>3 DEF Service!Init

LEMMA LoopServes ==
  ASSUME IInv, LoopInv, jrpc_server_init \/ jrpc_server_run \/ Poll \/ EndLoop
  PROVE  Service!Retire \/ UNCHANGED Service!vars
  <1>1. UNCHANGED <<state, sent, taken, answers, lost>>
    BY DEF jrpc_server_init, jrpc_server_run, Poll, EndLoop, client, server
  <1>2. CASE loop' = "ended"
    <2>1. procedures' = << >>
      BY <1>2 DEF jrpc_server_init, jrpc_server_run, Poll, EndLoop, LoopInv, host
    <2>2. [n \in Names |-> Bound(procedures', n)] = [n \in Names |-> << >>]
      BY <2>1, BoundEmpty
    <2>3. {c \in Clients : state'[c] = "open" /\ loop' # "ended"} = {}
      BY <1>2
    <2>4. Service!Retire  BY <1>1, <2>2, <2>3 DEF Service!Retire
    <2> QED  BY <2>4
  <1>3. CASE loop' # "ended"
    <2>1. UNCHANGED procedures /\ loop # "ended"
      BY <1>3 DEF jrpc_server_init, jrpc_server_run, Poll, EndLoop, host
    <2>2. StillOpen' = StillOpen  BY <1>1, <1>3, <2>1 DEF StillOpen
    <2> QED  BY <1>1, <2>1, <2>2, SameService
  <1> QED  BY <1>2, <1>3

LEMMA AcceptServes ==
  ASSUME IInv, LoopInv, accept_cb
  PROVE  (\E c \in Clients : Service!Connect(c)) \/ UNCHANGED Service!vars
  <1>1. UNCHANGED <<procedures, loop, sent, taken, answers, lost>> /\ pending # {}
    BY DEF accept_cb, Invoked, host, client
  <1>2. ASSUME NEW c \in Backlog, state' = [state EXCEPT ![c] = "open"]
        PROVE  \E d \in Clients : Service!Connect(d)
    <2>1. c \in Clients /\ loop # "ended"  BY <1>1 DEF Backlog, LoopInv
    <2>2. DOMAIN state = Clients  BY DEF IInv, DomainsOK, Of
    <2>3. {d \in Clients : state'[d] = "open" /\ loop' # "ended"}
            = {d \in Clients : state[d] = "open" /\ loop # "ended"} \cup {c}
      BY <1>1, <1>2, <2>1, <2>2
    <2>4. Service!Connect(c)  BY <1>1, <2>3 DEF Service!Connect
    <2> QED  BY <2>1, <2>4
  <1>3. CASE UNCHANGED state
    <2>1. StillOpen' = StillOpen  BY <1>1, <1>3 DEF StillOpen
    <2> QED  BY <1>1, <2>1, SameService
  <1> QED  BY <1>2, <1>3 DEF accept_cb

\* Who has closed a connection has left.
LEMMA NothingReadServes ==
  ASSUME IInv, NEW c \in Clients, NothingRead(c), UNCHANGED <<host, sent>>
  PROVE  Service!Hangup(c)
  <1>1. /\ UNCHANGED <<procedures, loop, sent, taken, answers, lost>>
        /\ state' = [state EXCEPT ![c] = "closed"]
    BY DEF NothingRead, close_connection, host
  <1>2. DOMAIN state = Clients  BY DEF IInv, DomainsOK, Of
  <1>3. {d \in Clients : state'[d] = "open" /\ loop' # "ended"}
          = {d \in Clients : state[d] = "open" /\ loop # "ended"} \ {c}
    BY <1>1, <1>2
  <1> QED  BY <1>1, <1>3 DEF Service!Hangup

\* What the parser understands is answered by what the request means.
LEMMA AnswersMeant ==
  ASSUME IInv, NEW parsed, NEW r \in Requests, Means(parsed, r), r.kind # "no object"
  PROVE  eval_request(parsed.members) = Service!Answer(r)
  <1>1. r.name \in Names  BY RpcAssumption
  <1> DEFINE bindings == [n \in Names |-> Bound(procedures, n)]
  <1>2. bindings[r.name] = Bound(procedures, r.name)  BY <1>1
  <1>3. CASE r.kind = "invalid"
    BY <1>3 DEF Means, eval_request, Reply, Service!Answer, Service!Answered
  <1>4. CASE r.kind # "invalid"
    <2>1. /\ IsRequest(parsed.members)
          /\ GetObjectItem(parsed.members, "method").content = r.name
          /\ GetObjectItem(parsed.members, "id").content = r.id
      BY <1>4 DEF Means
    <2>2. eval_request(parsed.members) = Invoke(r.name, r.id)
      BY <2>1 DEF eval_request
    <2>3. CASE bindings[r.name] = << >>
      <3>1. Invoke(r.name, r.id) = Reply("method not found", NoFunction, r.id)
        BY <1>2, <2>3, FoundIsLast DEF Invoke
      <3>2. Service!Answer(r) = Service!Answered("method not found", NoFunction, r.id)
        BY <1>4, <2>3 DEF Service!Answer
      <3> QED  BY <2>2, <3>1, <3>2 DEF Reply, Service!Answered
    <2>4. CASE bindings[r.name] # << >>
      <3>1. /\ Found(r.name) = bindings[r.name][Len(bindings[r.name])]
            /\ Found(r.name) # NoFunction
        BY <1>2, <2>4, FoundIsLast
      <3>2. Invoke(r.name, r.id) = Reply("result", Found(r.name), r.id)
        BY <3>1 DEF Invoke
      <3>3. Service!Answer(r)
              = Service!Answered("result", bindings[r.name][Len(bindings[r.name])], r.id)
        BY <1>4, <2>4 DEF Service!Answer
      <3> HIDE DEF bindings
      <3> QED  BY <2>2, <3>1, <3>2, <3>3 DEF Reply, Service!Answered
    <2> QED  BY <2>3, <2>4
  <1> QED  BY <1>3, <1>4

LEMMA ReceivedServes ==
  ASSUME IInv, LoopInv, Understood, NEW c \in Clients, Invoked(c),
         UNCHANGED <<host, eof, broken, sent, ahead>>,
         NEW n \in 1 .. Min({max_read_size(c), Len(wire[c])}), Received(c, n)
  PROVE  \/ Service!Take(c) \/ Service!Muddle(c) \/ Service!Refuse(c)
         \/ UNCHANGED Service!vars
  <1> DEFINE text == buffer[c] \o SubSeq(wire[c], 1, n)
             parsed == ParseStream(text)
             open == {d \in Clients : state[d] = "open" /\ loop # "ended"}
  <1>1. state[c] = "open" /\ DomainsOK /\ Connection(c)  BY InvokedConnection
  <1>2. pending # {} /\ loop # "blocked"  BY DEF Invoked
  <1>3. loop \in {"running", "stopping"} /\ loop # "ended"  BY <1>2 DEF LoopInv
  <1>4. c \in open  BY <1>1, <1>3
  <1>5. UNCHANGED <<procedures, sent>>  BY DEF host
  <1>6. \/ TakeValue(c, text, parsed)
        \/ AwaitRest(c, text, parsed) \/ BlockInWrite(c, text, parsed)
        \/ RefuseText(c, text, parsed)
    BY DEF Received
  <1>7. c \notin lost /\ parsed.rule = "done" =>
          taken[c] < Len(sent[c]) /\ Means(parsed, sent[c][taken[c] + 1])
    BY <1>1 DEF Understood
  <1>8. DOMAIN state = Clients /\ DOMAIN taken = Clients /\ DOMAIN answers = Clients
    BY <1>1 DEF DomainsOK, Of
  <1> HIDE DEF text, parsed
  <1>9. CASE TakeValue(c, text, parsed) /\ c \notin lost
    <2> DEFINE r == sent[c][taken[c] + 1]
    <2>1. /\ parsed.rule = "done" /\ taken' = [taken EXCEPT ![c] = @ + 1] /\ UNCHANGED state
          /\ \/ UNCHANGED lost
             \/ taken[c] + 1 < Len(sent[c]) /\ lost' = lost \cup {c}
      BY <1>9 DEF TakeValue, Drops
    <2>2. taken[c] < Len(sent[c]) /\ Means(parsed, r)  BY <1>7, <1>9, <2>1
    <2>3. r \in Programs[c]
      <3> DEFINE P == Programs[c]
      <3>1. sent[c] \in Seq(P) /\ taken[c] \in Nat  BY <1>1 DEF Connection
      <3> HIDE DEF P
      <3>2. Len(sent[c]) \in Nat  BY <3>1
      <3>3. taken[c] + 1 \in 1 .. Len(sent[c])  BY <2>2, <3>1, <3>2
      <3>4. r \in P  BY <3>1, <3>3
      <3> QED  BY <3>4 DEF P
    <2>4. r \in Requests  BY <2>3, RpcAssumption
    <2> HIDE DEF r
    <2>5. r.kind # "malformed" /\ (r.kind = "no object" <=> parsed.value.type # "object")
      BY <2>2 DEF Means
    <2>6. /\ answers' = IF r.kind = "no object" THEN answers
                        ELSE [answers EXCEPT ![c] = Append(@, Service!Answer(r))]
          /\ loop' \in {loop, "stopping"}
      <3>1. CASE r.kind = "no object"
        BY <1>9, <2>5, <3>1 DEF TakeValue
      <3>2. CASE r.kind # "no object"
        <4>1. eval_request(parsed.members) = Service!Answer(r)
          BY <2>2, <2>4, <3>2, AnswersMeant
        <4>2. /\ answers' = [answers EXCEPT ![c] = Append(@, eval_request(parsed.members))]
              /\ loop' \in {loop, "stopping"}
          BY <1>9, <2>5, <3>2 DEF TakeValue
        <4> QED  BY <3>2, <4>1, <4>2
      <3> QED  BY <3>1, <3>2
    <2>7. {d \in Clients : state'[d] = "open" /\ loop' # "ended"} = open
      BY <1>3, <2>1, <2>6
    <2> HIDE DEF open
    <2>8. Service!Take(c)
      BY <1>4, <1>5, <2>1, <2>2, <2>5, <2>6, <2>7 DEF Service!Take, open, r
    <2> QED  BY <2>8
  <1>10. CASE TakeValue(c, text, parsed) /\ c \in lost
    <2>1. /\ taken' = [taken EXCEPT ![c] = @ + 1]
          /\ UNCHANGED <<state, lost>>
          /\ \/ \E reply : answers' = [answers EXCEPT ![c] = Append(@, reply)]
             \/ UNCHANGED answers
          /\ loop' \in {loop, "stopping"}
      BY <1>10 DEF TakeValue
    <2>2. /\ taken' = [taken EXCEPT ![c] = taken'[c]]
          /\ answers' = [answers EXCEPT ![c] = answers'[c]]
      <3>1. Of(taken) /\ Of(answers)  BY <1>1 DEF DomainsOK
      <3>2. ASSUME NEW f, Of(f), NEW e
            PROVE  [f EXCEPT ![c] = e] = [f EXCEPT ![c] = [f EXCEPT ![c] = e][c]]
        BY <3>2 DEF Of
      <3>3. ASSUME NEW f, Of(f)  PROVE f = [f EXCEPT ![c] = f[c]]
        BY <3>3 DEF Of
      <3>4. taken' = [taken EXCEPT ![c] = taken'[c]]
        BY <2>1, <3>1, <3>2
      <3>5. answers' = [answers EXCEPT ![c] = answers'[c]]
        BY <2>1, <3>1, <3>2, <3>3
      <3> QED  BY <3>4, <3>5
    <2>3. {d \in Clients : state'[d] = "open" /\ loop' # "ended"} = open
      BY <1>3, <2>1
    <2> HIDE DEF open
    <2>4. Service!Muddle(c)
      BY <1>4, <1>5, <1>10, <2>1, <2>2, <2>3 DEF Service!Muddle, open
    <2> QED  BY <2>4
  <1>11. CASE AwaitRest(c, text, parsed) \/ BlockInWrite(c, text, parsed)
    <2>1. UNCHANGED <<state, answers, taken, lost>> /\ loop' \in {loop, "blocked"}
      BY <1>11 DEF AwaitRest, BlockInWrite
    <2>2. StillOpen' = StillOpen  BY <1>3, <2>1 DEF StillOpen
    <2> QED  BY <1>5, <2>1, <2>2, SameService
  <1>12. CASE RefuseText(c, text, parsed)
    <2>1. /\ answers' =
               [answers EXCEPT ![c] = Append(@, Reply("parse error", NoFunction, << >>))]
          /\ state' = [state EXCEPT ![c] = "closed"]
          /\ UNCHANGED <<loop, taken, lost>>
      BY <1>12 DEF RefuseText, close_connection
    <2>2. {d \in Clients : state'[d] = "open" /\ loop' # "ended"} = open \ {c}
      BY <1>8, <2>1
    <2>3. Reply("parse error", NoFunction, << >>)
            = Service!Answered("parse error", NoFunction, << >>)
      BY DEF Reply, Service!Answered
    <2>4. Service!Refuse(c)
      BY <1>4, <1>5, <2>1, <2>2, <2>3 DEF Service!Refuse
    <2> QED  BY <2>4
  <1> QED  BY <1>6, <1>9, <1>10, <1>12, <1>11

LEMMA ClientServes ==
  ASSUME IInv, NEW c \in Clients,
         \/ Connect(c) \/ StopSending(c) \/ Reset(c)
         \/ \E r \in Programs[c] : Send(c, r)
  PROVE  (\E r \in Requests : Service!Send(c, r)) \/ UNCHANGED Service!vars
  <1>1. UNCHANGED <<procedures, loop, answers, taken, lost>>
    BY DEF Connect, StopSending, Reset, Send, server, host
  <1>2. CASE Connect(c)
    <2>1. sent' = sent /\ state[c] = "none" /\ state' = [state EXCEPT ![c] = "backlog"]
      BY <1>2 DEF Connect, client
    <2>2. StillOpen' = StillOpen
      <3>1. DOMAIN state = Clients  BY DEF IInv, DomainsOK, Of
      <3>2. \A d \in Clients : state'[d] = "open" <=> state[d] = "open"  BY <2>1, <3>1
      <3> QED  BY <1>1, <3>2 DEF StillOpen
    <2> QED  BY <1>1, <2>1, <2>2, SameService
  <1>3. CASE StopSending(c) \/ Reset(c)
    <2>1. sent' = sent /\ state' = state
      BY <1>3 DEF StopSending, Reset, server
    <2>2. StillOpen' = StillOpen  BY <1>1, <2>1 DEF StillOpen
    <2> QED  BY <1>1, <2>1, <2>2, SameService
  <1>4. ASSUME NEW r \in Programs[c], Send(c, r)  PROVE \E q \in Requests : Service!Send(c, q)
    <2>1. sent' = [sent EXCEPT ![c] = Append(@, r)] /\ state' = state
      BY <1>4 DEF Send, server
    <2>2. r \in Requests  BY RpcAssumption
    <2>3. {d \in Clients : state'[d] = "open" /\ loop' # "ended"}
            = {d \in Clients : state[d] = "open" /\ loop # "ended"}
      BY <1>1, <2>1
    <2>4. Service!Send(c, r)  BY <1>1, <2>1, <2>3 DEF Service!Send
    <2> QED  BY <2>2, <2>4
  <1> QED  BY <1>2, <1>3, <1>4

LEMMA NextServes ==
  ASSUME IInv, LoopInv, Understood, [Next]_vars
  PROVE  [Service!Next]_(Service!vars)
  <1>1. CASE jrpc_server_init \/ jrpc_server_run \/ Poll \/ EndLoop
    BY <1>1, LoopServes DEF Service!Next
  <1>2. CASE HostCall
    BY <1>2, HostCallServes DEF Service!Next, Registers
  <1>3. CASE accept_cb
    BY <1>3, AcceptServes DEF Service!Next
  <1>4. ASSUME NEW c \in Clients, connection_cb(c)  PROVE [Service!Next]_(Service!vars)
    <2>1. Invoked(c) /\ UNCHANGED <<host, eof, broken, sent, ahead>>
      BY <1>4 DEF connection_cb
    <2>2. CASE NothingRead(c)
      BY <2>1, <2>2, NothingReadServes DEF Service!Next
    <2>3. ASSUME NEW n \in 1 .. Min({max_read_size(c), Len(wire[c])}), Received(c, n)
          PROVE  [Service!Next]_(Service!vars)
      <3>1. \/ Service!Take(c) \/ Service!Muddle(c) \/ Service!Refuse(c)
            \/ UNCHANGED Service!vars
        BY <2>1, <2>3, ReceivedServes
      <3> QED  BY <3>1 DEF Service!Next
    <2> QED  BY <1>4, <2>2, <2>3 DEF connection_cb
  <1>5. ASSUME NEW c \in Clients,
               \/ Connect(c) \/ StopSending(c) \/ Reset(c)
               \/ \E r \in Programs[c] : Send(c, r)
        PROVE  [Service!Next]_(Service!vars)
    BY <1>5, ClientServes DEF Service!Next
  <1>6. CASE UNCHANGED vars
    <2>1. UNCHANGED <<procedures, sent, taken, answers, state, loop, lost>>
      BY <1>6 DEF vars, host, client, server
    <2>2. StillOpen' = StillOpen  BY <2>1 DEF StillOpen
    <2> QED  BY <2>1, <2>2, SameService
  <1> QED  BY <1>1, <1>2, <1>3, <1>4, <1>5, <1>6 DEF Next, Serve

\* As long as the parser finds in what is read what the clients mean, the server
\* serves them.
LEMMA ServesIfUnderstood == Spec /\ []Understood => ImplementsService
  <1>1. Init => Service!Init  BY InitServes
  <1>2. IInv /\ LoopInv /\ Understood /\ [Next]_vars => [Service!Next]_(Service!vars)
    BY NextServes
  <1>3. Spec => []LoopInv
    <2>1. Spec => []IInv  BY Invariance
    <2> QED  BY <2>1, LoopInvInit, LoopInvNext, PTL DEF Spec
  <1> QED  BY <1>1, <1>2, <1>3, Invariance, PTL DEF Spec, ImplementsService, Service!Spec

\* The server serves its clients: the table of procedures, the event loop, growing
\* buffers, requests read in pieces, callbacks in any order, and a shift that may lose
\* what was sent ahead, are an implementation of RpcService.
THEOREM ServiceImplemented == Spec => ImplementsService
  BY Understands, ServesIfUnderstood, PTL
=============================================================================
