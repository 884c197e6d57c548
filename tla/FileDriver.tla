----------------------------- MODULE FileDriver -----------------------------
(***************************************************************************)
(* The callbacks of the file class, src/src/class/ldal_file.c, over one    *)
(* file with one position, which reads move as well as writes.             *)
(***************************************************************************)
EXTENDS Naturals, Sequences

CONSTANTS
  Byte,
  FileMax      \* bound: the length of the file

VARIABLES
  content, pos,
  settled      \* ghost: since it was opened it was empty or has been read

fileVars == <<content, pos, settled>>

\* The file may be there before the program is.
Init == content \in {<<>>} \cup {<<b>> : b \in Byte} /\ pos = 0 /\ settled = FALSE

Open == pos' = 0 /\ settled' = (content = <<>>) /\ UNCHANGED content

Close == UNCHANGED fileVars

\* Seeded fault: the position is put back after reading, not before.
Rewinds(n) == pos' = 0 /\ settled' = TRUE /\ UNCHANGED content

\* lseek to the beginning, then read
Read(n) ==
  /\ pos' = IF n < Len(content) THEN n ELSE Len(content)
  /\ settled' = TRUE /\ UNCHANGED content

Over(data) ==
  SubSeq(content, 1, pos) \o data \o SubSeq(content, pos + Len(data) + 1, Len(content))

\* write(2) may take less than it is given, which is not looked at.
Write(data) ==
  \E n \in 0 .. Len(data) :
    /\ pos + n <= FileMax
    /\ content' = Over(SubSeq(data, 1, n))
    /\ pos' = pos + n
    /\ UNCHANGED settled
=============================================================================
