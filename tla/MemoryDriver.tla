---------------------------- MODULE MemoryDriver ----------------------------
(***************************************************************************)
(* The callbacks of the memory class, src/src/class/ldal_memory.c: open    *)
(* allocates a ring buffer, close frees it and keeps the pointer.          *)
(***************************************************************************)
EXTENDS Naturals, Sequences

CONSTANTS Capacity, Byte, MaxLength

VARIABLES
  pointer,      \* what mem->user_data points to: "null", "live" or "freed"
  queue, ret    \* of the buffer, see BoundedFifo

Ring == INSTANCE BoundedFifo

memoryVars == <<pointer, queue, ret>>

Init == pointer = "null" /\ Ring!Init

Open == pointer' = "live" /\ queue' = <<>> /\ UNCHANGED ret

\* dg_ringbuffer_create finds no memory: the old pointer stays.
OpenFails == UNCHANGED memoryVars

Close ==
  /\ pointer' = IF pointer = "null" THEN "null" ELSE "freed"
  /\ queue' = <<>> /\ UNCHANGED ret

\* Without a buffer there is an error; what is done with a freed one is
\* undefined, and nothing here depends on it.
Read(n) ==
  /\ UNCHANGED pointer
  /\ IF pointer = "live" THEN Ring!Read(n) ELSE UNCHANGED <<queue, ret>>

Write(data) ==
  /\ UNCHANGED pointer
  /\ IF pointer = "live" THEN Ring!Write(data) ELSE UNCHANGED <<queue, ret>>

Control == UNCHANGED memoryVars
=============================================================================
