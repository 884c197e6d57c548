----------------------------- MODULE PinDriver ------------------------------
(***************************************************************************)
(* The callbacks of the gpio, digital and misc classes, which read and     *)
(* write a line through one system call each, in the same words:           *)
(* src/src/class/ldal_gpio.c, ldal_digital.c and ldal_misc.c.  A digital   *)
(* input counts pulses as well.                                            *)
(***************************************************************************)
EXTENDS Naturals

CONSTANT MaxPulses   \* bound

VARIABLES
  level,      \* of the line
  pulses      \* what a digital input has counted

pinVars == <<level, pulses>>

Init == level = 0 /\ pulses = 0

Open == UNCHANGED pinVars
Close == UNCHANGED pinVars
Read == UNCHANGED pinVars

\* The system call may fail.
Write(l) == level' \in {level, l} /\ UNCHANGED pulses

\* The three ioctls of digital_control: the count is read, or cleared, or an
\* output told its period; anything else does nothing and is a success too.
DigitalControl ==
  /\ pulses' \in {pulses, 0}
  /\ UNCHANGED level

\* The state of the battery is asked for.
MiscControl == UNCHANGED pinVars

Arrives ==
  /\ level' = 1 - level
  /\ pulses' = IF level' = 1 /\ pulses < MaxPulses THEN pulses + 1 ELSE pulses
=============================================================================
