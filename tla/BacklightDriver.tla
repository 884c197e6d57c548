-------------------------- MODULE BacklightDriver --------------------------
(***************************************************************************)
(* The callbacks of the backlight class, src/src/class/ldal_backlight.c:   *)
(* levels from 0 to 100 scaled, in single precision, to what the panel     *)
(* takes, without its darkest part.                                        *)
(***************************************************************************)
EXTENDS Integers

CONSTANTS
  Maxima,      \* what panels say of max_brightness; 1 would be min as well
  NoLevel

VARIABLES
  max, min,    \* of struct ldal_backlight_device
  brightness,  \* the panel's
  asked        \* ghost: the level written last

backlightVars == <<max, min, brightness, asked>>

Levels == 0 .. 100

\* backlight_init: a fifth of max (its comment says 5%), or the defaults.
Init ==
  /\ \/ max \in Maxima /\ min = IF max > 32 THEN max \div 5 ELSE 1
     \/ max = 255 /\ min = 20
  /\ brightness \in {0, max} /\ asked = NoLevel

\* n / d cut to an integer: what the float arithmetic makes of it, which may
\* be one less if n / d is an integer already.
Cut(n, d) ==
  LET q == IF n < 0 THEN -((-n) \div d) ELSE n \div d
  IN  IF n > 0 /\ n % d = 0 THEN {q - 1, q} ELSE {q}

\* What backlight_read may give now.
Readings == Cut((brightness - min) * 100, max - min)

\* Seeded fault: the level is scaled to all of the panel's range.
WholeRange(level) == {b + min : b \in Cut(level * max, 100)}

Scaled(level) == {b + min : b \in Cut(level * (max - min), 100)}

Write(level) ==
  /\ brightness' \in Scaled(level) /\ asked' = level
  /\ UNCHANGED <<max, min>>

\* Opening, closing and reading, and writes that are refused or fail.
Quiet == UNCHANGED backlightVars
=============================================================================
