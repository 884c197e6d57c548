----------------------------- MODULE MCRegistry -----------------------------
(* TLC instances of Registry: two names of which one is a prefix of the     *)
(* other, a class the switch of ldal_device_class_set has and one, like the *)
(* backlight, that it has not.                                              *)
EXTENDS Registry, TLC

CONSTANTS d1, d2, d3, com1, com10, gpio, backlight

AllNames == {com1, com10}
Prefixes == {<<com1, com1>>, <<com10, com10>>, <<com1, com10>>}
AllClasses == {gpio, backlight}
ClassesOf == (d1 :> gpio) @@ [d \in Devices \ {d1} |-> backlight]

Entry(n, c) == [name |-> n, class |-> c]
Table == <<Entry(com10, backlight), Entry(com1, gpio)>>

Makes(unregister, unlocked, together, tables) ==
  [unregister |-> unregister, unlocked |-> unlocked, together |-> together,
   tables |-> tables]
\* The program that uses locked calls only; the one that only adds devices,
\* from a table or not, and walks the list without the lock; the one that
\* creates and removes devices in one thread at a time.
SafePrograms == {Makes(TRUE, FALSE, TRUE, {}), Makes(FALSE, TRUE, FALSE, {Table}),
                 Makes(TRUE, FALSE, FALSE, {Table})}
UnlockedProgram == {Makes(TRUE, TRUE, FALSE, {})}
=============================================================================
