----------------------------- MODULE RtcDriver ------------------------------
(***************************************************************************)
(* The callbacks of the RTC class, src/src/class/ldal_rtc.c: the clock     *)
(* counts months from 0 and years from 1900, struct ldal_rtc_time counts   *)
(* them as people do.  The other fields go through as they are; a reading  *)
(* into a short buffer is the beginning of one into a long one.            *)
(***************************************************************************)
EXTENDS Integers

CONSTANTS
  Dates,    \* what callers write: records with mon and year
  NoDate

VARIABLES
  clock,    \* tm_mon and tm_year of the clock
  due       \* ghost: the date written last, and what time has made of it

rtcVars == <<clock, due>>

Init == clock = [mon |-> 0, year |-> 70] /\ due = NoDate

Reading == [mon |-> clock.mon + 1, year |-> clock.year + 1900]

\* Seeded fault: the month is passed on as it is.
MonthAsIs(date) == [mon |-> date.mon, year |-> date.year - 1900]

Converted(date) == [mon |-> date.mon - 1, year |-> date.year - 1900]

\* rtc_valid_tm of the kernel
Valid(tm) == tm.mon \in 0 .. 11 /\ tm.year >= 70

\* The ioctl fails for a date that is none, and may fail for others.
Write(date) ==
  \/ /\ Valid(Converted(date))
     /\ clock' = Converted(date) /\ due' = date
  \/ UNCHANGED rtcVars

\* A month goes by.
Passes(time, first, last) ==
  IF time.mon = last THEN [mon |-> first, year |-> time.year + 1]
                     ELSE [time EXCEPT !.mon = @ + 1]

LastYear == 70 + 1   \* bound

Ticks ==
  /\ clock.year <= LastYear /\ clock' = Passes(clock, 0, 11)
  /\ due' = IF due = NoDate THEN due ELSE Passes(due, 1, 12)

\* Opening, closing and reading, and writes that are too short.
Quiet == UNCHANGED rtcVars
=============================================================================
