---------------------------- MODULE MCDriverUse ----------------------------
(* A TLC instance of DriverUse: dates around the turn of a year, one with a *)
(* month too many, one with a month too few, one with two digits of a year. *)
EXTENDS DriverUse

Date(m, y) == [mon |-> m, year |-> y]
SomeDates == {Date(1, 1970), Date(12, 1971), Date(13, 1970), Date(0, 1971), Date(5, 70)}
=============================================================================
