------------------------- MODULE AnalogCalibration -------------------------
(***************************************************************************)
(* The calibration of one analog input, src/src/class/ldal_analog.c.  The  *)
(* lines fitted to the two modes of the input are kept three times: in     *)
(* adev->aicfgs, in a file below /etc/aicfgs/ and in the MCU that samples  *)
(* the input.  A restart loses the first.                                  *)
(*                                                                         *)
(* A line is the number of the calibration that fitted it, so a greater    *)
(* number is a later calibration; 0 is the identity, which an uncorrected  *)
(* mode reads by.  The callbacks exclude each other (device->mutex), so a  *)
(* call is cut into steps only where a crash can fall between them.        *)
(***************************************************************************)
EXTENDS Naturals, Sequences

CONSTANT MaxFits   \* bound: how many calibrations are made

ASSUME AnalogAssumption == MaxFits \in Nat \ {0}

VARIABLES
  McuReliable,       \* no ioctl on the MCU fails
  RestoreFirst,      \* the program calls AI_GET_CORRECT_VOL_CUR after a start,
                     \* before it calibrates
  aicfgs,            \* adev->aicfgs: the line of each mode
  file,              \* /etc/aicfgs/<name>; NoData when absent or empty
  mcu,               \* what the MCU has stored; NoData: its CRC is wrong
  step,              \* where the program is
  fitting,           \* the line a calibration in progress has fitted
  fits,              \* the mode of each line fitted so far
  reported           \* per mode, the last calibration that returned LDAL_EOK

\* What the two conditions are never changes.
conditions == <<McuReliable, RestoreFirst>>
vars == <<conditions, aicfgs, file, mcu, step, fitting, fits, reported>>

Modes == {"current", "voltage"}
Lines == [Modes -> 0 .. MaxFits]
Identity == [m \in Modes |-> 0]
NoData == [m \in {} |-> 0]
NoFit == [of |-> "none", line |-> 0]

Init ==
  /\ McuReliable \in BOOLEAN /\ RestoreFirst \in BOOLEAN
  /\ aicfgs = Identity
  /\ file = NoData /\ mcu = NoData
  /\ step = "down" /\ fitting = NoFit /\ fits = <<>> /\ reported = Identity

-----------------------------------------------------------------------------

\* get_calib_data_from_file: what is read over the given lines.
FromFile(lines) == IF file = NoData THEN lines ELSE file

\* save_calib_data_to_file either succeeds or leaves the file as it was.
Saves(lines) == file' = lines
SaveFails == UNCHANGED file

\* analog_init, when the process starts and registers the device
Start ==
  /\ step = "down" /\ step' = "started"
  /\ aicfgs' = FromFile(Identity)
  /\ UNCHANGED <<conditions, file, mcu, fitting, fits, reported>>

Running == step \in {"started", "ready"}

\* Seeded fault: the lines of the MCU are taken to the file alone.
KeepsFileLines == FromFile(aicfgs)

\* Seeded fault: vol_a and cur_a are exchanged on the way back.
Crossed == [current |-> mcu["voltage"], voltage |-> mcu["current"]]

FromMcu == mcu

\* AI_GET_CORRECT_VOL_CUR, when the MCU answers with a valid CRC
RestoreFromMcu ==
  /\ Running /\ step' = "ready"
  /\ mcu # NoData
  /\ aicfgs' = FromMcu
  /\ Saves(mcu) \/ SaveFails
  /\ UNCHANGED <<conditions, mcu, fitting, fits, reported>>

\* The same when it answers with another CRC: the call fails, and the lines
\* of the file have already replaced those in use.
RestoreRejects ==
  /\ Running /\ step' = "ready"
  /\ mcu = NoData
  /\ aicfgs' = FromFile(aicfgs)
  /\ UNCHANGED <<conditions, file, mcu, fitting, fits, reported>>

\* The same when it does not answer five times.
RestoreToMcu ==
  /\ Running /\ step' = "ready"
  /\ ~McuReliable
  /\ aicfgs' = FromFile(aicfgs)
  /\ mcu' \in {mcu, FromFile(aicfgs)}
  /\ UNCHANGED <<conditions, file, fitting, fits, reported>>

\* Seeded fault: a calibration starts whatever lines the program has.
FromAnyLines == Running

MayCalibrate == Running /\ (RestoreFirst => step = "ready")

\* AI_SET_CORRECT_VOL_CUR, second point: fit a line and save the lines in use
CalibSave(m) ==
  /\ MayCalibrate /\ Len(fits) < MaxFits
  /\ fits' = Append(fits, m)
  /\ \/ Saves(aicfgs) /\ step' = "saved" /\ fitting' = [of |-> m, line |-> Len(fits) + 1]
     \/ SaveFails /\ UNCHANGED <<step, fitting>>
  /\ UNCHANGED <<conditions, aicfgs, mcu, reported>>

Fitted == [aicfgs EXCEPT ![fitting.of] = fitting.line]

\* The line is put in use and the MCU is told; whether it took the lines is
\* not looked at.
CalibUpdate ==
  /\ step = "saved" /\ step' = "updated"
  /\ aicfgs' = Fitted
  /\ \/ mcu' = Fitted
     \/ ~McuReliable /\ UNCHANGED mcu
  /\ UNCHANGED <<conditions, file, fitting, fits, reported>>

CalibReturn ==
  /\ step = "updated" /\ step' = "ready"
  /\ reported' = [reported EXCEPT ![fitting.of] = fitting.line]
  /\ fitting' = NoFit
  /\ UNCHANGED <<conditions, aicfgs, file, mcu, fits>>

\* The process ends, at any point.
Crash ==
  /\ step # "down" /\ step' = "down"
  /\ fitting' = NoFit
  /\ UNCHANGED <<conditions, aicfgs, file, mcu, fits, reported>>

Next ==
  \/ Start \/ RestoreFromMcu \/ RestoreRejects \/ RestoreToMcu
  \/ \E m \in Modes : CalibSave(m)
  \/ CalibUpdate \/ CalibReturn \/ Crash

Spec == Init /\ [][Next]_vars

-----------------------------------------------------------------------------
(* Properties                                                               *)

\* Every variable has its type.
TypeOK ==
  /\ aicfgs \in Lines /\ McuReliable \in BOOLEAN /\ RestoreFirst \in BOOLEAN
  /\ file \in Lines \cup {NoData} /\ mcu \in Lines \cup {NoData}
  /\ step \in {"down", "started", "ready", "saved", "updated"}
  /\ fitting \in {NoFit} \cup [of : Modes, line : 1 .. MaxFits]
  /\ fits \in Seq(Modes) /\ Len(fits) <= MaxFits /\ reported \in Lines

\* Whichever way lines travel between memory, file and MCU, also when the MCU
\* fails and the program crashes, a mode is read by a line fitted to it.
LinesOfTheirMode ==
  \A m \in Modes : \A lines \in {aicfgs, file, mcu} \ {NoData} :
    lines[m] > 0 => fits[lines[m]] = m

\* A calibration that returned LDAL_EOK stays in the MCU until a later one of
\* the same mode, across crashes and calibrations of the other mode: with the
\* file one calibration behind, it is the only copy a restart can find.
ReportedIsStored ==
  McuReliable /\ RestoreFirst =>
    \A m \in Modes : reported[m] > 0 => mcu # NoData /\ mcu[m] >= reported[m]

\* While the program runs on restored lines, no call puts an older line of a
\* mode back in use (ldal_analog.c:339 reads the file, which is behind).
NeverStepsBack ==
  [][McuReliable /\ RestoreFirst /\ step \notin {"down", "started"} /\ step' # "down"
       => \A m \in Modes : aicfgs'[m] >= aicfgs[m]]_vars

\* ldal_analog.c:298 and :304: a calibration is "saved to file", and only put
\* in use "when saved successfully".
InUseIsSaved ==
  step = "ready" =>
    \A m \in Modes : aicfgs[m] > 0 => file # NoData /\ file[m] = aicfgs[m]
=============================================================================
