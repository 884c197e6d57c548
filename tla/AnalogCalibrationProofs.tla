---------------------- MODULE AnalogCalibrationProofs ----------------------
(***************************************************************************)
(* Theorems about AnalogCalibration, for any number of calibrations.       *)
(*                                                                         *)
(* Two invariants are proved one on the other.  IInv says of every copy of *)
(* the lines that it holds only lines that were fitted, each to its mode.  *)
(* Kept says what a program that restores first may rely on, with an MCU   *)
(* that answers: as long as the MCU has nothing, nothing was calibrated,   *)
(* and while the program runs on restored lines the MCU has the same.      *)
(***************************************************************************)
EXTENDS AnalogCalibration, TLAPS

\* Where a calibration is in progress its line is the one fitted last.
FittingIsLast ==
  IF step \in {"saved", "updated"}
    THEN fitting \in [of : Modes, line : 1 .. MaxFits]
         /\ fitting.line = Len(fits) /\ fits[fitting.line] = fitting.of
    ELSE fitting = NoFit

\* The lines are identities, or were fitted, each to the mode it is used for.
FittedTo(lines) ==
  lines = NoData \/
  (lines \in Lines /\
   \A m \in Modes : lines[m] > 0 => lines[m] <= Len(fits) /\ fits[lines[m]] = m)

AllFitted ==
  FittedTo(aicfgs) /\ FittedTo(file) /\ FittedTo(mcu) /\ FittedTo(reported)

IInv == TypeOK /\ FittingIsLast /\ AllFitted

Careful == McuReliable /\ RestoreFirst
OnRestored == step \in {"ready", "saved", "updated"}

Kept ==
  Careful =>
    /\ mcu = NoData =>
         aicfgs = Identity /\ file \in {NoData, Identity} /\ reported = Identity
         /\ step # "updated"
    /\ mcu # NoData => \A m \in Modes : mcu[m] >= reported[m]
    /\ OnRestored /\ mcu # NoData => aicfgs = mcu
    /\ step = "updated" => mcu[fitting.of] = fitting.line

-----------------------------------------------------------------------------

\* No copy of the lines can be taken for the absence of one.
LEMMA LinesAreData == NoData \notin Lines
  <1>1. "current" \in Modes  BY DEF Modes
  <1>2. \A lines \in Lines : DOMAIN lines = Modes  BY DEF Lines
  <1>3. DOMAIN NoData = {}  BY DEF NoData
  <1> QED  BY <1>1, <1>2, <1>3

\* A step that fits nothing keeps what was fitted.
LEMMA FitsKept ==
  ASSUME UNCHANGED fits, NEW lines, FittedTo(lines)
  PROVE  FittedTo(lines)'
  BY DEF FittedTo

\* Of two copies that were fitted, FromFile is one.
LEMMA FromFileFitted ==
  ASSUME IInv, NEW lines, FittedTo(lines), lines \in Lines
  PROVE  FittedTo(FromFile(lines)) /\ FromFile(lines) \in Lines
  BY LinesAreData DEF FromFile, IInv, AllFitted, TypeOK

\* In the beginning there are only identities.
LEMMA InitFitted == Init => IInv
  <1> SUFFICES ASSUME Init PROVE IInv  OBVIOUS
  <1>1. Identity \in Lines  BY AnalogAssumption DEF Identity, Lines
  <1>2. FittedTo(Identity) /\ FittedTo(NoData)
    BY <1>1, AnalogAssumption DEF FittedTo, Identity, Modes
  <1>3. TypeOK  BY <1>1, AnalogAssumption DEF Init, TypeOK
  <1>4. FittingIsLast  BY DEF Init, FittingIsLast
  <1> QED  BY <1>2, <1>3, <1>4 DEF Init, IInv, AllFitted

\* Every step keeps the copies to lines fitted to their modes.
LEMMA StepFitted == IInv /\ [Next]_vars => IInv'
  <1> SUFFICES ASSUME IInv, [Next]_vars PROVE IInv'  OBVIOUS
  <1> USE AnalogAssumption, LinesAreData
  <1>a. Identity \in Lines /\ FittedTo(Identity)
    BY DEF Identity, Lines, Modes, FittedTo
  <1>b. FromFile(aicfgs) \in Lines /\ FittedTo(FromFile(aicfgs))
    BY FromFileFitted DEF IInv, TypeOK, AllFitted
  <1>c. FromFile(Identity) \in Lines /\ FittedTo(FromFile(Identity))
    BY <1>a, FromFileFitted
  <1>1. CASE Start
    <2>1. TypeOK'  BY <1>1, <1>c DEF Start, IInv, TypeOK, conditions
    <2>2. FittingIsLast'  BY <1>1 DEF Start, IInv, FittingIsLast
    <2>3. AllFitted'  BY <1>1, <1>c DEF Start, IInv, AllFitted, FittedTo
    <2> QED  BY <2>1, <2>2, <2>3 DEF IInv
  <1>2. CASE RestoreFromMcu
    <2>1. TypeOK'
      BY <1>2 DEF RestoreFromMcu, FromMcu, Saves, SaveFails, IInv, TypeOK, conditions
    <2>2. FittingIsLast'  BY <1>2 DEF RestoreFromMcu, Running, IInv, FittingIsLast
    <2>3. AllFitted'
      BY <1>2 DEF RestoreFromMcu, FromMcu, Saves, SaveFails, IInv, AllFitted, FittedTo
    <2> QED  BY <2>1, <2>2, <2>3 DEF IInv
  <1>3. CASE RestoreRejects
    <2>1. TypeOK'  BY <1>3, <1>b DEF RestoreRejects, IInv, TypeOK, conditions
    <2>2. FittingIsLast'  BY <1>3 DEF RestoreRejects, Running, IInv, FittingIsLast
    <2>3. AllFitted'  BY <1>3, <1>b DEF RestoreRejects, IInv, AllFitted, FittedTo
    <2> QED  BY <2>1, <2>2, <2>3 DEF IInv
  <1>4. CASE RestoreToMcu
    <2>1. TypeOK'  BY <1>4, <1>b DEF RestoreToMcu, IInv, TypeOK, conditions
    <2>2. FittingIsLast'  BY <1>4 DEF RestoreToMcu, Running, IInv, FittingIsLast
    <2>3. AllFitted'  BY <1>4, <1>b DEF RestoreToMcu, IInv, AllFitted, FittedTo
    <2> QED  BY <2>1, <2>2, <2>3 DEF IInv
  <1>5. ASSUME NEW m \in Modes, CalibSave(m)  PROVE IInv'
    <2>1. fits' = Append(fits, m) /\ Len(fits) < MaxFits /\ fits \in Seq(Modes)
      BY <1>5 DEF CalibSave, IInv, TypeOK
    <2>2. /\ fits' \in Seq(Modes) /\ Len(fits') = Len(fits) + 1
          /\ fits'[Len(fits')] = m /\ Len(fits') \in 1 .. MaxFits
          /\ \A i \in 1 .. Len(fits) : fits'[i] = fits[i]
      BY <2>1
    <2>3. TypeOK'
      BY <1>5, <2>2 DEF CalibSave, Saves, SaveFails, IInv, TypeOK, conditions
    <2>4. FittingIsLast'
      BY <1>5, <2>2 DEF CalibSave, MayCalibrate, Running, IInv, FittingIsLast
    <2> DEFINE Still(lines) ==
          lines = NoData \/
          (lines \in Lines /\ \A k \in Modes : lines[k] > 0 =>
             lines[k] <= Len(fits') /\ fits'[lines[k]] = k)
    <2>5. ASSUME NEW lines, FittedTo(lines)  PROVE  Still(lines)
      BY <2>1, <2>2, <2>5 DEF FittedTo, Lines
    <2>6. Still(aicfgs) /\ Still(file) /\ Still(mcu) /\ Still(reported)
      BY <2>5 DEF IInv, AllFitted
    <2>7. AllFitted'
      <3> HIDE DEF Still
      <3>1. Still(aicfgs') /\ Still(file') /\ Still(mcu') /\ Still(reported')
        BY <1>5, <2>6 DEF CalibSave, Saves, SaveFails
      <3> QED  BY <3>1 DEF Still, AllFitted, FittedTo
    <2> QED  BY <2>3, <2>4, <2>7 DEF IInv
  <1>6. CASE CalibUpdate
    <2>1. fitting.of \in Modes /\ fitting.line \in 1 .. MaxFits
          /\ fitting.line = Len(fits) /\ fits[fitting.line] = fitting.of
      BY <1>6 DEF CalibUpdate, IInv, FittingIsLast
    <2>2. Fitted \in Lines  BY <2>1 DEF Fitted, IInv, TypeOK, Lines
    <2>3. FittedTo(Fitted)
      <3> SUFFICES ASSUME NEW m \in Modes, Fitted[m] > 0
                   PROVE  Fitted[m] <= Len(fits) /\ fits[Fitted[m]] = m
        BY <2>2 DEF FittedTo
      <3>1. CASE m = fitting.of
        BY <2>1, <3>1 DEF Fitted, IInv, TypeOK, Lines
      <3>2. CASE m # fitting.of
        BY <2>1, <3>2 DEF Fitted, IInv, TypeOK, Lines, AllFitted, FittedTo
      <3> QED  BY <3>1, <3>2
    <2>4. TypeOK'  BY <1>6, <2>2 DEF CalibUpdate, IInv, TypeOK, conditions
    <2>5. FittingIsLast'  BY <1>6 DEF CalibUpdate, IInv, FittingIsLast
    <2>6. AllFitted'
      BY <1>6, <2>3 DEF CalibUpdate, IInv, AllFitted, FittedTo
    <2> QED  BY <2>4, <2>5, <2>6 DEF IInv
  <1>7. CASE CalibReturn
    <2>1. fitting.of \in Modes /\ fitting.line \in 1 .. MaxFits
          /\ fitting.line = Len(fits) /\ fits[fitting.line] = fitting.of
      BY <1>7 DEF CalibReturn, IInv, FittingIsLast
    <2>2. reported' \in Lines
      BY <1>7, <2>1 DEF CalibReturn, IInv, TypeOK, Lines
    <2>3. FittedTo(reported)'
      <3> SUFFICES ASSUME NEW m \in Modes, reported'[m] > 0
                   PROVE  reported'[m] <= Len(fits) /\ fits[reported'[m]] = m
        BY <1>7, <2>2 DEF CalibReturn, FittedTo
      <3>1. CASE m = fitting.of
        BY <1>7, <2>1, <3>1 DEF CalibReturn, IInv, TypeOK, Lines
      <3>2. CASE m # fitting.of
        BY <1>7, <2>1, <3>2 DEF CalibReturn, IInv, TypeOK, Lines, AllFitted, FittedTo
      <3> QED  BY <3>1, <3>2
    <2>4. TypeOK'  BY <1>7, <2>2 DEF CalibReturn, IInv, TypeOK, conditions
    <2>5. FittingIsLast'  BY <1>7 DEF CalibReturn, IInv, FittingIsLast
    <2>6. AllFitted'
      BY <1>7, <2>3 DEF CalibReturn, IInv, AllFitted, FittedTo
    <2> QED  BY <2>4, <2>5, <2>6 DEF IInv
  <1>8. CASE Crash
    <2>1. TypeOK'  BY <1>8 DEF Crash, IInv, TypeOK, conditions
    <2>2. FittingIsLast'  BY <1>8 DEF Crash, FittingIsLast
    <2>3. AllFitted'  BY <1>8 DEF Crash, IInv, AllFitted, FittedTo
    <2> QED  BY <2>1, <2>2, <2>3 DEF IInv
  <1>9. CASE UNCHANGED vars
    <2>1. TypeOK' /\ FittingIsLast'
      BY <1>9 DEF vars, conditions, IInv, TypeOK, FittingIsLast
    <2>2. AllFitted'  BY <1>9 DEF vars, IInv, AllFitted, FittedTo
    <2> QED  BY <2>1, <2>2 DEF IInv
  <1> QED
    BY <1>1, <1>2, <1>3, <1>4, <1>5, <1>6, <1>7, <1>8, <1>9 DEF Next

-----------------------------------------------------------------------------

LEMMA InitKept == Init => Kept
  BY AnalogAssumption, LinesAreData
  DEF Init, Kept, OnRestored, Identity, Modes

\* What the MCU has, and what a careful program runs on, is never behind what was
\* reported; the only copies before the first calibration are identities.
LEMMA StepKept == IInv /\ Kept /\ [Next]_vars => Kept'
  <1> SUFFICES ASSUME IInv, Kept, [Next]_vars, Careful'  PROVE Kept'
    BY DEF Kept
  <1> USE AnalogAssumption, LinesAreData
  <1>a. Careful /\ UNCHANGED conditions
    BY DEF Careful, Next, vars, conditions, Start, RestoreFromMcu, RestoreRejects,
           RestoreToMcu, CalibSave, CalibUpdate, CalibReturn, Crash
  <1>b. Identity \in Lines /\ \A m \in Modes : Identity[m] = 0
    BY DEF Identity, Lines, Modes
  <1>1. CASE Start
    BY <1>1, <1>a DEF Start, Kept, OnRestored, FromFile
  <1>2. CASE RestoreFromMcu
    <2>1. mcu # NoData /\ mcu' = mcu /\ aicfgs' = mcu' /\ reported' = reported
          /\ step' = "ready"
      BY <1>2 DEF RestoreFromMcu, FromMcu
    <2> QED  BY <2>1, <1>a DEF Kept, OnRestored
  <1>3. CASE RestoreRejects
    BY <1>3, <1>a DEF RestoreRejects, Kept, OnRestored, FromFile
  <1>4. CASE RestoreToMcu
    BY <1>4, <1>a DEF RestoreToMcu, Careful
  <1>5. ASSUME NEW m \in Modes, CalibSave(m)  PROVE Kept'
    <2>1. OnRestored /\ step # "updated"
      BY <1>5, <1>a DEF CalibSave, MayCalibrate, Careful, Running, OnRestored
    <2>2. step' \in {"ready", "saved"} /\ UNCHANGED <<aicfgs, mcu, reported>>
          /\ file' \in {file, aicfgs}
      BY <1>5, <2>1 DEF CalibSave, MayCalibrate, Running, Saves, SaveFails, OnRestored
    <2> QED  BY <2>1, <2>2, <1>a DEF Kept, OnRestored
  <1>6. CASE CalibUpdate
    <2>1. fitting.of \in Modes /\ fitting.line \in 1 .. MaxFits
          /\ fitting.line = Len(fits) /\ step = "saved"
      BY <1>6 DEF CalibUpdate, IInv, FittingIsLast
    <2>2. mcu' = Fitted /\ aicfgs' = Fitted /\ step' = "updated"
          /\ UNCHANGED <<reported, fitting>>
      BY <1>6, <1>a DEF CalibUpdate, Careful
    <2>3. Fitted \in Lines /\ Fitted[fitting.of] = fitting.line
          /\ \A m \in Modes : m # fitting.of => Fitted[m] = aicfgs[m]
      BY <2>1 DEF Fitted, IInv, TypeOK, Lines
    <2>4. \A m \in Modes : reported[m] <= Len(fits) /\ reported[m] <= aicfgs[m]
      <3> SUFFICES ASSUME NEW m \in Modes
                   PROVE  reported[m] <= Len(fits) /\ reported[m] <= aicfgs[m]
        OBVIOUS
      <3>1. reported[m] \in 0 .. MaxFits /\ aicfgs[m] \in 0 .. MaxFits
            /\ reported # NoData
        BY DEF IInv, TypeOK, Lines
      <3>2. reported[m] <= Len(fits)
        BY <3>1, <2>1 DEF IInv, AllFitted, FittedTo, TypeOK
      <3>3. CASE mcu = NoData
        BY <3>1, <3>2, <3>3, <1>a, <1>b DEF Kept
      <3>4. CASE mcu # NoData
        <4>1. aicfgs = mcu /\ mcu[m] >= reported[m]
          BY <3>4, <2>1, <1>a DEF Kept, OnRestored
        <4> QED  BY <4>1, <3>2
      <3> QED  BY <3>3, <3>4
    <2>5. \A m \in Modes : Fitted[m] >= reported[m]
      BY <2>1, <2>3, <2>4
    <2>6. Fitted # NoData  BY <2>3
    <2> QED  BY <2>2, <2>3, <2>5, <2>6 DEF Kept
  <1>7. CASE CalibReturn
    <2>1. fitting.of \in Modes /\ fitting.line \in 1 .. MaxFits /\ step = "updated"
      BY <1>7 DEF CalibReturn, IInv, FittingIsLast
    <2>2. mcu # NoData /\ aicfgs = mcu /\ mcu[fitting.of] = fitting.line
          /\ \A m \in Modes : mcu[m] >= reported[m]
      BY <2>1, <1>a DEF Kept, OnRestored
    <2>3. step' = "ready" /\ UNCHANGED <<aicfgs, mcu>>
          /\ \A m \in Modes :
               reported'[m] = IF m = fitting.of THEN fitting.line ELSE reported[m]
      BY <1>7, <2>1 DEF CalibReturn, IInv, TypeOK, Lines
    <2>4. \A m \in Modes : mcu'[m] >= reported'[m]
      BY <2>1, <2>2, <2>3
    <2> QED  BY <2>2, <2>3, <2>4 DEF Kept
  <1>8. CASE Crash
    BY <1>8, <1>a DEF Crash, Kept, OnRestored
  <1>9. CASE UNCHANGED vars
    BY <1>9, <1>a DEF vars, Kept, OnRestored
  <1> QED
    BY <1>1, <1>2, <1>3, <1>4, <1>5, <1>6, <1>7, <1>8, <1>9 DEF Next

\* Under both invariants no step of a careful program brings an older line back.
LEMMA StepForward ==
  ASSUME IInv, Kept, [Next]_vars, Careful, step \notin {"down", "started"},
         step' # "down", NEW m \in Modes
  PROVE  aicfgs'[m] >= aicfgs[m]
  <1> USE AnalogAssumption, LinesAreData
  <1>a. OnRestored  BY DEF IInv, TypeOK, OnRestored
  <1>b. aicfgs[m] \in 0 .. MaxFits  BY DEF IInv, TypeOK, Lines
  <1>1. ASSUME UNCHANGED aicfgs  PROVE aicfgs'[m] >= aicfgs[m]
    BY <1>1, <1>b
  <1>2. CASE RestoreFromMcu
    BY <1>2, <1>a, <1>b DEF RestoreFromMcu, FromMcu, Kept
  <1>3. CASE RestoreRejects
    <2>1. FromFile(aicfgs) = aicfgs  BY <1>3 DEF RestoreRejects, Kept, FromFile
    <2> QED  BY <1>3, <2>1, <1>b DEF RestoreRejects
  <1>4. CASE RestoreToMcu
    BY <1>4 DEF RestoreToMcu, Careful
  <1>5. CASE CalibUpdate
    <2>1. fitting.of \in Modes /\ fitting.line \in 1 .. MaxFits
          /\ fitting.line = Len(fits)
      BY <1>5 DEF CalibUpdate, IInv, FittingIsLast
    <2>2. aicfgs'[m] = IF m = fitting.of THEN fitting.line ELSE aicfgs[m]
      BY <1>5, <2>1 DEF CalibUpdate, Fitted, IInv, TypeOK, Lines
    <2>3. aicfgs[m] <= Len(fits)
      BY <1>b, <2>1 DEF IInv, AllFitted, FittedTo, TypeOK
    <2> QED  BY <2>1, <2>2, <2>3, <1>b
  <1>6. ASSUME NEW k \in Modes, CalibSave(k)  PROVE aicfgs'[m] >= aicfgs[m]
    BY <1>6, <1>1 DEF CalibSave
  <1>7. CASE CalibReturn \/ Crash \/ UNCHANGED vars
    BY <1>7, <1>1 DEF CalibReturn, Crash, vars
  <1>8. CASE Start
    BY <1>8 DEF Start
  <1> QED
    BY <1>2, <1>3, <1>4, <1>5, <1>6, <1>7, <1>8 DEF Next

-----------------------------------------------------------------------------

\* The variables of the analog class keep their types.
THEOREM AnalogTypeCorrect == Spec => []TypeOK
  <1>1. IInv => TypeOK  BY DEF IInv
  <1> QED  BY <1>1, InitFitted, StepFitted, PTL DEF Spec

\* LinesOfTheirMode: whatever fails or crashes, a line fitted to one mode is never
\* used for the other.
THEOREM FittedLinesStayTheirs == Spec => []LinesOfTheirMode
  <1>1. IInv => LinesOfTheirMode
    BY DEF IInv, AllFitted, FittedTo, LinesOfTheirMode
  <1> QED  BY <1>1, InitFitted, StepFitted, PTL DEF Spec

\* ReportedIsStored: a calibration that was reported done survives any sequence of
\* calls and crashes, if the MCU answers and the program restores first.
THEOREM ReportedSurvives == Spec => []ReportedIsStored
  <1>1. Kept => ReportedIsStored
    BY DEF Kept, Careful, ReportedIsStored, Identity
  <1> QED  BY <1>1, InitFitted, StepFitted, InitKept, StepKept, PTL DEF Spec

\* NeverStepsBack: in such a program no call brings an older line back in use.
THEOREM LinesNeverStepBack == Spec => NeverStepsBack
  <1>1. IInv /\ Kept /\ [Next]_vars =>
        [McuReliable /\ RestoreFirst /\ step \notin {"down", "started"}
           /\ step' # "down" => \A m \in Modes : aicfgs'[m] >= aicfgs[m]]_vars
    BY StepForward DEF Careful
  <1> QED
    BY <1>1, InitFitted, StepFitted, InitKept, StepKept, PTL
    DEF Spec, NeverStepsBack
=============================================================================
