-------------------------- MODULE Controllers_proofs --------------------------
(***************************************************************************)
(* Proofs about the treatment and distribution programs, for any           *)
(* thresholds, word size and write requests that satisfy the assumptions   *)
(* of their modules, and about the Modbus stand-in, for any values clients *)
(* write.                                                                  *)
(***************************************************************************)
EXTENDS TreatmentPlc, DistributionPlc, ModbusSim, TLAPS

(***************************************************************************)
(* Treatment.  The residual is zero until a client writes it: that is why  *)
(* only a write can have brought it to the level that ends a dose.         *)
(***************************************************************************)
TreatmentInv ==
    /\ TreatmentTypeOK
    /\ AlarmMatchesChlorine
    /\ "chlor" \notin everWritten => water.chlor = 0

\* A scan of treatment.st preserves the invariant.
LEMMA TreatmentScanInv == TreatmentInv /\ TreatmentScan => TreatmentInv'
<1> SUFFICES ASSUME TreatmentInv, TreatmentScan PROVE TreatmentInv'
  OBVIOUS
<1> DEFINE c == DecayedChlor(water.chlor)
           d == Dosed(water.flow, c, [dosing |-> water.dosing, rate |-> water.rate])
<1>1. water \in [TreatmentRegisters -> Nat]
  BY DEF TreatmentInv, TreatmentTypeOK
<1>2. c \in Nat /\ (water.chlor = 0 => c = 0)
  BY <1>1 DEF DecayedChlor, TreatmentRegisters
<1>3. d.dosing \in Nat /\ d.rate \in Nat
  BY <1>1 DEF Dosed, TreatmentRegisters
<1>4. water' = [water EXCEPT !.chlor = c, !.dosing = d.dosing, !.rate = d.rate,
                             !.dosingAlarm = IF OutOfRange(water.flow, c) THEN 1 ELSE 0]
  BY DEF TreatmentScan, TreatedWater
<1>5. sinceScan' = {} /\ everWritten' = everWritten
  BY DEF TreatmentScan
<1> HIDE DEF c, d
<1>6. water' \in [TreatmentRegisters -> Nat]
  BY <1>1, <1>2, <1>3, <1>4 DEF TreatmentRegisters
<1>7. water'.chlor = c /\ water'.flow = water.flow
      /\ water'.dosingAlarm = IF OutOfRange(water.flow, c) THEN 1 ELSE 0
  BY <1>1, <1>4 DEF TreatmentRegisters
<1>8. TreatmentTypeOK'
  BY <1>5, <1>6 DEF TreatmentTypeOK, TreatmentInv
<1>9. AlarmMatchesChlorine'
  BY <1>7 DEF AlarmMatchesChlorine
<1> QED BY <1>2, <1>5, <1>7, <1>8, <1>9 DEF TreatmentInv

\* A client's write preserves it: the registers it touches are recorded.
LEMMA TreatmentWriteInv ==
    ASSUME TreatmentInv, NEW w \in DosingRequests, TreatmentWrite(w)
    PROVE  TreatmentInv'
<1>1. DOMAIN w \subseteq TreatmentRegisters /\ \A r \in DOMAIN w : w[r] \in Nat
  BY DosingRequestsAssumption
<1>2. /\ \A r \in TreatmentRegisters :
             water'[r] = IF r \in DOMAIN w THEN w[r] ELSE water[r]
      /\ DOMAIN water' = TreatmentRegisters
      /\ sinceScan' = sinceScan \cup DOMAIN w
      /\ everWritten' = everWritten \cup DOMAIN w
      /\ water' = [r \in TreatmentRegisters |-> water'[r]]
  BY DEF TreatmentWrite
<1>3. water \in [TreatmentRegisters -> Nat]
  BY DEF TreatmentInv, TreatmentTypeOK
<1>4. TreatmentTypeOK'
  <2>1. \A r \in TreatmentRegisters : water'[r] \in Nat
    BY <1>1, <1>2, <1>3
  <2> QED BY <1>1, <1>2, <2>1 DEF TreatmentInv, TreatmentTypeOK
<1>5. ASSUME sinceScan' \cap {"flow", "chlor", "dosingAlarm"} = {}
      PROVE  /\ water'.flow = water.flow /\ water'.chlor = water.chlor
             /\ water'.dosingAlarm = water.dosingAlarm
             /\ sinceScan \cap {"flow", "chlor", "dosingAlarm"} = {}
  BY <1>2, <1>5 DEF TreatmentRegisters
<1>6. AlarmMatchesChlorine'
  BY <1>5 DEF AlarmMatchesChlorine, TreatmentInv
<1>7. "chlor" \notin everWritten' => water'.chlor = 0
  BY <1>2 DEF TreatmentInv, TreatmentRegisters
<1> QED BY <1>4, <1>6, <1>7 DEF TreatmentInv

\* The treatment invariant holds in every reachable state.
LEMMA TreatmentInvariant == TreatmentSpec => []TreatmentInv
<1>1. TreatmentInit => TreatmentInv
  BY DosingAssumption DEF TreatmentInit, TreatmentInv, TreatmentTypeOK,
     AlarmMatchesChlorine, OutOfRange, TreatmentRegisters
<1>2. TreatmentInv /\ [TreatmentNext]_treatmentVars => TreatmentInv'
  <2> SUFFICES ASSUME TreatmentInv, [TreatmentNext]_treatmentVars
               PROVE  TreatmentInv'
    OBVIOUS
  <2>1. CASE TreatmentScan
    BY <2>1, TreatmentScanInv
  <2>2. CASE \E w \in DosingRequests : TreatmentWrite(w)
    BY <2>2, TreatmentWriteInv
  <2>3. CASE UNCHANGED treatmentVars
    BY <2>3 DEF treatmentVars, TreatmentInv, TreatmentTypeOK, AlarmMatchesChlorine
  <2> QED BY <2>1, <2>2, <2>3 DEF TreatmentNext
<1> QED BY <1>1, <1>2, PTL DEF TreatmentSpec

\* The alarm a client reads agrees with the residual and the flow it reads,
\* unless one of the three was itself overwritten (treatment.st:35-39).
THEOREM ChlorineAlarmIsTruthful == TreatmentSpec => []AlarmMatchesChlorine
<1>1. TreatmentInv => AlarmMatchesChlorine
  BY DEF TreatmentInv
<1> QED BY <1>1, TreatmentInvariant, PTL

\* No scan ends a dose unless a client has once written the residual: the dose
\* itself never raises it (treatment.st:26-32).
THEOREM DosesEndByWrites == TreatmentSpec => OnlyAWriteEndsDosing
<1>1. TreatmentInv /\ [TreatmentNext]_treatmentVars =>
        [TreatmentScan /\ water.dosing # 0 /\ water'.dosing = 0
            => "chlor" \in everWritten]_treatmentVars
  <2> SUFFICES ASSUME TreatmentInv, TreatmentScan, "chlor" \notin everWritten
               PROVE  water'.dosing \in {1, water.dosing}
    OBVIOUS
  <2>1. water \in [TreatmentRegisters -> Nat] /\ water.chlor = 0
    BY DEF TreatmentInv, TreatmentTypeOK
  <2>2. DecayedChlor(water.chlor) = 0
    BY <2>1 DEF DecayedChlor
  <2>3. Dosed(water.flow, 0, [dosing |-> water.dosing, rate |-> water.rate]).dosing
            \in {1, water.dosing}
    BY DosingAssumption DEF Dosed
  <2> QED BY <2>1, <2>2, <2>3 DEF TreatmentScan, TreatedWater, TreatmentRegisters
<1> QED BY <1>1, TreatmentInvariant, PTL DEF TreatmentSpec, OnlyAWriteEndsDosing

-----------------------------------------------------------------------------
(***************************************************************************)
(* Distribution.  After a scan the pressure is below the clamp, so it does *)
(* not wrap any more, and a running pump has raised it by one in each      *)
(* quiet scan but the first.                                               *)
(***************************************************************************)
DistributionInv ==
    /\ DistributionTypeOK
    /\ quiet >= 1 => main.pressure <= MaxPressure
    /\ quiet >= 1 /\ main.pump = 1 => main.pressure >= quiet - 1
    /\ LowAlarmIsFresh

\* What a scan does to a pressure: it stays a UINT, at or below the clamp, and
\* from there a running pump raises it by one up to the clamp.
LEMMA MovedPressureBand ==
    ASSUME NEW p \in 0 .. Word - 1, NEW on \in 0 .. Word - 1
    PROVE  /\ MovedPressure(on, p) \in 0 .. MaxPressure
           /\ on = 1 /\ p <= MaxPressure =>
                  MovedPressure(on, p) = IF p = MaxPressure THEN p ELSE p + 1
<1>1. (p + 1) % Word \in 0 .. Word - 1
  BY PressureAssumption
<1>2. p <= MaxPressure => (p + 1) % Word = p + 1
  BY PressureAssumption
<1> QED BY <1>1, <1>2, PressureAssumption DEF MovedPressure

\* A scan of distribution.st preserves the invariant.
LEMMA DistributionScanInv == DistributionInv /\ DistributionScan => DistributionInv'
<1> SUFFICES ASSUME DistributionInv, DistributionScan PROVE DistributionInv'
  OBVIOUS
<1> DEFINE p == MovedPressure(main.pump, main.pressure)
           ran == IF main.pump = 1 THEN (main.runtime + 1) % Word ELSE main.runtime
           failed == IF FailedPump(main.pump, p) THEN 1 ELSE 0
<1>1. main \in [PumpRegisters -> 0 .. Word - 1] /\ quiet \in 0 .. QuietCap
  BY DEF DistributionInv, DistributionTypeOK
<1>2. main.pump \in 0 .. Word - 1 /\ main.pressure \in 0 .. Word - 1
      /\ main.runtime \in 0 .. Word - 1
  BY <1>1 DEF PumpRegisters
<1>3. p \in 0 .. MaxPressure
  BY <1>2, MovedPressureBand
<1>4. ran \in 0 .. Word - 1
  BY <1>2, PressureAssumption
<1>5. main' = [main EXCEPT !.pressure = p,
                           !.speed = IF main.pump = 1 THEN 80 ELSE 0,
                           !.runtime = ran, !.lowAlarm = failed]
  BY <1>1 DEF DistributionScan, PumpedMain, PumpRegisters
<1>6. quiet' = IF quiet = QuietCap THEN quiet ELSE quiet + 1
  BY DEF DistributionScan
<1>7. failed \in {0, 1} /\ (failed # 0 => main.pump = 1 /\ p < LowPressure)
  BY DEF FailedPump
<1>8. main.pump = 1 => p >= quiet' - 1
  <2> SUFFICES ASSUME main.pump = 1 PROVE p >= quiet' - 1
    OBVIOUS
  <2>1. CASE quiet = 0
    BY <2>1, <1>3, <1>6, PressureAssumption DEF QuietCap
  <2>2. CASE quiet >= 1
    <3>1. main.pressure <= MaxPressure /\ main.pressure >= quiet - 1
      BY <2>2 DEF DistributionInv
    <3>2. p = IF main.pressure = MaxPressure THEN main.pressure ELSE main.pressure + 1
      BY <1>2, <3>1, MovedPressureBand
    <3> QED BY <1>1, <1>2, <1>6, <2>2, <3>1, <3>2, PressureAssumption DEF QuietCap
  <2> QED BY <1>1, <2>1, <2>2
<1> HIDE DEF p, ran, failed
<1>9. /\ main'.pump = main.pump /\ main'.pressure = p /\ main'.lowAlarm = failed
      /\ main' \in [PumpRegisters -> 0 .. Word - 1]
  <2>1. /\ main'.pump = main.pump /\ main'.pressure = p /\ main'.lowAlarm = failed
        /\ main'.speed = IF main.pump = 1 THEN 80 ELSE 0
        /\ main'.runtime = ran
    BY <1>1, <1>5 DEF PumpRegisters
  <2>2. main' = [r \in PumpRegisters |-> main'[r]]
    BY <1>1, <1>5
  <2>3. p \in 0 .. Word - 1 /\ failed \in 0 .. Word - 1
        /\ (IF main.pump = 1 THEN 80 ELSE 0) \in 0 .. Word - 1
    BY <1>3, <1>7, PressureAssumption
  <2>4. \A r \in PumpRegisters : main'[r] \in 0 .. Word - 1
    BY <1>2, <1>4, <2>1, <2>3 DEF PumpRegisters
  <2> QED BY <2>1, <2>2, <2>4
<1>10. quiet' \in 0 .. QuietCap
  BY <1>1, <1>6, PressureAssumption DEF QuietCap
<1>11. LowAlarmIsFresh'
  <2> SUFFICES ASSUME failed # 0 PROVE quiet' <= LowPressure
    BY <1>9 DEF LowAlarmIsFresh
  <2>1. main.pump = 1 /\ p < LowPressure /\ p >= quiet' - 1
    BY <1>7, <1>8
  <2>2. p \in Int /\ quiet' \in Int /\ LowPressure \in Int
    BY <1>3, <1>10, PressureAssumption DEF QuietCap
  <2>3. \A a, b, c \in Int : a < c /\ a >= b - 1 => b <= c
    OBVIOUS
  <2> QED BY <2>1, <2>2, <2>3
<1> QED BY <1>3, <1>8, <1>9, <1>10, <1>11 DEF DistributionInv, DistributionTypeOK

\* A client's write preserves it: one to the three registers it is about
\* restarts the count of quiet scans.
LEMMA DistributionWriteInv ==
    ASSUME DistributionInv, NEW w \in PumpRequests, DistributionWrite(w)
    PROVE  DistributionInv'
<1>1. DOMAIN w \subseteq PumpRegisters /\ \A r \in DOMAIN w : w[r] \in 0 .. Word - 1
  BY PumpRequestsAssumption
<1>2. main' = [r \in PumpRegisters |-> IF r \in DOMAIN w THEN w[r] ELSE main[r]]
  BY DEF DistributionWrite
<1>3. main' \in [PumpRegisters -> 0 .. Word - 1]
  BY <1>1, <1>2 DEF DistributionInv, DistributionTypeOK
<1>4. CASE DOMAIN w \cap {"pump", "pressure", "lowAlarm"} = {}
  <2>1. quiet' = quiet
    BY <1>4 DEF DistributionWrite
  <2>2. main'.pump = main.pump /\ main'.pressure = main.pressure
        /\ main'.lowAlarm = main.lowAlarm
    BY <1>2, <1>4 DEF PumpRegisters
  <2> QED BY <1>3, <2>1, <2>2
         DEF DistributionInv, DistributionTypeOK, LowAlarmIsFresh
<1>5. CASE DOMAIN w \cap {"pump", "pressure", "lowAlarm"} # {}
  <2>1. quiet' = 0
    BY <1>5 DEF DistributionWrite
  <2> QED BY <1>3, <2>1, PressureAssumption
         DEF DistributionInv, DistributionTypeOK, LowAlarmIsFresh, QuietCap
<1> QED BY <1>4, <1>5

\* The invariant of the distribution controller.
LEMMA DistributionInvariant == DistributionSpec => []DistributionInv
<1>1. DistributionInit => DistributionInv
  BY PressureAssumption DEF DistributionInit, DistributionInv, DistributionTypeOK,
     LowAlarmIsFresh, QuietCap, PumpRegisters
<1>2. DistributionInv /\ [DistributionNext]_distributionVars => DistributionInv'
  <2> SUFFICES ASSUME DistributionInv, [DistributionNext]_distributionVars
               PROVE  DistributionInv'
    OBVIOUS
  <2>1. CASE DistributionScan
    BY <2>1, DistributionScanInv
  <2>2. CASE \E w \in PumpRequests : DistributionWrite(w)
    BY <2>2, DistributionWriteInv
  <2>3. CASE UNCHANGED distributionVars
    BY <2>3 DEF distributionVars, DistributionInv, DistributionTypeOK, LowAlarmIsFresh
  <2> QED BY <2>1, <2>2, <2>3 DEF DistributionNext
<1> QED BY <1>1, <1>2, PTL DEF DistributionSpec

\* The alarm of a failed pump is gone after LowPressure scans without a write,
\* for any clamp and word size, a pressure that wraps included
\* (distribution.st:21-43).
THEOREM LowAlarmPasses == DistributionSpec => []LowAlarmIsFresh
<1>1. DistributionInv => LowAlarmIsFresh
  BY DEF DistributionInv
<1> QED BY <1>1, DistributionInvariant, PTL

\* The pressure of a pump that is off never rises by a scan, wherever a write
\* left it (distribution.st:27-37).
THEOREM StoppedPumpDrains == DistributionSpec => StoppedPumpNeverPressurises
<1>1. DistributionInv /\ [DistributionNext]_distributionVars
      => [ DistributionScan /\ main.pump # 1
           => main'.pressure <= main.pressure ]_distributionVars
  <2> SUFFICES ASSUME DistributionInv, DistributionScan, main.pump # 1
               PROVE  main'.pressure <= main.pressure
    OBVIOUS
  <2>1. main.pressure \in 0 .. Word - 1 /\ main \in [PumpRegisters -> 0 .. Word - 1]
    BY DEF DistributionInv, DistributionTypeOK, PumpRegisters
  <2>2. main'.pressure = MovedPressure(main.pump, main.pressure)
    BY <2>1 DEF DistributionScan, PumpedMain, PumpRegisters
  <2> QED BY <2>1, <2>2, PressureAssumption DEF MovedPressure
<1> QED BY <1>1, DistributionInvariant, PTL DEF DistributionSpec, StoppedPumpNeverPressurises

-----------------------------------------------------------------------------
(***************************************************************************)
(* The stand-in: its intake model implements the program of                *)
(* plc/intake.st, and a read of its store is never torn by more than one   *)
(* step.                                                                   *)
(***************************************************************************)
\* The model's registers in the range the program's arithmetic needs.
IntakeRange ==
    asset = "intake" =>
        /\ registers \in [Offsets -> Int]
        /\ registers[0] \in {0, 1}
        /\ registers[5] \in 0 .. 100

\* A step of the intake model is a scan of the program: in this range neither
\* the program's unsigned arithmetic nor its clamps do anything the model's
\* minimum and maximum do not.
LEMMA IntakeStepIsScan ==
    ASSUME NEW r \in [Offsets -> Int], r[0] \in {0, 1}, r[5] \in 0 .. 100
    PROVE  LET s == IntakeStep(r)
               l == ST!ScannedLevel(r[0], r[5])
           IN  /\ s \in [Offsets -> Int]
               /\ s[0] \in {0, 1} /\ s[5] \in 0 .. 100
               /\ s[5] = l
               /\ s[0] = IF ST!Trips(l) THEN 0 ELSE ST!CalledValve(r[0], r[5])
               /\ s[6] = IF ST!Trips(l) THEN 1 ELSE 0
<1> DEFINE called == IF r[5] < 20 THEN 1 ELSE r[0]
           level == Greater(0, Lesser(100, r[5] + IF called = 1 THEN 1 ELSE -1))
           valve == IF level > 95 THEN 0 ELSE called
           s == IntakeStep(r)
<1>1. called \in {0, 1} /\ called = ST!CalledValve(r[0], r[5])
  BY DEF ST!CalledValve
<1>2. level \in 0 .. 100 /\ level = ST!ScannedLevel(r[0], r[5])
  <2>1. CASE called = 1
    <3>1. ST!MovedLevel(called, r[5]) = r[5] + 1
      BY <2>1 DEF ST!MovedLevel
    <3> QED BY <2>1, <3>1, <1>1
           DEF ST!ScannedLevel, ST!ClampedLevel, Greater, Lesser
  <2>2. CASE called = 0
    <3>1. r[5] >= 20
      BY <2>2
    <3>2. ST!MovedLevel(called, r[5]) = r[5] - 1
      BY <2>2, <3>1 DEF ST!MovedLevel
    <3> QED BY <2>2, <3>1, <3>2, <1>1
           DEF ST!ScannedLevel, ST!ClampedLevel, Greater, Lesser
  <2> QED BY <1>1, <2>1, <2>2
<1>3. valve \in {0, 1}
  BY <1>1
<1>4. s = [r EXCEPT ![0] = valve, ![1] = IF valve # 0 THEN 60 ELSE 0,
                    ![5] = level, ![6] = IF level > 95 THEN 1 ELSE 0]
  BY DEF IntakeStep
<1> HIDE DEF called, level, valve
<1>5. s \in [Offsets -> Int]
  BY <1>2, <1>3, <1>4 DEF Offsets
<1>6. s[0] = valve /\ s[5] = level /\ s[6] = IF level > 95 THEN 1 ELSE 0
  BY <1>4 DEF Offsets
<1>7. valve = IF level > 95 THEN 0 ELSE called
  BY DEF valve
<1> QED BY <1>1, <1>2, <1>3, <1>5, <1>6, <1>7 DEF ST!Trips

\* The range is an invariant.
LEMMA RangeInvariant == SimSpec => []IntakeRange
<1>1. SimInit => IntakeRange
  BY DEF SimInit, IntakeRange, Zeros, Offsets
<1>2. IntakeRange /\ [SimNext]_simVars => IntakeRange'
  <2> SUFFICES ASSUME IntakeRange, [SimNext]_simVars PROVE IntakeRange'
    OBVIOUS
  <2>1. CASE Step
    <3> SUFFICES ASSUME asset' = "intake"
                 PROVE  /\ registers' \in [Offsets -> Int]
                        /\ registers'[0] \in {0, 1} /\ registers'[5] \in 0 .. 100
      BY DEF IntakeRange
    <3>1. asset = "intake" /\ registers' = IntakeStep(registers)
      BY <2>1 DEF Step, Stepped
    <3> QED BY <3>1, IntakeStepIsScan DEF IntakeRange
  <2>2. CASE UNCHANGED <<asset, registers>>
    BY <2>2 DEF IntakeRange
  <2> QED BY <2>1, <2>2 DEF SimNext, Copy, ClientWrite, simVars
<1> QED BY <1>1, <1>2, PTL DEF SimSpec

\* The stand-in runs "the same level-controller logic as plc/intake.st"
\* (server.py:5): its initial state and every step of its model is one of the
\* program, which clients of the stand-in cannot reach.
THEOREM StandInRunsProgram == SimSpec => RunsIntakeProgram
<1>1. SimInit => (asset = "intake" => ST!PlcInit)
  BY DEF SimInit, ST!PlcInit, Zeros, Offsets
<1>2. IntakeRange /\ [SimNext]_simVars =>
        [asset = "intake" => ST!Scan]_<<registers[0], registers[5], registers[6]>>
  <2> SUFFICES ASSUME IntakeRange, [SimNext]_simVars, asset = "intake"
               PROVE  \/ ST!Scan
                      \/ UNCHANGED <<registers[0], registers[5], registers[6]>>
    OBVIOUS
  <2>1. CASE Step
    <3>1. registers' = IntakeStep(registers)
      BY <2>1 DEF Step, Stepped
    <3> QED BY <3>1, IntakeStepIsScan DEF IntakeRange, ST!Scan
  <2>2. CASE UNCHANGED registers
    BY <2>2
  <2> QED BY <2>1, <2>2 DEF SimNext, Copy, ClientWrite, simVars
<1> QED BY <1>1, <1>2, RangeInvariant, PTL DEF SimSpec, RunsIntakeProgram

-----------------------------------------------------------------------------
\* The assets' fields are different offsets.
LEMMA FieldsOfAssets ==
    ASSUME NEW a \in DOMAIN FIELDS
    PROVE  /\ Len(FIELDS[a]) \in Nat
           /\ \A i \in 1 .. Len(FIELDS[a]) : FIELDS[a][i] \in Offsets
           /\ \A i, j \in 1 .. Len(FIELDS[a]) :
                  FIELDS[a][i] = FIELDS[a][j] => i = j
<1>1. a \in {"intake", "treatment", "distribution"}
  BY DEF FIELDS
<1>2. CASE a = "intake"
  <2>1. FIELDS[a] = <<0, 1, 5, 6>>
    BY <1>2 DEF FIELDS
  <2> QED BY <2>1 DEF Offsets
<1>3. CASE a # "intake"
  <2>1. FIELDS[a] = <<0, 1, 2, 5, 6>>
    BY <1>1, <1>3 DEF FIELDS
  <2> QED BY <2>1 DEF Offsets
<1> QED BY <1>2, <1>3

\* A step of the model leaves offsets that are no field of the asset alone.
LEMMA StepsOnlyFields ==
    ASSUME asset \in DOMAIN FIELDS, NEW r, DOMAIN r = Offsets, NEW o \in Offsets,
           \A i \in 1 .. Len(FIELDS[asset]) : FIELDS[asset][i] # o
    PROVE  Stepped(r)[o] = r[o]
<1>1. asset \in {"intake", "treatment", "distribution"}
  BY DEF FIELDS
<1>2. CASE asset = "intake"
  <2>1. FIELDS[asset] = <<0, 1, 5, 6>>
    BY <1>2 DEF FIELDS
  <2>2. o \notin {0, 1, 5, 6}
    BY <2>1
  <2>3. Stepped(r) = IntakeStep(r)
    BY <1>2 DEF Stepped
  <2> QED BY <2>2, <2>3 DEF IntakeStep
<1>3. CASE asset = "treatment"
  <2>1. FIELDS[asset] = <<0, 1, 2, 5, 6>>
    BY <1>3 DEF FIELDS
  <2>2. o \notin {0, 1, 2, 5, 6}
    BY <2>1
  <2>3. Stepped(r) = TreatmentStep(r)
    BY <1>3 DEF Stepped
  <2> QED BY <2>2, <2>3 DEF TreatmentStep
<1>4. CASE asset = "distribution"
  <2>1. FIELDS[asset] = <<0, 1, 2, 5, 6>>
    BY <1>4 DEF FIELDS
  <2>2. o \notin {0, 1, 2, 5, 6}
    BY <2>1
  <2>3. Stepped(r) = DistributionStep(r)
    BY <1>4 DEF Stepped
  <2> QED BY <2>2, <2>3 DEF DistributionStep
<1> QED BY <1>1, <1>2, <1>3, <1>4

\* The fields not yet copied in this round.
Pending(o) == \E i \in next .. Len(FIELDS[asset]) : FIELDS[asset][i] = o

\* The invariant behind the bound on torn reads: a field no client wrote holds
\* the old value just while it is pending.
TornInv ==
    /\ asset \in DOMAIN FIELDS
    /\ next \in 1 .. Len(FIELDS[asset]) + 1
    /\ DOMAIN registers = Offsets /\ DOMAIN store = Offsets
    /\ \A o \in Offsets \ written :
           store[o] = IF Pending(o) THEN last[o] ELSE registers[o]

\* The invariant survives a step of the model.
LEMMA StepKeepsTornInv == TornInv /\ Step => TornInv'
<1> SUFFICES ASSUME TornInv, Step PROVE TornInv'
  OBVIOUS
<1> DEFINE n == Len(FIELDS[asset])
<1>1. asset' = asset /\ store' = store /\ written' = written /\ next' = 1
      /\ last' = registers /\ registers' = Stepped(registers) /\ next > n
  BY DEF Step, Asleep
<1>2. n \in Nat
  BY FieldsOfAssets DEF TornInv
<1>3. \A o \in Offsets \ written : store[o] = registers[o]
  BY <1>1, <1>2 DEF TornInv, Pending
<1>4. DOMAIN registers' = Offsets
  <2>1. asset \in {"intake", "treatment", "distribution"}
    BY DEF TornInv, FIELDS
  <2>2. Stepped(registers) \in
           {IntakeStep(registers), TreatmentStep(registers), DistributionStep(registers)}
    BY <2>1 DEF Stepped
  <2>3. DOMAIN IntakeStep(registers) = Offsets
    BY DEF IntakeStep, TornInv
  <2>4. DOMAIN TreatmentStep(registers) = Offsets
    BY DEF TreatmentStep, TornInv
  <2>5. DOMAIN DistributionStep(registers) = Offsets
    BY DEF DistributionStep, TornInv
  <2> QED BY <1>1, <2>2, <2>3, <2>4, <2>5
<1>5. ASSUME NEW o \in Offsets \ written, ~Pending(o)'
      PROVE  registers'[o] = registers[o]
  <2>1. \A i \in 1 .. n : FIELDS[asset][i] # o
    BY <1>1, <1>5 DEF Pending
  <2> QED BY <1>1, <2>1, StepsOnlyFields DEF TornInv
<1>6. next' \in 1 .. n + 1
  BY <1>1, <1>2
<1> QED BY <1>1, <1>3, <1>4, <1>5, <1>6 DEF TornInv

\* It survives the copying of a field.
LEMMA CopyKeepsTornInv == TornInv /\ Copy => TornInv'
<1> SUFFICES ASSUME TornInv, Copy PROVE TornInv'
  OBVIOUS
<1> DEFINE n == Len(FIELDS[asset])
           f == FIELDS[asset][next]
<1>1. /\ UNCHANGED <<asset, registers, last>> /\ next' = next + 1
      /\ store' = [store EXCEPT ![f] = registers[f]]
      /\ written' = written \ {f} /\ ~(next > n)
  BY DEF Copy, Asleep
<1>2. n \in Nat /\ next \in 1 .. n
  BY <1>1, FieldsOfAssets DEF TornInv
<1>3. f \in Offsets /\ \A i \in 1 .. n : FIELDS[asset][i] = f => i = next
  BY <1>2, FieldsOfAssets DEF TornInv
<1>4. ASSUME NEW o \in Offsets \ written'
      PROVE  store'[o] = IF Pending(o)' THEN last'[o] ELSE registers'[o]
  <2>1. CASE o = f
    <3>1. ~Pending(o)'
      BY <1>1, <1>2, <1>3, <2>1 DEF Pending
    <3>2. store'[o] = registers[o]
      BY <1>1, <1>3, <2>1 DEF TornInv
    <3> QED BY <1>1, <3>1, <3>2
  <2>2. CASE o # f
    <3>1. Pending(o)' <=> Pending(o)
      BY <1>1, <1>2, <2>2 DEF Pending
    <3>2. o \in Offsets \ written /\ store'[o] = store[o]
      BY <1>1, <2>2 DEF TornInv
    <3> QED BY <1>1, <3>1, <3>2 DEF TornInv
  <2> QED BY <2>1, <2>2
<1>5. next' \in 1 .. n + 1 /\ DOMAIN store' = Offsets
  BY <1>1, <1>2 DEF TornInv
<1> QED BY <1>1, <1>4, <1>5 DEF TornInv

\* A read of the store is torn by at most one step of the model, and by none
\* while the updater sleeps, whatever clients write (server.py:71-77).
THEOREM ReadsAreTornByOneStep == SimSpec => []TornByOneStep
<1>1. SimInit => TornInv
  <2> SUFFICES ASSUME SimInit PROVE TornInv
    OBVIOUS
  <2>1. Len(FIELDS[asset]) \in Nat
    BY FieldsOfAssets DEF SimInit
  <2> QED BY <2>1 DEF SimInit, TornInv, Zeros, Pending
<1>2. TornInv /\ [SimNext]_simVars => TornInv'
  <2> SUFFICES ASSUME TornInv, [SimNext]_simVars PROVE TornInv'
    OBVIOUS
  <2>1. CASE Step
    BY <2>1, StepKeepsTornInv
  <2>2. CASE Copy
    BY <2>2, CopyKeepsTornInv
  <2>3. ASSUME NEW i \in 1 .. Len(FIELDS[asset]), NEW v \in ClientValues,
               ClientWrite(FIELDS[asset][i], v)
        PROVE  TornInv'
    <3>1. UNCHANGED <<asset, registers, last, next>>
      BY <2>3 DEF ClientWrite
    <3>2. \A o \in Offsets \ written' : o \notin written /\ store'[o] = store[o]
      BY <2>3 DEF ClientWrite, TornInv
    <3>3. DOMAIN store' = Offsets
      BY <2>3 DEF ClientWrite, TornInv
    <3>4. \A o : Pending(o)' <=> Pending(o)
      BY <3>1 DEF Pending
    <3> QED BY <3>1, <3>2, <3>3, <3>4 DEF TornInv
  <2>4. CASE UNCHANGED simVars
    BY <2>4 DEF TornInv, Pending, simVars
  <2> QED BY <2>1, <2>2, <2>3, <2>4 DEF SimNext
<1>3. TornInv => TornByOneStep
  <2> SUFFICES ASSUME TornInv PROVE TornByOneStep
    OBVIOUS
  <2>1. Len(FIELDS[asset]) \in Nat
    BY FieldsOfAssets DEF TornInv
  <2>2. Asleep => \A o : ~Pending(o)
    BY <2>1 DEF Asleep, Pending, TornInv
  <2> QED BY <2>2 DEF TornInv, TornByOneStep
<1> QED BY <1>1, <1>2, <1>3, PTL DEF SimSpec

=============================================================================
