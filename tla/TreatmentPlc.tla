---------------------------- MODULE TreatmentPlc ----------------------------
(***************************************************************************)
(* The treatment controller PLC-02: the scan of plc/treatment.st and the   *)
(* Modbus writes that land in its located registers between two scans.  As *)
(* in IntakePlc, a scan and a write are atomic and every register may be   *)
(* written.                                                                *)
(***************************************************************************)
EXTENDS Integers

CONSTANTS
    DoseBelow,        \* with flow, dosing starts below this residual (20)
    StopAt,           \* dosing stops from this residual on (40)
    HighChlor,        \* above it the residual is an alarm (60)
    DosingRequests    \* the writes clients send: records of some registers

\* HR0, HR1, HR2, HR5 and HR6 of the program, in the order it declares them.
TreatmentRegisters == {"flow", "dosing", "rate", "chlor", "dosingAlarm"}

ASSUME DosingAssumption ==
    /\ DoseBelow \in Nat /\ StopAt \in Nat /\ HighChlor \in Nat
    /\ 0 < DoseBelow /\ DoseBelow <= StopAt /\ StopAt <= HighChlor

ASSUME DosingRequestsAssumption ==
    \A w \in DosingRequests :
        /\ DOMAIN w \subseteq TreatmentRegisters
        /\ \A r \in DOMAIN w : w[r] \in Nat

VARIABLES
    water,        \* the register image: [TreatmentRegisters -> UINT]
    sinceScan,    \* registers written since the last scan (history)
    everWritten   \* registers written since power-up (history)

treatmentVars == <<water, sinceScan, everWritten>>

TreatmentInit ==
    /\ water = [r \in TreatmentRegisters |-> 0]
    /\ sinceScan = {}
    /\ everWritten = {}

-----------------------------------------------------------------------------
\* The chlorine decays by one per scan and stops at zero.
DecayedChlor(c) == IF c > 0 THEN c - 1 ELSE c

\* Variant: dosing stops as soon as nothing flows.
DosedWithFlow(f, c, old) ==
    IF f > 0 /\ c < DoseBelow THEN [dosing |-> 1, rate |-> 50]
    ELSE [dosing |-> 0, rate |-> 0]

\* The dosing control, from the residual the decay has left.  Between the two
\* thresholds, and without flow below the upper one, the outputs keep their
\* values.
Dosed(f, c, old) ==
    IF f > 0 /\ c < DoseBelow THEN [dosing |-> 1, rate |-> 50]
    ELSE IF c >= StopAt THEN [dosing |-> 0, rate |-> 0]
    ELSE old

\* Too much chlorine, or none in flowing water.
OutOfRange(f, c) == c > HighChlor \/ (f > 0 /\ c = 0)

\* One scan of MAIN on image w.
TreatedWater(w) ==
    LET c == DecayedChlor(w.chlor)
        d == Dosed(w.flow, c, [dosing |-> w.dosing, rate |-> w.rate])
    IN  [w EXCEPT !.chlor = c, !.dosing = d.dosing, !.rate = d.rate,
                  !.dosingAlarm = IF OutOfRange(w.flow, c) THEN 1 ELSE 0]

TreatmentScan ==
    /\ water' = TreatedWater(water)
    /\ sinceScan' = {}
    /\ UNCHANGED everWritten

\* A client's FC6 or FC16 frame is stored into the located registers.
TreatmentWrite(w) ==
    /\ water' = [r \in TreatmentRegisters |->
                    IF r \in DOMAIN w THEN w[r] ELSE water[r]]
    /\ sinceScan' = sinceScan \cup DOMAIN w
    /\ everWritten' = everWritten \cup DOMAIN w

TreatmentNext ==
    \/ TreatmentScan
    \/ \E w \in DosingRequests : TreatmentWrite(w)

\* The runtime executes the task every 500 ms; nobody has to write.
TreatmentSpec ==
    TreatmentInit /\ [][TreatmentNext]_treatmentVars
        /\ WF_treatmentVars(TreatmentScan)

-----------------------------------------------------------------------------
\* Registers hold naturals (no scan raises one past what was written).
TreatmentTypeOK ==
    /\ water \in [TreatmentRegisters -> Nat]
    /\ sinceScan \subseteq everWritten
    /\ everWritten \subseteq TreatmentRegisters

\* The image a client reads is consistent: unless one of the three registers
\* was written since the last scan, HR6 says exactly whether the residual in
\* HR5 is out of range for the flow in HR0, whatever else was written and in
\* whatever order (treatment.st:36-40 runs after the decay).
AlarmMatchesChlorine ==
    sinceScan \cap {"flow", "chlor", "dosingAlarm"} = {} =>
        water.dosingAlarm = IF OutOfRange(water.flow, water.chlor) THEN 1 ELSE 0

\* The program never ends a dose by what the dose does: the residual that
\* stops the pump (treatment.st:30) is one a client wrote at some time, as no
\* statement of the program raises it.  A pump without flow keeps running.
OnlyAWriteEndsDosing ==
    [][ TreatmentScan /\ water.dosing # 0 /\ water'.dosing = 0
            => "chlor" \in everWritten ]_treatmentVars

=============================================================================
