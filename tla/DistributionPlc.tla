--------------------------- MODULE DistributionPlc ---------------------------
(***************************************************************************)
(* The distribution controller PLC-03: the scan of plc/distribution.st and *)
(* the Modbus writes that land in its located registers between two scans. *)
(***************************************************************************)
EXTENDS Integers

CONSTANTS
    LowPressure,     \* below it a running pump raises the alarm (2)
    MaxPressure,     \* the pressure is clamped here (10)
    Word,            \* number of values of a UINT
    PumpRequests     \* the writes clients send: records of some registers

\* HR0, HR1, HR2, HR5 and HR6 of the program.
PumpRegisters == {"pump", "pressure", "speed", "runtime", "lowAlarm"}

ASSUME PressureAssumption ==
    /\ LowPressure \in Nat /\ MaxPressure \in Nat /\ Word \in Nat
    /\ 2 <= LowPressure /\ LowPressure <= MaxPressure
    /\ MaxPressure + 1 < Word /\ 80 < Word

ASSUME PumpRequestsAssumption ==
    \A w \in PumpRequests :
        /\ DOMAIN w \subseteq PumpRegisters
        /\ \A r \in DOMAIN w : w[r] \in 0 .. Word - 1

VARIABLES
    main,      \* the register image: [PumpRegisters -> 0 .. Word - 1]
    quiet      \* scans since HR0, HR1 or HR6 was written, up to QuietCap (history)

distributionVars == <<main, quiet>>

QuietCap == LowPressure + 1

DistributionInit ==
    /\ main = [r \in PumpRegisters |-> 0]
    /\ quiet = QuietCap

-----------------------------------------------------------------------------
\* Variant: a running pump builds no pressure.
MovedPressureStuck(pump, p) ==
    IF pump = 1 THEN p ELSE IF p >= 2 THEN p - 2 ELSE 0

\* Variant: the difference wraps below two.
MovedPressureWraps(pump, p) ==
    LET q == IF pump = 1 THEN (p + 1) % Word ELSE (p + Word - 2) % Word
    IN  IF q > MaxPressure THEN MaxPressure ELSE q

\* The pressure follows the pump by one or two bar per scan; the sum is a
\* UINT and wraps, the difference does not, and the clamp comes last.
MovedPressure(pump, p) ==
    LET q == IF pump = 1 THEN (p + 1) % Word ELSE IF p >= 2 THEN p - 2 ELSE 0
    IN  IF q > MaxPressure THEN MaxPressure ELSE q

\* A running pump without pressure.
FailedPump(pump, p) == pump = 1 /\ p < LowPressure

\* One scan of MAIN on image m.
PumpedMain(m) ==
    LET p == MovedPressure(m.pump, m.pressure)
        on == m.pump = 1
    IN  [m EXCEPT !.pressure = p,
                  !.speed = IF on THEN 80 ELSE 0,
                  !.runtime = IF on THEN (@ + 1) % Word ELSE @,
                  !.lowAlarm = IF FailedPump(m.pump, p) THEN 1 ELSE 0]

DistributionScan ==
    /\ main' = PumpedMain(main)
    /\ quiet' = IF quiet = QuietCap THEN quiet ELSE quiet + 1

\* A client's FC6 or FC16 frame is stored into the located registers.
DistributionWrite(w) ==
    /\ main' = [r \in PumpRegisters |->
                   IF r \in DOMAIN w THEN w[r] ELSE main[r]]
    /\ quiet' = IF DOMAIN w \cap {"pump", "pressure", "lowAlarm"} = {}
                THEN quiet ELSE 0

DistributionNext ==
    \/ DistributionScan
    \/ \E w \in PumpRequests : DistributionWrite(w)

\* The runtime executes the task every 500 ms; nobody has to write.
DistributionSpec ==
    DistributionInit /\ [][DistributionNext]_distributionVars
        /\ WF_distributionVars(DistributionScan)

-----------------------------------------------------------------------------
\* The image holds UINTs.
DistributionTypeOK ==
    /\ main \in [PumpRegisters -> 0 .. Word - 1]
    /\ quiet \in 0 .. QuietCap

\* The alarm of a failed pump (distribution.st:40-44) is never raised by the
\* process itself: it is the start-up of a pump that has just been commanded,
\* or a written pressure, and after LowPressure scans without a write to HR0,
\* HR1 or HR6 it is gone.  A pressure of 65535 that wraps to zero is included.
LowAlarmIsFresh == main.lowAlarm # 0 => quiet <= LowPressure

\* No scan raises the pressure of a pump that is off, from any written pressure:
\* a difference that wrapped below two bar would be clamped to MaxPressure and
\* come out as full pressure (distribution.st:27-37).
StoppedPumpNeverPressurises ==
    [][ DistributionScan /\ main.pump # 1
        => main'.pressure <= main.pressure ]_distributionVars

=============================================================================
