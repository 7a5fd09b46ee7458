------------------------------ MODULE IntakePlc ------------------------------
(***************************************************************************)
(* The intake controller PLC-01: the scan of plc/intake.st and the Modbus  *)
(* writes that land in its located registers between two scans.            *)
(*                                                                         *)
(* Every %QW variable of the program is a holding register that any Modbus *)
(* client may write, so the scan never owns its inputs or its outputs: it  *)
(* starts from whatever was last written.  OpenPLC copies the register     *)
(* image under a lock, so a scan and a write are atomic steps.  %QW1 (the  *)
(* pump) is declared by the program and never read or assigned; it is left *)
(* out.                                                                    *)
(***************************************************************************)
EXTENDS Integers

CONSTANTS
    LowLevel,       \* below it the level controller calls for water (20)
    TripLevel,      \* above it the overflow interlock trips (95)
    FullLevel,      \* the level is clamped here (100)
    WordSize,       \* number of values of a UINT (2^16)
    WriteRequests   \* the FC6/FC16 writes clients send: [registers -> UINT]

HR_VALVE == 0
HR_LEVEL == 5
HR_ALARM == 6

UINT == 0 .. WordSize - 1

ASSUME LevelsAssumption ==
    /\ LowLevel \in Nat \ {0} /\ TripLevel \in Nat
    /\ FullLevel \in Nat /\ WordSize \in Nat
    /\ LowLevel < TripLevel /\ TripLevel < FullLevel /\ FullLevel + 1 < WordSize

\* A write covers at least one register the program uses; one frame never
\* carries two values for the same register.
ASSUME WriteRequestsAssumption ==
    \A w \in WriteRequests :
        /\ DOMAIN w \subseteq {HR_VALVE, HR_LEVEL, HR_ALARM}
        /\ \A r \in DOMAIN w : w[r] \in UINT

VARIABLES
    valve,   \* InletValve AT %QW0
    level,   \* TankLevel AT %QW5
    alarm,   \* Alarm AT %QW6
    dirty    \* registers written over Modbus since the last scan (history)

plcVars == <<valve, level, alarm, dirty>>

PlcTypeOK ==
    /\ valve \in UINT
    /\ level \in UINT
    /\ alarm \in UINT
    /\ dirty \subseteq {HR_VALVE, HR_LEVEL, HR_ALARM}

(***************************************************************************)
(* The program runs with its located variables at zero after power-up.     *)
(***************************************************************************)
PlcInit ==
    /\ valve = 0
    /\ level = 0
    /\ alarm = 0
    /\ dirty = {}

-----------------------------------------------------------------------------
(***************************************************************************)
(* The statements of the scan, in program order, as functions of the image *)
(* the scan starts from.                                                   *)
(***************************************************************************)

\* Variant: water is called for only once the tank has run dry.
CalledValveWhenEmpty(v, l) == IF l = 0 THEN 1 ELSE v

\* Variant: the level controller is missing.
CalledValveNever(v, l) == v

\* The level controller: a low tank opens the inlet valve.
CalledValve(v, l) == IF l < LowLevel THEN 1 ELSE v

\* Filling while the valve register holds exactly 1, draining otherwise.
\* UINT arithmetic wraps.
MovedLevel(v, l) == IF v = 1 THEN (l + 1) % WordSize ELSE (l - 1) % WordSize

\* The two clamps; the lower one, `TankLevel < 0`, is never true of a UINT.
ClampedLevel(l) == IF l > FullLevel THEN FullLevel ELSE l

\* Variant: the upper clamp is missing.
ScannedLevelUnclamped(v, l) == MovedLevel(CalledValve(v, l), l)

\* Where the statements up to the interlock leave the level.
ScannedLevel(v, l) == ClampedLevel(MovedLevel(CalledValve(v, l), l))

\* The interlock looks at the level the scan has just produced.
Trips(l) == l > TripLevel

\* Variant: the interlock raises the alarm but does not close the valve.
ScanAlarmOnly ==
    /\ level' = ScannedLevel(valve, level)
    /\ valve' = CalledValve(valve, level)
    /\ alarm' = IF Trips(level') THEN 1 ELSE 0
    /\ dirty' = {}

Scan ==
    LET l == ScannedLevel(valve, level)
    IN  /\ level' = l
        /\ valve' = IF Trips(l) THEN 0 ELSE CalledValve(valve, level)
        /\ alarm' = IF Trips(l) THEN 1 ELSE 0
        /\ dirty' = {}

\* A client's FC6 or FC16 frame is stored into the located registers.
StoreWrite(w) ==
    /\ valve' = IF HR_VALVE \in DOMAIN w THEN w[HR_VALVE] ELSE valve
    /\ level' = IF HR_LEVEL \in DOMAIN w THEN w[HR_LEVEL] ELSE level
    /\ alarm' = IF HR_ALARM \in DOMAIN w THEN w[HR_ALARM] ELSE alarm
    /\ dirty' = dirty \cup DOMAIN w

\* The container restarts (restart: unless-stopped) and the program starts over.
PlcRestart ==
    /\ valve' = 0
    /\ level' = 0
    /\ alarm' = 0
    /\ dirty' = {}

PlcNext ==
    \/ Scan
    \/ \E w \in WriteRequests : StoreWrite(w)
    \/ PlcRestart

(***************************************************************************)
(* The runtime executes the task every 500 ms (CONFIGURATION, T#500ms), so *)
(* the scan is weakly fair.  Nobody has to write and nothing has to fail.  *)
(***************************************************************************)
PlcSpec == PlcInit /\ [][PlcNext]_plcVars /\ WF_plcVars(Scan)

-----------------------------------------------------------------------------
(***************************************************************************)
(* Correctness of the scan under writes.                                   *)
(***************************************************************************)

\* The image a client reads is consistent: unless the level or the alarm
\* itself was written since the last scan, HR6 is 1 exactly when HR5 is above
\* the trip level, whatever was written to the valve and however often
\* (intake.st:46-51 runs after the level has moved).
AlarmMatchesLevel ==
    dirty \cap {HR_LEVEL, HR_ALARM} = {} =>
        alarm = IF level > TripLevel THEN 1 ELSE 0

\* The tank is never left open above the trip level by the program: an open
\* valve up there was commanded (or the level was rewritten) after the last
\* scan, and the next scan takes it back (intake.st:47).
OpenAboveTripIsFresh ==
    level > TripLevel /\ valve = 1 => dirty \cap {HR_VALVE, HR_LEVEL} # {}

\* The level stays in its physical band unless HR5 is overwritten.
LevelInBand == HR_LEVEL \notin dirty => level <= FullLevel

\* A level in the band never jumps: a scan moves it by at most one point.  An
\* empty tank under a closed valve would: the subtraction of intake.st:32 wraps
\* to 65535, which the clamp turns into FullLevel, were the tank not filled
\* first (intake.st:23).  A level above the band, which only a write leaves
\* there, is clamped; the one wrap there is takes a written 65535 under an open
\* valve to 0 (intake.st:29).
LevelNeverJumps ==
    [][ Scan => \/ level' - level \in {-1, 0, 1}
                \/ /\ level > FullLevel
                   /\ level' = IF level = WordSize - 1 /\ valve = 1 THEN 0 ELSE FullLevel
      ]_plcVars

\* A low tank is refilled no matter what is written to the valve: from some
\* point on without restarts and without writes to HR5, a level below
\* LowLevel is eventually left (intake.st:23-30).
LowTankRefills ==
    <>[][ ~PlcRestart /\ ~\E w \in WriteRequests :
                              HR_LEVEL \in DOMAIN w /\ StoreWrite(w) ]_plcVars
        => (level < LowLevel ~> level >= LowLevel)

\* Once clients stop writing, the interlock brings the tank back under the
\* trip level, again and again (intake.st:46-48).
OverflowDrains ==
    <>[][ ~\E w \in WriteRequests : StoreWrite(w) ]_plcVars
        => []<>(level <= TripLevel)

=============================================================================
