------------------------ MODULE IntakeProcess_proofs ------------------------
(***************************************************************************)
(* Proofs about the intake loop, for any number of clients and every       *)
(* choice of levels, word size, reads and writes the assumptions allow:    *)
(* first the controller on its own (PlcSpec), then the composition (Spec), *)
(* where the controller's guarantees hold behind the wire and the          *)
(* monitor's shadow and its decisions are as good as the age of the sample *)
(* they rest on.                                                           *)
(***************************************************************************)
EXTENDS IntakeProcess, TLAPS

(***************************************************************************)
(* UINT arithmetic: a sum or difference that stays in range is exact.      *)
(***************************************************************************)
LEMMA ModUINT ==
    /\ \A x \in UINT : x % WordSize = x
    /\ \A x \in Int : x % WordSize \in UINT
<1>1. WordSize \in Nat /\ WordSize > 0
  BY LevelsAssumption
<1>2. \A x \in Int : x % WordSize \in UINT
  BY <1>1 DEF UINT
<1>3. \A x \in UINT : x % WordSize = x
  BY <1>1 DEF UINT
<1> QED BY <1>2, <1>3

(***************************************************************************)
(* What one scan does to an image of UINTs: the level it leaves is a UINT  *)
(* in the band, from inside the band it moves by at most one point, and    *)
(* from above it is clamped or, from the last UINT, wraps to zero.         *)
(***************************************************************************)
LEMMA ScannedLevelBand ==
    ASSUME NEW v \in UINT, NEW l \in UINT
    PROVE  /\ ScannedLevel(v, l) \in UINT
           /\ ScannedLevel(v, l) <= FullLevel
           /\ l <= FullLevel => ScannedLevel(v, l) - l \in {-1, 0, 1}
           /\ l > FullLevel =>
                \/ ScannedLevel(v, l) - l \in {-1, 0, 1}
                \/ ScannedLevel(v, l) = IF l = WordSize - 1 /\ v = 1 THEN 0 ELSE FullLevel
<1> DEFINE u == CalledValve(v, l)
           m == MovedLevel(u, l)
<1>1. m \in UINT
  BY ModUINT DEF MovedLevel, UINT
<1>2. ScannedLevel(v, l) \in UINT /\ ScannedLevel(v, l) <= FullLevel
  BY <1>1, LevelsAssumption DEF ScannedLevel, ClampedLevel, UINT
<1>3. ASSUME l <= FullLevel
      PROVE  ScannedLevel(v, l) - l \in {-1, 0, 1}
  <2>1. CASE u = 1
    <3>1. l + 1 \in UINT
      BY <1>3, LevelsAssumption DEF UINT
    <3>2. m = l + 1
      BY <2>1, <3>1, ModUINT DEF MovedLevel
    <3> QED BY <1>3, <3>2, LevelsAssumption DEF ScannedLevel, ClampedLevel, UINT
  <2>2. CASE u # 1
    \* The valve is not called for, so the tank is not empty: no wrap.
    <3>1. l >= LowLevel
      BY <2>2, LevelsAssumption DEF CalledValve, UINT
    <3>2. l - 1 \in UINT
      BY <3>1, LevelsAssumption DEF UINT
    <3>3. m = l - 1
      BY <2>2, <3>2, ModUINT DEF MovedLevel
    <3> QED BY <1>3, <3>2, <3>3, LevelsAssumption DEF ScannedLevel, ClampedLevel, UINT
  <2> QED BY <2>1, <2>2
<1>4. ASSUME l > FullLevel
      PROVE  \/ ScannedLevel(v, l) - l \in {-1, 0, 1}
             \/ ScannedLevel(v, l) = IF l = WordSize - 1 /\ v = 1 THEN 0 ELSE FullLevel
  <2>1. u = v
    BY <1>4, LevelsAssumption DEF CalledValve, UINT
  <2>2. CASE v = 1 /\ l = WordSize - 1
    <3>1. m = 0
      <4>1. m = WordSize % WordSize
        BY <2>1, <2>2, LevelsAssumption DEF MovedLevel
      <4> QED BY <4>1, LevelsAssumption
    <3> QED BY <2>2, <3>1, LevelsAssumption DEF ScannedLevel, ClampedLevel
  <2>3. CASE v = 1 /\ l # WordSize - 1
    <3>1. l + 1 \in UINT
      BY <2>3, LevelsAssumption DEF UINT
    <3>2. m = l + 1
      BY <2>1, <2>3, <3>1, ModUINT DEF MovedLevel
    <3> QED BY <1>4, <2>3, <3>2, LevelsAssumption DEF ScannedLevel, ClampedLevel, UINT
  <2>4. CASE v # 1
    <3>1. l - 1 \in UINT
      BY <1>4, LevelsAssumption DEF UINT
    <3>2. m = l - 1
      BY <2>1, <2>4, <3>1, ModUINT DEF MovedLevel
    <3> QED BY <1>4, <2>4, <3>2, LevelsAssumption DEF ScannedLevel, ClampedLevel, UINT
  <2> QED BY <2>2, <2>3, <2>4
<1> QED BY <1>2, <1>3, <1>4

(***************************************************************************)
(* The invariant of the controller.  It is stated once and preserved by    *)
(* each of its three steps; the composed system reuses the step lemmas.    *)
(***************************************************************************)
PlcInv ==
    /\ PlcTypeOK
    /\ LevelInBand
    /\ AlarmMatchesLevel
    /\ OpenAboveTripIsFresh

\* The power-up image satisfies the invariant of the controller.
LEMMA PlcInitInv == PlcInit => PlcInv
<1> SUFFICES ASSUME PlcInit PROVE PlcInv
  OBVIOUS
<1> USE LevelsAssumption DEF PlcInit
<1>1. PlcTypeOK
  BY DEF PlcTypeOK, UINT
<1>2. LevelInBand /\ AlarmMatchesLevel /\ OpenAboveTripIsFresh
  BY DEF LevelInBand, AlarmMatchesLevel, OpenAboveTripIsFresh
<1> QED BY <1>1, <1>2 DEF PlcInv

\* The scan of intake.st preserves the invariant of the controller.
LEMMA ScanInv == PlcInv /\ Scan => PlcInv'
<1> SUFFICES ASSUME PlcInv, Scan PROVE PlcInv'
  OBVIOUS
<1>1. valve \in UINT /\ level \in UINT
  BY DEF PlcInv, PlcTypeOK
<1>2. level' \in UINT /\ level' <= FullLevel
  BY <1>1, ScannedLevelBand DEF Scan
<1>3. dirty' = {}
  BY DEF Scan
<1>4. PlcTypeOK'
  <2>1. valve' \in UINT
    BY <1>1, LevelsAssumption DEF Scan, CalledValve, UINT
  <2>2. alarm' \in UINT
    BY LevelsAssumption DEF Scan, UINT
  <2> QED BY <1>2, <1>3, <2>1, <2>2 DEF PlcTypeOK
<1>5. LevelInBand'
  BY <1>2 DEF LevelInBand
<1>6. AlarmMatchesLevel'
  BY DEF Scan, Trips, AlarmMatchesLevel
<1>7. OpenAboveTripIsFresh'
  BY DEF Scan, Trips, OpenAboveTripIsFresh
<1> QED BY <1>4, <1>5, <1>6, <1>7 DEF PlcInv

\* A client's write preserves the invariant of the controller: the registers
\* it disturbs are recorded in dirty.
LEMMA StoreWriteInv ==
    ASSUME NEW w \in WriteRequests, PlcInv, StoreWrite(w)
    PROVE  PlcInv'
<1> USE DEF StoreWrite
<1>1. /\ DOMAIN w \subseteq {HR_VALVE, HR_LEVEL, HR_ALARM}
      /\ \A r \in DOMAIN w : w[r] \in UINT
  BY WriteRequestsAssumption
<1>2. PlcTypeOK'
  BY <1>1 DEF PlcInv, PlcTypeOK
<1>3. LevelInBand'
  BY DEF PlcInv, LevelInBand
<1>4. AlarmMatchesLevel'
  BY DEF PlcInv, AlarmMatchesLevel
<1>5. OpenAboveTripIsFresh'
  BY DEF PlcInv, OpenAboveTripIsFresh
<1> QED BY <1>2, <1>3, <1>4, <1>5 DEF PlcInv

\* A restart preserves the invariant of the controller.
LEMMA PlcRestartInv == PlcRestart => PlcInv'
<1> SUFFICES ASSUME PlcRestart PROVE PlcInv'
  OBVIOUS
<1> USE LevelsAssumption DEF PlcRestart
<1>1. PlcTypeOK'
  BY DEF PlcTypeOK, UINT
<1>2. LevelInBand' /\ AlarmMatchesLevel' /\ OpenAboveTripIsFresh'
  BY DEF LevelInBand, AlarmMatchesLevel, OpenAboveTripIsFresh
<1> QED BY <1>1, <1>2 DEF PlcInv

-----------------------------------------------------------------------------
\* The controller's own steps keep its invariant.
LEMMA PlcInvStep == PlcInv /\ [PlcNext]_plcVars => PlcInv'
<1> SUFFICES ASSUME PlcInv, [PlcNext]_plcVars PROVE PlcInv'
  OBVIOUS
<1>1. CASE Scan
  BY <1>1, ScanInv
<1>2. CASE \E w \in WriteRequests : StoreWrite(w)
  BY <1>2, StoreWriteInv
<1>3. CASE PlcRestart
  BY <1>3, PlcRestartInv
<1>4. CASE UNCHANGED plcVars
  BY <1>4 DEF plcVars, PlcInv, PlcTypeOK, LevelInBand, AlarmMatchesLevel,
              OpenAboveTripIsFresh
<1> QED BY <1>1, <1>2, <1>3, <1>4 DEF PlcNext

\* The controller's invariant holds in every reachable state.
THEOREM PlcInvariant == PlcSpec => []PlcInv
BY PlcInitInv, PlcInvStep, PTL DEF PlcSpec

\* The registers hold UINTs: no statement of the scan, and no write, takes one
\* out of its word (intake.st:12-17).
THEOREM PlcTypeCorrect == PlcSpec => []PlcTypeOK
<1>1. PlcInv => PlcTypeOK
  BY DEF PlcInv
<1> QED BY <1>1, PlcInvariant, PTL

\* The level stays in the band of the clamps unless a client writes it out of
\* it, and the next scan takes it back (intake.st:35-41).
THEOREM LevelStaysInBand == PlcSpec => []LevelInBand
<1>1. PlcInv => LevelInBand
  BY DEF PlcInv
<1> QED BY <1>1, PlcInvariant, PTL

\* Whatever clients write to the valve and however their writes interleave
\* with scans, the alarm register agrees with the level register until one of
\* the two is itself overwritten (intake.st:46-51).
THEOREM AlarmIsTruthful == PlcSpec => []AlarmMatchesLevel
<1>1. PlcInv => AlarmMatchesLevel
  BY DEF PlcInv
<1> QED BY <1>1, PlcInvariant, PTL

\* The program never leaves the inlet valve open above the trip level: only a
\* write younger than the last scan can (intake.st:47).
THEOREM OpenAboveTripIsCommanded == PlcSpec => []OpenAboveTripIsFresh
<1>1. PlcInv => OpenAboveTripIsFresh
  BY DEF PlcInv
<1> QED BY <1>1, PlcInvariant, PTL

\* What one scan does to the level, wherever it starts from.
LEMMA ScanMoves ==
    ASSUME PlcTypeOK
    PROVE  Scan => \/ level' - level \in {-1, 0, 1}
                   \/ /\ level > FullLevel
                      /\ level' = IF level = WordSize - 1 /\ valve = 1 THEN 0
                                  ELSE FullLevel
<1>1. valve \in UINT /\ level \in UINT
  BY DEF PlcTypeOK
<1>2. level <= FullLevel \/ level > FullLevel
  BY <1>1, LevelsAssumption DEF UINT
<1>3. Scan => level' = ScannedLevel(valve, level)
  BY DEF Scan
<1> QED BY <1>1, <1>2, <1>3, ScannedLevelBand

\* From inside the band a scan moves the level by at most one point, so the
\* UINT subtraction of intake.st:32 does not wrap there and the clamp does not
\* jump; from above, where only writes lead, every outcome is named.
THEOREM LevelMoves == PlcSpec => LevelNeverJumps
<1>1. PlcInv /\ [PlcNext]_plcVars =>
        [Scan => \/ level' - level \in {-1, 0, 1}
                 \/ /\ level > FullLevel
                    /\ level' = IF level = WordSize - 1 /\ valve = 1 THEN 0
                                ELSE FullLevel]_plcVars
  BY ScanMoves DEF PlcInv
<1> QED BY <1>1, PlcInvariant, PTL DEF PlcSpec, LevelNeverJumps

-----------------------------------------------------------------------------
(***************************************************************************)
(* The strengthening.  A response on its way to the gateway becomes the    *)
(* shadow, so its sample has to be tracked before it is observed.          *)
(***************************************************************************)
ResponsesTrackLevel ==
    \A c \in Clients :
        /\ resp[c] # None
        /\ CarriesLevel(resp[c].count)
        /\ resp[c].age < MaxAge
        => Distance(level, resp[c].level) <= resp[c].age

MonitorInv ==
    /\ ResponsesTrackLevel
    /\ ShadowTracksLevel
    /\ UnsafeCommandsAlerted
    /\ AlertsJustified

IInv ==
    /\ TypeOK
    /\ PlcInv
    /\ MonitorInv

-----------------------------------------------------------------------------
(***************************************************************************)
(* Ageing one sample.                                                      *)
(***************************************************************************)

\* A sample stays within its age when a scan moves the level by one point.
LEMMA AgeingIsSound ==
    ASSUME NEW l \in UINT, NEW m \in UINT, NEW x \in UINT, NEW a \in Age,
           m - l \in {-1, 0, 1}, a < MaxAge => Distance(l, x) <= a
    PROVE  /\ OneScanOlder(a) \in Age
           /\ OneScanOlder(a) < MaxAge =>
                /\ a < MaxAge
                /\ OneScanOlder(a) = a + 1
                /\ Distance(m, x) <= OneScanOlder(a)
BY LevelsAssumption, ProcessAssumption DEF OneScanOlder, Age, Distance, UINT

\* A decision threshold T crossed by more (by less) than the age before the
\* scan is crossed by more (by less) than the older age after it.
LEMMA ThresholdAgeing ==
    ASSUME NEW l \in UINT, NEW m \in UINT, NEW a \in Nat, NEW T \in Nat,
           m - l \in {-1, 0, 1}
    PROVE  /\ m > T + (a + 1) => l > T + a
           /\ l + a > T => m + (a + 1) > T
BY LevelsAssumption DEF UINT

\* The two extreme ages are ages, and ageing stays among them.
LEMMA AgeFacts ==
    /\ 0 \in Age /\ MaxAge \in Age
    /\ \A a \in Age : OneScanOlder(a) \in Age
BY ProcessAssumption DEF Age, OneScanOlder

-----------------------------------------------------------------------------
(***************************************************************************)
(* Types.                                                                  *)
(***************************************************************************)

\* Every step keeps the wire and the monitor in their types; the controller's
\* registers are PlcInv's business.
LEMMA TypeStep ==
    ASSUME TypeOK, PlcTypeOK', [Next]_vars
    PROVE  TypeOK'
<1> USE AgeFacts, NoneAssumption DEF TypeOK, Command, Response
<1>1. CASE PlcScan
  BY <1>1 DEF PlcScan, AgedCmd, AgedResp, monVars
<1>2. CASE PlcReboot
  BY <1>2 DEF PlcReboot, AgedResp, monVars
<1>3. CASE MonitorFails
  BY <1>3 DEF MonitorFails, MonitorCrash, wireVars
<1>4. CASE MonitorStarts
  <2>1. shadow' \in [{INLET_VALVE_REG, TANK_LEVEL_REG} -> UINT]
    BY <1>4, LevelsAssumption DEF MonitorStarts, MonitorRestart, shadow_registers, UINT
  <2> QED BY <1>4, <2>1 DEF MonitorStarts, MonitorRestart
<1>5. ASSUME NEW c \in Clients, NEW w \in WriteRequests, SendWrite(c, w)
      PROVE  TypeOK'
  <2>1. shadow' \in [{INLET_VALVE_REG, TANK_LEVEL_REG} -> UINT]
    <3>1. \A r \in DOMAIN w : w[r] \in UINT
      BY WriteRequestsAssumption
    <3> QED BY <1>5, <3>1 DEF SendWrite, ShadowWrite
  <2>2. cmd' \in [Clients -> Command \cup {None}]
    <3>1. (up /\ Alerts(w)) \in BOOLEAN
      BY DEF Alerts, Opens
    <3>2. [regs |-> w, alerted |-> up /\ Alerts(w),
           age |-> IF up THEN age ELSE MaxAge] \in Command
      BY <3>1
    <3> QED BY <1>5, <3>2 DEF SendWrite
  <2> QED BY <1>5, <2>1, <2>2 DEF SendWrite
<1>6. ASSUME NEW c \in Clients, DeliverWrite(c)
      PROVE  TypeOK'
  BY <1>6 DEF DeliverWrite, AgedCmd, AgedResp, monVars
<1>7. ASSUME NEW c \in Clients, LoseWrite(c)
      PROVE  TypeOK'
  BY <1>7 DEF LoseWrite, monVars
<1>8. ASSUME NEW c \in Clients, NEW n \in ReadCounts, AnswerRead(c, n)
      PROVE  TypeOK'
  <2>1. (IF n > HR_LEVEL THEN level ELSE 0) \in UINT
    BY LevelsAssumption DEF PlcTypeOK, UINT
  <2> QED BY <1>8, <2>1 DEF AnswerRead, monVars
<1>9. ASSUME NEW c \in Clients, ObserveResponse(c)
      PROVE  TypeOK'
  BY <1>9 DEF ObserveResponse, ShadowResponse
<1>10. ASSUME NEW c \in Clients, MissResponse(c)
       PROVE  TypeOK'
  BY <1>10 DEF MissResponse, monVars
<1>11. CASE UNCHANGED vars
  BY <1>11 DEF vars
<1> QED BY <1>1, <1>2, <1>3, <1>4, <1>5, <1>6, <1>7, <1>8, <1>9, <1>10, <1>11
        DEF Next

\* Behind the wire the controller only scans, stores a request, restarts or
\* rests: what a client sent is what the PLC stores, however late.
LEMMA ProcessStep ==
    ASSUME TypeOK, [Next]_vars
    PROVE  [PlcNext]_plcVars
<1>1. CASE PlcScan
  BY <1>1 DEF PlcScan, PlcNext
<1>2. CASE PlcReboot
  BY <1>2 DEF PlcReboot, PlcNext
<1>3. ASSUME NEW c \in Clients, DeliverWrite(c)
      PROVE  PlcNext
  <2>1. cmd[c].regs \in WriteRequests
    BY <1>3, NoneAssumption DEF DeliverWrite, TypeOK, Command
  <2> QED BY <1>3, <2>1 DEF DeliverWrite, PlcNext
<1>4. \/ PlcScan \/ PlcReboot \/ UNCHANGED plcVars
      \/ \E c \in Clients : DeliverWrite(c)
  BY DEF Next, vars, plcVars, MonitorFails, MonitorStarts, SendWrite, LoseWrite,
         AnswerRead, ObserveResponse, MissResponse
<1> QED BY <1>1, <1>2, <1>3, <1>4

-----------------------------------------------------------------------------
(***************************************************************************)
(* The monitor.  A step is harmless when it leaves the level and each      *)
(* surviving sample alone, or marks the sample unusable.  The scan is the  *)
(* step that has to pay for moving the level, by one more scan of age.     *)
(***************************************************************************)
LEMMA MonitorScan ==
    ASSUME TypeOK, PlcInv, PlcInv', MonitorInv, PlcScan
    PROVE  MonitorInv'
<1> DEFINE f(a) == IF HR_LEVEL \in dirty THEN MaxAge ELSE OneScanOlder(a)
<1>1. /\ Scan /\ UNCHANGED <<shadow, up>>
      /\ cmd' = [c \in Clients |-> IF cmd[c] = None THEN None
                                   ELSE [cmd[c] EXCEPT !.age = f(cmd[c].age)]]
      /\ resp' = [c \in Clients |-> IF resp[c] = None THEN None
                                    ELSE [resp[c] EXCEPT !.age = f(resp[c].age)]]
      /\ age' = f(age)
  BY DEF PlcScan, AgedCmd, AgedResp, monVars
<1>2. level \in UINT /\ level' \in UINT /\ age \in Age
  BY DEF PlcInv, PlcTypeOK, TypeOK
<1>3. CASE HR_LEVEL \in dirty
  \* Every sample becomes unusable; alerts are still only for openings.
  <2>1. ResponsesTrackLevel' /\ ShadowTracksLevel'
    BY <1>1, <1>3, NoneAssumption, ProcessAssumption
       DEF ResponsesTrackLevel, ShadowTracksLevel, TypeOK, Response
  <2>2. UnsafeCommandsAlerted' /\ AlertsJustified'
    BY <1>1, <1>3, NoneAssumption, ProcessAssumption
       DEF MonitorInv, UnsafeCommandsAlerted, AlertsJustified, TypeOK, Command, Opens
  <2> QED BY <2>1, <2>2 DEF MonitorInv
<1>4. CASE HR_LEVEL \notin dirty
  <2>1. level' - level \in {-1, 0, 1}
    BY <1>1, <1>2, <1>4, ScannedLevelBand DEF PlcInv, PlcTypeOK, LevelInBand, Scan
  <2>2. ResponsesTrackLevel'
    <3> SUFFICES ASSUME NEW c \in Clients, resp[c] # None,
                        CarriesLevel(resp[c].count), f(resp[c].age) < MaxAge
                 PROVE  Distance(level', resp[c].level) <= f(resp[c].age)
      BY <1>1 DEF ResponsesTrackLevel, TypeOK, Response
    <3>1. resp[c].level \in UINT /\ resp[c].age \in Age
      BY DEF TypeOK, Response
    <3>2. resp[c].age < MaxAge => Distance(level, resp[c].level) <= resp[c].age
      BY DEF MonitorInv, ResponsesTrackLevel
    <3> QED BY <1>2, <1>4, <2>1, <3>1, <3>2, AgeingIsSound
  <2>3. ShadowTracksLevel'
    <3>1. shadow[TANK_LEVEL_REG] \in UINT
      BY DEF TypeOK
    <3>2. ASSUME up
          PROVE  f(age) < MaxAge => Distance(level', shadow[TANK_LEVEL_REG]) <= f(age)
      <4>1. age < MaxAge => Distance(level, shadow[TANK_LEVEL_REG]) <= age
        BY <3>2 DEF MonitorInv, ShadowTracksLevel
      <4> QED BY <1>2, <1>4, <2>1, <3>1, <4>1, AgeingIsSound
    <3> QED BY <1>1, <3>2 DEF ShadowTracksLevel
  <2>4. UnsafeCommandsAlerted' /\ AlertsJustified'
    <3>1. ASSUME NEW c \in Clients, cmd[c] # None
          PROVE  /\ cmd'[c] # None
                 /\ cmd'[c].regs = cmd[c].regs
                 /\ cmd'[c].alerted = cmd[c].alerted
                 /\ cmd'[c].age = OneScanOlder(cmd[c].age)
                 /\ cmd[c].age \in Age
      BY <1>1, <1>4, <3>1, NoneAssumption, AgeFacts DEF TypeOK, Command
    <3>2. \A a \in Age : OneScanOlder(a) < MaxAge =>
                            a < MaxAge /\ OneScanOlder(a) = a + 1
      BY ProcessAssumption DEF Age, OneScanOlder
    <3>3. \A c \in Clients : cmd'[c] # None => cmd[c] # None
      BY <1>1
    <3>4. UnsafeCommandsAlerted'
      <4> SUFFICES ASSUME NEW c \in Clients, cmd'[c] # None, Opens(cmd'[c].regs),
                          cmd'[c].age < MaxAge,
                          level' > LevelThreshold + cmd'[c].age
                   PROVE  cmd'[c].alerted
        BY DEF UnsafeCommandsAlerted, Opens
      <4>1. /\ cmd[c].age < MaxAge
            /\ cmd'[c].age = cmd[c].age + 1
            /\ cmd[c].age \in Nat
        BY <3>1, <3>2, <3>3 DEF Age
      <4>2. level > LevelThreshold + cmd[c].age
        BY <1>2, <2>1, <4>1, ThresholdAgeing, ThresholdAssumption
      <4>3. Opens(cmd[c].regs)
        BY <3>1, <3>3 DEF Opens
      <4> QED BY <3>1, <3>3, <4>1, <4>2, <4>3 DEF MonitorInv, UnsafeCommandsAlerted
    <3>5. AlertsJustified'
      <4> SUFFICES ASSUME NEW c \in Clients, cmd'[c] # None, cmd'[c].alerted
                   PROVE  /\ Opens(cmd'[c].regs)
                          /\ cmd'[c].age < MaxAge =>
                                level' + cmd'[c].age > LevelThreshold
        BY DEF AlertsJustified, Opens
      <4>1. /\ Opens(cmd[c].regs)
            /\ cmd[c].age < MaxAge => level + cmd[c].age > LevelThreshold
        BY <3>1, <3>3 DEF MonitorInv, AlertsJustified
      <4>2. Opens(cmd'[c].regs)
        BY <3>1, <3>3, <4>1 DEF Opens
      <4>3. ASSUME cmd'[c].age < MaxAge
            PROVE  level' + cmd'[c].age > LevelThreshold
        <5>1. /\ cmd[c].age < MaxAge
              /\ cmd'[c].age = cmd[c].age + 1
              /\ cmd[c].age \in Nat
          BY <3>1, <3>2, <3>3, <4>3 DEF Age
        <5> QED BY <1>2, <2>1, <4>1, <5>1, ThresholdAgeing, ThresholdAssumption
      <4> QED BY <4>2, <4>3
    <3> QED BY <3>4, <3>5
  <2> QED BY <2>2, <2>3, <2>4 DEF MonitorInv
<1> QED BY <1>3, <1>4

\* Delivering a write moves the level only together with dropping every
\* sample; otherwise the level and the ages stay.
LEMMA MonitorDeliver ==
    ASSUME TypeOK, MonitorInv, NEW c \in Clients, DeliverWrite(c)
    PROVE  MonitorInv'
<1> DEFINE w == cmd[c].regs
           f(a) == IF HR_LEVEL \in DOMAIN w THEN MaxAge ELSE a
<1>1. /\ StoreWrite(w) /\ UNCHANGED <<shadow, up>>
      /\ \A d \in Clients : cmd'[d] # None =>
            /\ cmd[d] # None
            /\ cmd'[d].regs = cmd[d].regs
            /\ cmd'[d].alerted = cmd[d].alerted
            /\ cmd'[d].age = f(cmd[d].age)
      /\ \A d \in Clients : resp'[d] # None =>
            /\ resp[d] # None
            /\ resp'[d].count = resp[d].count
            /\ resp'[d].level = resp[d].level
            /\ resp'[d].age = f(resp[d].age)
      /\ age' = f(age)
  BY NoneAssumption DEF DeliverWrite, AgedCmd, AgedResp, monVars, TypeOK,
     Command, Response
<1>2. CASE HR_LEVEL \in DOMAIN w
  <2>1. ~(MaxAge < MaxAge)
    BY ProcessAssumption
  <2>2. ResponsesTrackLevel' /\ ShadowTracksLevel'
    BY <1>1, <1>2, <2>1 DEF ResponsesTrackLevel, ShadowTracksLevel
  <2>3. UnsafeCommandsAlerted' /\ AlertsJustified'
    BY <1>1, <1>2, <2>1 DEF MonitorInv, UnsafeCommandsAlerted, AlertsJustified, Opens
  <2> QED BY <2>2, <2>3 DEF MonitorInv
<1>3. CASE HR_LEVEL \notin DOMAIN w
  <2>1. level' = level
    BY <1>1, <1>3 DEF StoreWrite
  <2>2. ResponsesTrackLevel' /\ ShadowTracksLevel'
    BY <1>1, <1>3, <2>1
       DEF MonitorInv, ResponsesTrackLevel, ShadowTracksLevel, CarriesLevel, Distance
  <2>3. UnsafeCommandsAlerted' /\ AlertsJustified'
    BY <1>1, <1>3, <2>1 DEF MonitorInv, UnsafeCommandsAlerted, AlertsJustified, Opens
  <2> QED BY <2>2, <2>3 DEF MonitorInv
<1> QED BY <1>2, <1>3

\* The decision about a write is taken from the shadow at hand, so it is as
\* good as the shadow (process_safety_violation.py:138-149).
LEMMA MonitorSend ==
    ASSUME TypeOK, PlcInv, MonitorInv,
           NEW c \in Clients, NEW w \in WriteRequests, SendWrite(c, w)
    PROVE  MonitorInv'
<1> DEFINE new == [regs |-> w, alerted |-> up /\ Alerts(w),
                   age |-> IF up THEN age ELSE MaxAge]
<1>1. /\ cmd' = [cmd EXCEPT ![c] = new]
      /\ level' = level /\ up' = up /\ resp' = resp /\ age' = age
      /\ shadow'[TANK_LEVEL_REG] = shadow[TANK_LEVEL_REG]
  BY DEF SendWrite, plcVars, ShadowWrite, TypeOK, INLET_VALVE_REG, TANK_LEVEL_REG
<1>2. ResponsesTrackLevel' /\ ShadowTracksLevel'
  BY <1>1 DEF MonitorInv, ResponsesTrackLevel, ShadowTracksLevel, CarriesLevel, Distance
<1>3. /\ level \in UINT /\ shadow[TANK_LEVEL_REG] \in UINT /\ age \in Age
  BY DEF PlcInv, PlcTypeOK, TypeOK
<1>4. ASSUME up, age < MaxAge
      PROVE  /\ level > LevelThreshold + age =>
                    shadow[TANK_LEVEL_REG] > LevelThreshold
             /\ shadow[TANK_LEVEL_REG] > LevelThreshold =>
                    level + age > LevelThreshold
  BY <1>3, <1>4, ThresholdAssumption, ProcessAssumption, LevelsAssumption
     DEF MonitorInv, ShadowTracksLevel, Distance, UINT, Age
<1>5. ~(MaxAge < MaxAge)
  BY ProcessAssumption
<1>6. /\ Opens(w) /\ new.age < MaxAge /\ level > LevelThreshold + new.age
            => new.alerted
      /\ new.alerted => /\ Opens(w)
                        /\ new.age < MaxAge => level + new.age > LevelThreshold
  <2>1. CASE up
    BY <1>4, <2>1 DEF Alerts
  <2>2. CASE ~up
    BY <1>5, <2>2
  <2> QED BY <2>1, <2>2
<1>7. /\ \A d \in Clients : d # c => cmd'[d] = cmd[d]
      /\ cmd'[c] = new
  BY <1>1 DEF TypeOK
<1>8. UnsafeCommandsAlerted' /\ AlertsJustified'
  BY <1>1, <1>6, <1>7 DEF MonitorInv, UnsafeCommandsAlerted, AlertsJustified, Opens
<1> QED BY <1>2, <1>8 DEF MonitorInv

\* A fresh answer carries the level itself.
LEMMA MonitorAnswer ==
    ASSUME TypeOK, PlcInv, MonitorInv,
           NEW c \in Clients, NEW n \in ReadCounts, AnswerRead(c, n)
    PROVE  MonitorInv'
<1>1. /\ UNCHANGED <<level, shadow, up, cmd, age>>
      /\ resp' = [resp EXCEPT ![c] = [count |-> n,
                                      level |-> IF n > HR_LEVEL THEN level ELSE 0,
                                      age |-> 0]]
  BY DEF AnswerRead, plcVars, monVars
<1>2. ResponsesTrackLevel'
  <2>1. level \in UINT
    BY DEF PlcInv, PlcTypeOK
  <2>2. Distance(level, level) <= 0
    BY <2>1, LevelsAssumption DEF Distance, UINT
  <2> QED BY <1>1, <2>2
          DEF MonitorInv, ResponsesTrackLevel, TypeOK, CarriesLevel, Distance,
              HR_LEVEL, TANK_LEVEL_REG
<1>3. ShadowTracksLevel' /\ UnsafeCommandsAlerted' /\ AlertsJustified'
  BY <1>1 DEF MonitorInv, ShadowTracksLevel, Distance, UnsafeCommandsAlerted,
              AlertsJustified, Opens
<1> QED BY <1>2, <1>3 DEF MonitorInv

\* Observing a response replaces the shadow by a sample that is tracked, be it
\* older than the one it replaces.
LEMMA MonitorObserve ==
    ASSUME TypeOK, MonitorInv, NEW c \in Clients, ObserveResponse(c)
    PROVE  MonitorInv'
<1>1. /\ UNCHANGED <<level, up, cmd>>
      /\ resp' \in {resp, [resp EXCEPT ![c] = None]}
  BY DEF ObserveResponse, plcVars
<1>2. ResponsesTrackLevel'
  BY <1>1 DEF MonitorInv, ResponsesTrackLevel, TypeOK, CarriesLevel, Distance
<1>3. ShadowTracksLevel'
  <2>1. CASE CarriesLevel(resp[c].count)
    <3>1. /\ age' = resp[c].age
          /\ shadow'[TANK_LEVEL_REG] = resp[c].level
      BY <2>1 DEF ObserveResponse, ShadowResponse, TypeOK
    <3>2. resp[c] # None
      BY DEF ObserveResponse
    <3> QED BY <1>1, <2>1, <3>1, <3>2
            DEF MonitorInv, ResponsesTrackLevel, ShadowTracksLevel, Distance
  <2>2. CASE ~CarriesLevel(resp[c].count)
    BY <1>1, <2>2 DEF ObserveResponse, ShadowResponse, MonitorInv,
                      ShadowTracksLevel, Distance
  <2> QED BY <2>1, <2>2
<1>4. UnsafeCommandsAlerted' /\ AlertsJustified'
  BY <1>1 DEF MonitorInv, UnsafeCommandsAlerted, AlertsJustified, Opens
<1> QED BY <1>2, <1>3, <1>4 DEF MonitorInv

\* Losing frames, crashing, restarting and power cycling drop samples or mark
\* them unusable.
LEMMA MonitorFaults ==
    ASSUME TypeOK, MonitorInv,
           \/ PlcReboot \/ MonitorFails \/ MonitorStarts
           \/ \E c \in Clients : LoseWrite(c) \/ MissResponse(c)
           \/ UNCHANGED vars
    PROVE  MonitorInv'
<1> USE DEF MonitorInv, ResponsesTrackLevel, ShadowTracksLevel,
            UnsafeCommandsAlerted, AlertsJustified, CarriesLevel, Opens, Distance
<1>0. ~(MaxAge < MaxAge)
  BY ProcessAssumption
<1>1. CASE PlcReboot
  <2>1. /\ UNCHANGED <<shadow, up>> /\ age' = MaxAge
        /\ \A c \in Clients : cmd'[c] = None
        /\ \A c \in Clients : resp'[c] # None => resp'[c].age = MaxAge
    BY <1>1, NoneAssumption DEF PlcReboot, AgedResp, monVars, TypeOK, Response
  <2> QED BY <1>0, <2>1
<1>2. CASE MonitorFails
  BY <1>2 DEF MonitorFails, MonitorCrash, plcVars, wireVars
<1>3. CASE MonitorStarts
  BY <1>0, <1>3 DEF MonitorStarts, plcVars
<1>4. ASSUME NEW c \in Clients, LoseWrite(c)
      PROVE  MonitorInv'
  BY <1>4 DEF LoseWrite, plcVars, monVars, TypeOK
<1>5. ASSUME NEW c \in Clients, MissResponse(c)
      PROVE  MonitorInv'
  BY <1>5 DEF MissResponse, plcVars, monVars, TypeOK
<1>6. CASE UNCHANGED vars
  BY <1>6 DEF vars
<1> QED BY <1>1, <1>2, <1>3, <1>4, <1>5, <1>6

-----------------------------------------------------------------------------
\* The inductive invariant of the composed system.
THEOREM Invariant == Spec => []IInv
<1>1. Init => IInv
  <2> SUFFICES ASSUME Init PROVE IInv
    OBVIOUS
  <2>1. PlcInv
    BY PlcInitInv DEF Init
  <2>2. TypeOK
    BY <2>1, AgeFacts, LevelsAssumption
       DEF Init, MonInit, shadow_registers, PlcInv, TypeOK, UINT
  <2>3. MonitorInv
    BY ProcessAssumption DEF Init, MonitorInv, ResponsesTrackLevel,
       ShadowTracksLevel, UnsafeCommandsAlerted, AlertsJustified
  <2> QED BY <2>1, <2>2, <2>3 DEF IInv
<1>2. IInv /\ [Next]_vars => IInv'
  <2> SUFFICES ASSUME IInv, [Next]_vars PROVE IInv'
    OBVIOUS
  <2>1. PlcInv'
    BY ProcessStep, PlcInvStep DEF IInv
  <2>2. TypeOK'
    BY <2>1, TypeStep DEF IInv, PlcInv
  <2>3. MonitorInv'
    <3>1. CASE PlcScan
      BY <2>1, <3>1, MonitorScan DEF IInv
    <3>2. CASE \E c \in Clients : \E w \in WriteRequests : SendWrite(c, w)
      BY <3>2, MonitorSend DEF IInv
    <3>3. CASE \E c \in Clients : DeliverWrite(c)
      BY <3>3, MonitorDeliver DEF IInv
    <3>4. CASE \E c \in Clients : \E n \in ReadCounts : AnswerRead(c, n)
      BY <3>4, MonitorAnswer DEF IInv
    <3>5. CASE \E c \in Clients : ObserveResponse(c)
      BY <3>5, MonitorObserve DEF IInv
    <3>6. CASE \/ PlcReboot \/ MonitorFails \/ MonitorStarts
               \/ \E c \in Clients : LoseWrite(c) \/ MissResponse(c)
               \/ UNCHANGED vars
      BY <3>6, MonitorFaults DEF IInv
    <3> QED BY <3>1, <3>2, <3>3, <3>4, <3>5, <3>6 DEF Next
  <2> QED BY <2>1, <2>2, <2>3 DEF IInv
<1> QED BY <1>1, <1>2, PTL DEF Spec

\* Type correctness of the composed system.
THEOREM TypeCorrect == Spec => []TypeOK
<1>1. IInv => TypeOK
  BY DEF IInv
<1> QED BY <1>1, Invariant, PTL

\* The shadowed level is never further from the tank than one point per scan
\* since its sample was taken, although responses are lost and overtake each
\* other (process_safety_violation.py:123-131).
THEOREM ShadowIsTracking == Spec => []ShadowTracksLevel
<1>1. IInv => ShadowTracksLevel
  BY DEF IInv, MonitorInv
<1> QED BY <1>1, Invariant, PTL

\* Every opening write in flight to a tank that is above the threshold by more
\* than the age of the sample has raised the alert
\* (process_safety_violation.py:138-149).
THEOREM NoUnsafeCommandMissed == Spec => []UnsafeCommandsAlerted
<1>1. IInv => UnsafeCommandsAlerted
  BY DEF IInv, MonitorInv
<1> QED BY <1>1, Invariant, PTL

\* An alert names an opening write, and the tank is within the sample's age of
\* the threshold.
THEOREM NoGroundlessAlert == Spec => []AlertsJustified
<1>1. IInv => AlertsJustified
  BY DEF IInv, MonitorInv
<1> QED BY <1>1, Invariant, PTL

\* Composing loses nothing of the controller: behind clients whose frames are
\* late, lost and overtake each other, and a monitor that comes and goes, every
\* step is a step of the controller alone or none of it, and what holds of the
\* controller alone holds of the plant (intake.st:23-51).
THEOREM ProcessRunsThePlc ==
    Spec => /\ PlcInit /\ [][PlcNext]_plcVars
            /\ [](LevelInBand /\ AlarmMatchesLevel /\ OpenAboveTripIsFresh)
            /\ LevelNeverJumps
<1>1. Init => PlcInit
  BY DEF Init
<1>2. IInv /\ [Next]_vars => [PlcNext]_plcVars
  BY ProcessStep DEF IInv
<1>3. IInv => LevelInBand /\ AlarmMatchesLevel /\ OpenAboveTripIsFresh
  BY DEF IInv, PlcInv
<1>4. IInv /\ [PlcNext]_plcVars =>
        [Scan => \/ level' - level \in {-1, 0, 1}
                 \/ /\ level > FullLevel
                    /\ level' = IF level = WordSize - 1 /\ valve = 1 THEN 0
                                ELSE FullLevel]_plcVars
  BY ScanMoves DEF IInv, PlcInv
<1> QED BY <1>1, <1>2, <1>3, <1>4, Invariant, PTL DEF Spec, LevelNeverJumps

=============================================================================
