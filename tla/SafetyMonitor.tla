---------------------------- MODULE SafetyMonitor ----------------------------
(***************************************************************************)
(* The physics-aware monitor detection/rules/process_safety_violation.py:  *)
(* it shadows HR5 from the FC3 responses of the PLC that it sniffs on the  *)
(* gateway and judges every FC6/FC16 write to HR0 against the shadow.      *)
(*                                                                         *)
(* Frames are well formed.  A response carries values but no address, so   *)
(* the monitor takes its sixth value for HR5; every reader of this system  *)
(* starts at HR0 (poller.py:87, the Scada-LTS points from HR0).            *)
(***************************************************************************)
EXTENDS Integers

CONSTANT LevelThreshold     \* OT_LEVEL_THRESHOLD (90)

ASSUME ThresholdAssumption == LevelThreshold \in Nat

INLET_VALVE_REG == 0
TANK_LEVEL_REG == 5

VARIABLES
    shadow,  \* shadow_registers
    up       \* the process is running

monVars == <<shadow, up>>

\* The dictionary the module starts with, and reset_state().
shadow_registers == [r \in {INLET_VALVE_REG, TANK_LEVEL_REG} |-> 0]

MonInit ==
    /\ shadow = shadow_registers
    /\ up = TRUE

-----------------------------------------------------------------------------

\* Variant: off by one, five registers are taken to include HR5.
CarriesLevelFromFive(count) == count >= TANK_LEVEL_REG

\* Does a response with `count` registers reach the level register?
CarriesLevel(count) == count > TANK_LEVEL_REG

\* Part 1 of process_packet: learn the level from a response.
ShadowResponse(count, lvl) ==
    shadow' = IF CarriesLevel(count)
              THEN [shadow EXCEPT ![TANK_LEVEL_REG] = lvl]
              ELSE shadow

\* _iter_writes yields the pair (HR0, 1) for this write.
Opens(w) == INLET_VALVE_REG \in DOMAIN w /\ w[INLET_VALVE_REG] = 1

\* Variants: the threshold itself counts; only a closed valve can be opened.
AlertsAtThreshold(w) == Opens(w) /\ shadow[TANK_LEVEL_REG] >= LevelThreshold

AlertsOnEdge(w) ==
    /\ Opens(w)
    /\ shadow[INLET_VALVE_REG] # 1
    /\ shadow[TANK_LEVEL_REG] > LevelThreshold

\* Part 2: log_alert is called for this write.
Alerts(w) == Opens(w) /\ shadow[TANK_LEVEL_REG] > LevelThreshold

\* Part 2: the valve shadow follows every write to HR0.
ShadowWrite(w) ==
    shadow' = IF INLET_VALVE_REG \in DOMAIN w
              THEN [shadow EXCEPT ![INLET_VALVE_REG] = w[INLET_VALVE_REG]]
              ELSE shadow

MonitorCrash ==
    /\ up
    /\ up' = FALSE
    /\ UNCHANGED shadow

MonitorRestart ==
    /\ ~up
    /\ up' = TRUE
    /\ shadow' = shadow_registers

=============================================================================
