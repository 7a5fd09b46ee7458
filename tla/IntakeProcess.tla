---------------------------- MODULE IntakeProcess ----------------------------
(***************************************************************************)
(* The intake controller, the Modbus clients that poll and command it and  *)
(* the monitor on the gateway between them.                                *)
(*                                                                         *)
(* Clients are synchronous: one request outstanding each.  A write is      *)
(* sniffed when it passes the gateway and stored by the PLC later; a read  *)
(* is answered by the PLC and sniffed when the response passes the gateway *)
(* later; scans run in between, and the frames of two clients overtake     *)
(* each other.  A capture can miss a response, a frame can be lost, the    *)
(* monitor and the PLC can restart.                                        *)
(*                                                                         *)
(* Ages are history: the number of scans since the level that a response,  *)
(* the shadow or an alert decision is based on was sampled.  MaxAge stands *)
(* for "MaxAge or more, or no usable sample at all".                       *)
(***************************************************************************)
EXTENDS IntakePlc, SafetyMonitor

CONSTANTS
    Clients,     \* Modbus masters: HMI, historian collector, others
    ReadCounts,  \* register counts of their FC3 reads, all starting at HR0
    MaxAge,      \* ages are tracked up to this many scans
    None         \* no request outstanding

ASSUME ProcessAssumption == ReadCounts \subseteq Nat /\ MaxAge \in Nat \ {0}

VARIABLES
    cmd,    \* per client, the write between the gateway and the PLC
    resp,   \* per client, the response between the PLC and the gateway
    age     \* age of the shadowed level

wireVars == <<cmd, resp, age>>
vars == <<valve, level, alarm, dirty, shadow, up, cmd, resp, age>>

Age == 0 .. MaxAge
Command == [regs : WriteRequests, alerted : BOOLEAN, age : Age]
Response == [count : ReadCounts, level : UINT, age : Age]

ASSUME NoneAssumption == None \notin Command /\ None \notin Response

TypeOK ==
    /\ PlcTypeOK
    /\ shadow \in [{INLET_VALVE_REG, TANK_LEVEL_REG} -> UINT]
    /\ up \in BOOLEAN
    /\ cmd \in [Clients -> Command \cup {None}]
    /\ resp \in [Clients -> Response \cup {None}]
    /\ age \in Age

Init ==
    /\ PlcInit
    /\ MonInit
    /\ cmd = [c \in Clients |-> None]
    /\ resp = [c \in Clients |-> None]
    /\ age = MaxAge

-----------------------------------------------------------------------------
Idle(c) == cmd[c] = None /\ resp[c] = None

\* The frames in flight, with the age f gives to the sample behind each.
AgedCmd(f(_)) ==
    [c \in Clients |-> IF cmd[c] = None THEN None
                       ELSE [cmd[c] EXCEPT !.age = f(cmd[c].age)]]

AgedResp(f(_)) ==
    [c \in Clients |-> IF resp[c] = None THEN None
                       ELSE [resp[c] EXCEPT !.age = f(resp[c].age)]]

OneScanOlder(a) == IF a < MaxAge THEN a + 1 ELSE MaxAge

\* One task cycle of the controller.  The scan after a write to HR5 may clamp
\* the level, so no sample taken before it counts any more.
PlcScan ==
    LET f(a) == IF HR_LEVEL \in dirty THEN MaxAge ELSE OneScanOlder(a)
    IN  /\ Scan
        /\ cmd' = AgedCmd(f)
        /\ resp' = AgedResp(f)
        /\ age' = f(age)
        /\ UNCHANGED monVars

\* A client's write passes the gateway, where the running monitor judges it.
SendWrite(c, w) ==
    /\ Idle(c)
    /\ cmd' = [cmd EXCEPT ![c] = [regs |-> w,
                                  alerted |-> up /\ Alerts(w),
                                  age |-> IF up THEN age ELSE MaxAge]]
    /\ IF up THEN ShadowWrite(w) ELSE UNCHANGED shadow
    /\ UNCHANGED <<plcVars, up, resp, age>>

\* The PLC stores the write.  A new level invalidates every sample taken.
DeliverWrite(c) ==
    /\ cmd[c] # None
    /\ StoreWrite(cmd[c].regs)
    /\ LET f(a) == IF HR_LEVEL \in DOMAIN cmd[c].regs THEN MaxAge ELSE a
       IN  /\ cmd' = [AgedCmd(f) EXCEPT ![c] = None]
           /\ resp' = AgedResp(f)
           /\ age' = f(age)
    /\ UNCHANGED monVars

\* The connection breaks before the PLC stores the write.
LoseWrite(c) ==
    /\ cmd[c] # None
    /\ cmd' = [cmd EXCEPT ![c] = None]
    /\ UNCHANGED <<plcVars, monVars, resp, age>>

\* The PLC answers a read of the first n holding registers.  The bytes at the
\* place of HR5 read as zero when the response ends before them.
AnswerRead(c, n) ==
    /\ Idle(c)
    /\ resp' = [resp EXCEPT ![c] = [count |-> n,
                                    level |-> IF n > HR_LEVEL THEN level ELSE 0,
                                    age |-> 0]]
    /\ UNCHANGED <<plcVars, monVars, cmd, age>>

\* The response passes the gateway and the running monitor sees it: once per
\* interface it is captured on, so it may come again, other frames in between.
ObserveResponse(c) ==
    /\ resp[c] # None
    /\ up
    /\ ShadowResponse(resp[c].count, resp[c].level)
    /\ age' = IF CarriesLevel(resp[c].count) THEN resp[c].age ELSE age
    /\ resp' \in {resp, [resp EXCEPT ![c] = None]}
    /\ UNCHANGED <<plcVars, up, cmd>>

\* No copy of the response is seen any more: they all passed, capture lost
\* them, or the monitor is down.
MissResponse(c) ==
    /\ resp[c] # None
    /\ resp' = [resp EXCEPT ![c] = None]
    /\ UNCHANGED <<plcVars, monVars, cmd, age>>

\* Power cycle: requests in flight die with their connections.
PlcReboot ==
    /\ PlcRestart
    /\ cmd' = [c \in Clients |-> None]
    /\ LET f(a) == MaxAge IN resp' = AgedResp(f)
    /\ age' = MaxAge
    /\ UNCHANGED monVars

MonitorFails ==
    /\ MonitorCrash
    /\ UNCHANGED <<plcVars, wireVars>>

MonitorStarts ==
    /\ MonitorRestart
    /\ age' = MaxAge
    /\ UNCHANGED <<plcVars, cmd, resp>>

Next ==
    \/ PlcScan
    \/ PlcReboot
    \/ MonitorFails
    \/ MonitorStarts
    \/ \E c \in Clients :
          \/ \E w \in WriteRequests : SendWrite(c, w)
          \/ DeliverWrite(c)
          \/ LoseWrite(c)
          \/ \E n \in ReadCounts : AnswerRead(c, n)
          \/ ObserveResponse(c)
          \/ MissResponse(c)

Spec == Init /\ [][Next]_vars

-----------------------------------------------------------------------------
(***************************************************************************)
(* How far a passive shadow can be trusted.                                *)
(***************************************************************************)
Distance(a, b) == IF a < b THEN b - a ELSE a - b

\* The shadow is never further from the tank than one point per scan since
\* the sample it was taken from, although responses are lost and overtake
\* each other (process_safety_violation.py:123-131 keeps the last one seen).
ShadowTracksLevel ==
    up /\ age < MaxAge => Distance(level, shadow[TANK_LEVEL_REG]) <= age

\* No missed command: while a write that opens the valve travels to the PLC,
\* if the tank is above the threshold by more than the age of the sample
\* behind the decision, PROCESS_SAFETY_VIOLATION was raised for it
\* (process_safety_violation.py:138-149).
UnsafeCommandsAlerted ==
    \A c \in Clients :
        /\ cmd[c] # None
        /\ Opens(cmd[c].regs)
        /\ cmd[c].age < MaxAge
        /\ level > LevelThreshold + cmd[c].age
        => cmd[c].alerted

\* No groundless alert: an alert is raised only for opening writes, and when
\* its sample still counts the tank is within that age of the threshold.
AlertsJustified ==
    \A c \in Clients :
        cmd[c] # None /\ cmd[c].alerted =>
            /\ Opens(cmd[c].regs)
            /\ cmd[c].age < MaxAge => level + cmd[c].age > LevelThreshold

=============================================================================
