# Verification of the OT Security Lab

TLA+ models of the lab's own logic: the process it protects, what the gateway
forwards, what the detection rules see and conclude, and what containment does about
it. Every definition is a translation of the code under `src/`; where the code is
not in the repository (netfilter, pymodbus, the OpenPLC runtime, TCP) the model says
how the code uses it and marks it external.

- [The system](#the-system)
- [The modules](#the-modules)
- [Correspondence with the code](#correspondence-with-the-code)
- [The runs](#the-runs)
- [Fairness, deadlock, symmetry](#fairness-deadlock-symmetry)
- [What is proved](#what-is-proved)
- [Where the code and its documentation disagree](#where-the-code-and-its-documentation-disagree)
- [What is not modelled](#what-is-not-modelled)
- [Plan](#plan)

## The system

One gateway joins five networks (Enterprise, DMZ, Operations, Supervisory, Control).
It filters what crosses zones, runs the detection rules on what it sniffs, and can
be told by them to drop a source. Three controllers in Control run a Structured Text
program each; the HMI and the historian's collector poll them over Modbus.

| Component | State it keeps | Operations | Talks to | Hard behaviour | Correct means |
|---|---|---|---|---|---|
| Intake controller, `plc/intake.st` | the located registers HR0, HR5, HR6 | scan every 500 ms; Modbus writes between scans; restart | Modbus clients | every register is writable, so a scan starts from anything; unsigned words; order of the statements in a scan | consistent image, interlock wins, level bounded, tank refills and drains |
| Process safety monitor, `process_safety_violation.py` | `shadow_registers` | learn HR5 from responses, judge writes to HR0; restart | sniffs the gateway | passive: stale, lost and overtaken frames; restart with an empty shadow | shadow near the tank, no unsafe command unreported, no groundless alert |
| Responder, `responder.py` | `state`, `blocked`, an open file handle | tail the log, count in a window, insert a DROP; `--unblock` | alert log, FORWARD chain | log renamed under the handle, iptables failing, crash, an operator process with another memory, reading lag | offenders blocked, nobody else, blocks effective, dry run passive |
| Playbook, `auto_block_ip.py` | none: rereads the log | append a DROP, delete one | alert log, FORWARD chain | the same chain as the responder, other rules of counting; the responder acts between two of its steps | no rule without its alerts; what it calls blocked is dropped (it is not) |
| Zone gateway, `firewall-rules.sh` | conntrack | load rules, forward | all zones | return traffic by state, connections picked up and forgotten | zones isolated, Control only answers |
| Firewall event producer, `firewall_events.py` | `_beacon_times` | ship drops, find beacons | sniffs the gateway, Loki | a second copy of the conduits by hand; SYN repetitions; regularity of a few gaps | events match drops, beacons found, irregular traffic not |
| Watchdog, `watchdog.py` with `start_ids.sh` | `_last_alerted` | rounds over the producers, grace, repeat | process table, alert log | deaths and launches between rounds, late rounds, its own death | outages reported promptly and over and over |
| Historian collector, `historian-poller/` | cached Modbus clients, health file | probe, read, post, sleep | controllers or stand-ins, InfluxDB | each step sees another network; partial failure; cached clients | health file honest, recovery from any mix |
| Sliding-window detectors, `ot_brute_force.py`, `hmi-login-monitor/monitor.py` | times per source; an open file handle | count, alert, empty; tail | alert log, nginx's access log | window edges, lists emptied by alerts or not, log rotation under the handle | no silent burst, alerts spaced or one per failure, what is logged is read |
| Protocol producers, `otdpi/` with `dnp3_dpi.py`, `s7comm_dpi.py`, `opcua_dpi.py`, `dnp3_anomaly.py`, `modbus_anomaly.py` | none | decode what starts a TCP segment, alert | sniff the gateway | segments do not respect messages; fields at fixed offsets; two DNP3 producers | alert exactly what a message deserves, when it is seen |
| Cross-zone monitor, `cross_zone_traffic.py` | none | test two addresses | sniffs the gateway | a third copy of the zones | agrees with drops and events |
| Treatment and distribution controllers, `treatment.st`, `distribution.st` | located registers | scan; writes between scans | Modbus clients | as intake | alarms truthful, a dose ends by a write |
| Modbus stand-in, `modbus-sim/server.py` | process model, register store | step and copy; a server thread beside it | Modbus clients | torn images; writes overwritten; drift from the programs | torn by one step at most, runs the intake program |
| PLC deployment, `plc-bootstrap/deploy.py` | sentinel file; accounts, programs of the runtimes | log in, upload, compile, start, per controller | OpenPLC runtimes | any step of several fails, restarted until it succeeds | failures never pass for health, ends deployed |
| SCADA provisioning, `scada/provision.sh` | marker file; configuration of Scada-LTS | log in, rotate the password, create what is missing | Scada-LTS | refused, redirected, broken answers under `set -e`; reruns | password rotated, nothing lost silently, ends |
| Integrity checks, `plc_integrity_check.py`, `check_bundles.py`, `build.sh` | manifest, bundles | update, verify, build, compare | sources, git | two tools that know nothing of each other | green means golden |
| Field servers, webhook, metrics, evidence, simulators | none | serve, report | — | none | — |

`PROJECT.json` has the full list under `components` and, under `hazards`, each line
where one of these behaviours bites with the property that covers it.

## The modules

```
IntakePlc ----+                      ForwardChain
              +-- IntakeProcess          |
SafetyMonitor +                      Responder
                                         |
ModbusSim -- instance of IntakePlc   Containment
TreatmentPlc   DistributionPlc           |
                                     AutoBlock -- instance of Quarantine
ZoneFirewall   HistorianPoller
Beacon         Watchdog              PlcBootstrap -- instance of Rollout
                                     ScadaProvision   LogicBaseline
ProtocolSensors   BruteForce   LoginMonitor

Pruning: used by Responder, Beacon, BruteForce and LoginMonitor
```

Every component has a module with its constants and their assumptions, its
variables, one action per operation, and its properties. `IntakeProcess` composes
the controller, its clients and the monitor; `Containment` composes the chain, the
log, the responder and the operators; `AutoBlock` adds the playbook to that.
`Rollout` is what a deployment promises, and `PlcBootstrap` is shown to implement
it; `Quarantine` is what containment promises whoever edits the rules, and
`AutoBlock`, with both actors, is shown to implement it; `ModbusSim` is shown to
implement `IntakePlc`. `MC*` modules give the constants
small values for TLC; `Pruning` has the one operation that all sliding windows share.
`MCControllers`, `MCSensors` and `MCBringUp` hold several components that share no
state and follow one of them per behaviour: one instance for the controllers, their
stand-in and the collector that polls both, one for the detectors and the watchdog
over their processes, one for what brings the plant up. Proofs are in
`*_proofs` modules. Definitions called "Variant" in a comment are plausible mistakes
beside the definition they would replace. No specification uses them: `PROJECT.json`
lists, under `mutants`, which property each of them breaks.

Five properties are claims of a comment or a document that TLC refutes:
`OffenderContained`, `UnblockReleases`, `PlaybookContains`, `AnomalySeesControl` and
`EveryMessageIsReported` (see
[below](#where-the-code-and-its-documentation-disagree)). All the others hold.

## Correspondence with the code

**IntakePlc.** A scan is one action, because OpenPLC copies the register image under
a lock; its statements appear as functions composed in program order (`CalledValve`,
`MovedLevel`, `ClampedLevel`, `Trips`). Arithmetic is modulo `WordSize`. A Modbus
write is a function from registers to words, stored between scans. `dirty` is
history: the registers written since the last scan. HR1 (the pump) is never touched
by the program and is left out.

**SafetyMonitor, IntakeProcess.** `shadow` is `shadow_registers`. A client has at
most one request outstanding: `cmd[c]` is its write between gateway and controller,
`resp[c]` the response between controller and gateway. `SendWrite` is the monitor
judging the write as it passes, `DeliverWrite` the controller storing it later,
`AnswerRead`/`ObserveResponse` the same for reads; frames of two clients overtake
each other. The gateway may capture one response several times: `ObserveResponse` can
leave a copy behind. A second copy of a write changes nothing (the shadow of HR0 is
not read, and the alert is raised a second time), so writes pass once. `age` (of the shadow, of a response, of the decision that goes with a
write) is history: scans since the level was sampled. `MaxAge` stands for "too old,
or no sample", which a restart, a rewritten level or a reboot make of every sample.

**ForwardChain, Responder, Containment.** The chain is a sequence of source
addresses (a `-s source -j DROP` rule) around one block `Conduits` for the rules
`firewall-rules.sh` loads. `state` and `blocked` are those of `responder.py`; the
entries of `state` also carry the time their alert was written. A file is what the
open handle reads, not what a name says, so `tail` is what the handle has yet to
return and `attached` says whether the handle is still the file `alerts.json` names.
`enforce` belongs to the process: whoever starts a responder arms it or not, so an
armed one can follow a dry run. `ProcessLine` is `readline()` plus all of
`process_line()`. A forwarded write makes two alerts, a dropped one makes one: the
producers capture on all interfaces and count frames (`otdpi/common.py:84`).
`excused` is history: the blocked sources whose rule iptables refused or somebody
removed.

**Pruning.** The windows keep a list of times in order and drop what is too old when
the next one comes, so what they drop is a front of the list: `Pruned` takes the
positions that have expired and returns the rest. The comprehensions of the code
filter by value; on a list in the order of time, which the proofs show these lists to
be, the two are the same.

**AutoBlock.** A run reads the log once (`RunPlaybook`) and has its offenders in
`todo`; then it is one `docker exec` per offender (`BlockIp`, `UnblockIp`), each of
which may fail, and the responder acts between any two. `logged` counts what the file
holds of the one alert type the playbook counts; the responder watches three
(`LoggedWrite` of a DNP3 write is logged for the one and not for the other). `written`
is history: the alerts of all watched types, archived or not. Operator actions of both
actors share the bound `MaxMishaps`. In the quarantine it implements, a source is convicted by a threshold of
its own alerts, ever written; a responder is armed while one runs that enforces; a
source is dropped if a DROP for it stands ahead of the conduits. Lists, windows,
handles and the playbook's appended rules are not to be seen there.

**ZoneFirewall.** The state is the connection table. A packet is kind, source,
destination and server port; what the chain does with it (`Accepts`) and what the
producer makes of it (`Ships`) are functions of the packet and the table, so the
invariants quantify over every packet that could come now. `ConduitRules` and
`CONDUITS` are the two lists as the script and the producer have them.

**Beacon.** One key of `_beacon_times`. Times are kept as ages, so the clock has no
bound. `IsRegular` is the comparison of the coefficient of variation in whole
numbers: with n gaps of sum S and sum of squares Q, `(sd/mean)^2 = (nQ - S^2)/S^2`.
`regular` is history: how often in a row the packets have come at one gap.
The sender may retry and give up at any time; the SYN repetitions of TCP are
external (1 s and 3 s after the SYN).

**Watchdog.** `age` is `time.time()` minus `_last_alerted`; `late` is how long ago
the running round took its `now`, which is one value for the whole round, so an
alert raised late is stamped early. `Slow` bounds a round.

**TreatmentPlc, DistributionPlc.** As `IntakePlc`: one action per scan, composed of
functions in program order, and writes of any registers in between. The treatment
program only ever lowers the residual and never does arithmetic on another register,
so its words need no width; the pressure and the run time of distribution are sums
and wrap.

**ModbusSim.** `Step` is `model.step()`, `Copy` one `setValues` call of the updater,
`ClientWrite` what the server thread stores in between. The model never reads the
store, so a client's write lasts until the register is copied again. `last` is
history: the model one step ago.

**ProtocolSensors.** A message is what the producers' tests distinguish of it. TCP
cuts a message before or behind its function code and packs pieces into segments; a
long message goes in two frames (DNP3 link frames, COTP data units, OPC UA chunks). A
producer sees the piece that starts a segment and nothing else: its beginning
("open"), a beginning that ends before the code ("stub"), the rest ("tail") or the
second frame ("frame"). `Recognised` is the guards of the decoders. The second frame of
DNP3 and OPC UA repeats the header they test (`RepeatsHeader`): FIR and chunk type are
not looked at. Any rest may pass for a start by its octets (`body.mimics`), and Modbus
has no header test at all. `Taken` is what the decoder then reads at its fixed offsets:
of a beginning the message's fields, of another piece those of `body`. `AlertsOf` is
the producers on these fields; `dnp3_anomaly` reads the application control, which is
any octet, so that first, last and middle fragments and malformed frames are among the
messages. `Deserved` is written from the names of the functions, and `Earned` compares
each alert with it on the octets the alert was read from.
`MessagesAssumption` is that an OPC UA service id alone tells a request from a response.

**BruteForce, LoginMonitor.** One source each (sources are keys of a dictionary and
do not meet). Times are ages. `scan` and `read` are history: every event of the last
window with whether it alerted. In `LoginMonitor` the name `access.log`, the file
nginx writes and the file behind the handle are three different things (`named`,
`handle`), as after a rotation. `LoginTick` lets time pass only when the monitor has
read what it can: its sleeps are short against the window.

**PlcBootstrap.** `step` is the request `deploy()` sends next; an answer and what
the code makes of it is one action, and a runtime may die, finish or refuse between
any two. A refused upload (`UploadRefused`: the one `raise_for_status`) and any other
exception (`Raise`) end the process: nothing catches them, and the
container starts over (`Begin`). Polling loops are one action each that waits for an
answer that ends the loop. `keepsRunning` is a property of the runtime that the
repository does not fix.

**ScadaProvision.** `line` is the request the script sends next. An answer is what
is expected, a refused connection, an empty body (a redirect to the login page), an
error page, or none after the request was obeyed ("lost"); what `set -e` makes of it depends on whether `curl` or `jq` is the
last word of the pipeline, and in a `while read` loop the subshell's exit becomes
the pipeline's. Without an answer to the look-up of the admin's id the script rotates
the password of user 1 (`LookUpAdmin`); `AdminIsFirst` says whether that is the admin,
and the run takes the worse case.

**LogicBaseline.** A source is what it says, a bundle the source it was built from;
`passed` is history: the checks that have succeeded since somebody last changed
something.

**HistorianPoller.** A cycle is as many steps as it has calls: one per probe, one
per asset read, one post, and the network may change between any two. `clients` are
the cached pymodbus clients. `connected` is pymodbus's flag, true until this side closes; `peer` is whether
the host still has its end: a host that went away and came back answers nothing on an
old connection, so the first read fails and the client is dropped (`Answers`).

## The runs

| Run | Shows | Bounds |
|---|---|---|
| `controllers` | interlock and alarms under any writes; a level that never jumps and a stopped pump that never pressurises, so no unsigned difference wraps into the clamp; a tank that refills and drains, what ends a dose; the stand-in torn by one step at most and an implementation of the intake program; the collector's health file honest, and its recovery | the programs' own levels; 16-bit words for intake, words of 90 values for distribution (enough to wrap the pressure and the run time); writes to each register including words out of range; 2 assets, hosts and InfluxDB in all their states |
| `intake_process` | how far shadow and alerts can be trusted | levels 2/6/8, threshold 5, words of 4 bits; 2 clients, ages up to 3 |
| `containment` | innocents spared, offenders blocked | 2 sources, window 3, threshold 3, lag 1, 6 ticks, 6 alerts, 2 mishaps; armed or not, log there at boot or not |
| `auto_block` | two actors, one chain, step by step; no rule without its alerts, blocks effective; both together a quarantine | 2 sources, both thresholds 3, 7 alerts, 3 mishaps, 2 instants |
| `zone_firewall` | isolation, direction, agreement of rules, events and cross-zone alerts where they should | 8 hosts, every conduit port, 2 connections |
| `sensors` | what segment-wise producers miss and report; windows; rotation of a tailed log; steady beacons flagged in bounded time, unsteady never; bounds on an outage's silence | 2 messages of one connection, every function code; windows 3, thresholds 3, up to 7 exceptions or 5 failures; beacon window 20, 5 events; 2 producers under the watchdog, periods 5/2/8, rounds up to 2 ticks; unbounded time |
| `bring_up` | what deployment, provisioning and checks vouch for when they end well, and that they end | 2 controllers, 1 version, 1 fault; targets of 2 and 1 registers, 2 logins, 2 faults; 2 programs, 2 contents |

Why the bounds are enough:

- *Controllers.* Nothing but the word size of distribution is scaled in
  `controllers`. `intake_process` scales the levels down but keeps their order (low
  < threshold < trip < full) with room on each side; ages up to 3 let two responses
  and a write be in flight with different ages, and two clients are what it takes
  for frames to overtake. The proofs lift both to all values.
- *Containment.* Threshold 3 is the code's own. A window of 3 with lag 1 leaves a
  burst, a burst that only counts without the lag, and one that is too slow; 6 ticks
  are two windows, 6 alerts are two thresholds. Two sources are one to offend and
  one to be spared. Two mishaps allow a crash and a restart, or an unblock and an
  archive.
- *Auto-block.* Seven alerts are both thresholds of three and one of another type,
  or three of one source, the archive and four of the other, counted in pairs. Three
  mishaps are a run of the playbook and two of archive, second run, `--unblock`,
  crash, restart. Time matters little to a script that ignores its window, so an
  instant and its successor do; the lag is 0 there and 1 in `containment`.
- *Collector.* With two assets a cycle has a first and a last read with a change in
  between, and one cached client of each kind.
- *Firewall.* One host per role on both sides of every restriction; a second tracked
  connection is there to be mistaken for the first, and the table can be full.
- *Beacon, watchdog.* Ages saturate one step after the last comparison that can tell
  them apart, so time is not bounded.
- *Sensors.* Producers keep no state, so two messages are one and what may stand
  before it in a segment. Seven exceptions are two alerts of three and one more;
  five failures are a threshold and two, unread and read.
- *Bring-up.* Two controllers are one that fails and one that waits for it, before
  or after; two registers and one give the loops a middle and an end. One fault in
  the deployment can be a death, a refusal, a timeout or another bundle, on top of
  what earlier attempts left; two in the provisioning interrupt a run and the one
  that cleans up after it. The proofs lift most of the safety properties to any number.

The other five runs are the findings below, one property each, with the bounds of the
passing run of the same module or ones that reach the counterexample sooner.

## Fairness, deadlock, symmetry

- `PlcSpec` has `WF(Scan)`: `intake.st:55-60` binds the program to a task with
  `INTERVAL := T#500ms`. Writes and restarts have no fairness, so `LowTankRefills`
  (`IntakeRefills` in the run) holds against a client that writes HR0 := 0 for ever.
  It needs the scan to go on, no restart (which empties the tank) and no writes to
  the level itself.
- The collector's `Spec` has `WF(Cycle)`: every call in the loop has a timeout, and
  what fails is caught. `PollerRecovers` assumes what it says: stand-ins and
  InfluxDB up for good, each controller up or away for good. `CollectorRecovers` is
  that property for the behaviours of its run that follow the collector.
- `TreatmentSpec` and `DistributionSpec` have `WF` of their scans, for the same
  reason as intake; `SimSpec` has `WF(Step \/ Copy)`: the updater is a `while True`
  around a sleep. Clients need not write.
- `LoginSpec` has `WF` of opening and reading: the monitor's loop catches what it
  can meet and sleeps at most two seconds. Rotation is not fair: `FailuresAreRead`
  assumes that it has ended.
- `BootSpec` and `ProvSpec` have `WF` of the script's steps and of its container's
  restart (`restart: unless-stopped`), and assume that runtimes and Scada-LTS come
  up and finish compiling in the end. Every request of `deploy.py` has a timeout;
  `curl` in `provision.sh` has none, so `ProvSpec` assumes that a request is answered
  or refused at some time.
  Faults are bounded and not fair. `DeployEnds` and `ProvisionEnds` exclude an
  account with somebody else's password, which nobody can log in to;
  `LockoutInterrupts` says what such an account does to the others.
- Nothing else is fair. Promptness of the watchdog and of beacon detection is a
  safety property here, a bound on an age, with the clock unable to overtake a
  process that is due (`Tick` and `BeaconTick`; in `Containment` the responder's
  2-second poll).
- `CHECK_DEADLOCK FALSE` is set for the containment and auto-block runs, where the
  bounds on time, alerts and mishaps end every behaviour, for the sensors, where a
  connection ends with its last message and exceptions and failures are bounded (the
  beacon and the watchdog of the same run have no such end), and for the bring-up, where a deployed
  plant has nothing left to do.
- Sources in `Containment` and `AutoBlock` and clients in `IntakeProcess` are
  interchangeable in every definition, and no run that uses symmetry checks
  liveness.

## What is proved

TLAPS proves, for all values of the constants that satisfy the named assumptions:

| Theorem | States |
|---|---|
| `PlcInvariant`, `PlcTypeCorrect`, `LevelStaysInBand` | the invariant below; `PlcTypeOK`; `LevelInBand` |
| `AlarmIsTruthful` | `AlarmMatchesLevel` |
| `OpenAboveTripIsCommanded` | `OpenAboveTripIsFresh` |
| `LevelMoves` | `LevelNeverJumps` |
| `TypeCorrect` | types of controller, monitor and clients together |
| `ShadowIsTracking` | `ShadowTracksLevel` |
| `NoUnsafeCommandMissed` | `UnsafeCommandsAlerted` |
| `NoGroundlessAlert` | `AlertsJustified` |
| `ProcessRunsThePlc` | the composed plant implements the controller, and keeps its invariants |
| `TrackedThroughConduits` | every tracked connection was opened through a conduit |
| `Isolation`, `ControlAnswers` | `ZonesIsolated`, `ControlOnlyAnswers` |
| `TablesAgree`, `AlertedIsDropped` | `EventsAgreeElsewhere`, `CrossZoneIsDropped` |
| `OutagesAreReported`, `OutagesAreRepeated`, `WatchTypeCorrect` | `FreshOutageIsPrompt`, `NeverSilent`, `TypeOK` of the watchdog |
| `BlocksAreEffective`, `DryRunContainsNobody` | `BlockedIsContained`, `DryRunIsPassive` |
| `NobodyBlockedWithoutCause`, `NoOffenderMissed`, `ContainmentTypes` | `NoInnocentBlocked`, `OffenderBlocked`, `TypeOK` of containment |
| `RulesAreEarned`, `BlocksStayEffective` | `DropsAreEarned`, and `BlockedIsContained` beside the playbook |
| `PlaybookBlocksInVain` | `PlaybookContainsNobody`: why `PlaybookContains` fails, and in every state |
| `ContainmentIsQuarantine` | `AutoBlock` implements `Quarantine` (`ImplementsQuarantine`) |
| `StartedIsReported`, `AlertsAreJustified` | `MissedIsUnseen`, `AlertsAreDeserved` |
| `BurstsAlertOnce`, `LoginAlertsAreTimely` | `OneAlertPerBurst`, `AlertsAreTimely` |
| `BeaconsAreFlagged`, `BeaconTypes` | `SteadyBeaconFlagged`, `BeaconTypeOK` |
| `UnevenIsNotFlagged` | `FlaggedIsSteady` |
| `FourGapsAreAlike` | with four gaps and a limit of 35 %, none is 3.3 times another |
| `PollTypeCorrect`, `HealthIsHonest`, `ClientsStick` | `TypeOK`, `HealthMeansComplete`, `WorkingClientIsKept` of the collector |
| `ChlorineAlarmIsTruthful`, `DosesEndByWrites` | `AlarmMatchesChlorine`, `OnlyAWriteEndsDosing` |
| `LowAlarmPasses`, `StoppedPumpDrains` | `LowAlarmIsFresh`, `StoppedPumpNeverPressurises` |
| `StandInRunsProgram` | `ModbusSim` implements `IntakePlc` (`RunsIntakeProgram`) |
| `ReadsAreTornByOneStep` | `TornByOneStep` |
| `BootInvariant`, `RunningIsOurs` | `BootInv`, `RunningIsUploaded` |
| `DeploymentIsARollout` | `PlcBootstrap` implements `Rollout` (`ImplementsRollout`) |
| `AttemptsEnd` | an attempt at deployment has at most 8N + 8 steps |
| `RunsEnd` | a run of the provisioning script goes on within bounds at each of its steps |
| `ProvisionedWithOurs`, `DatasourcesExist`, `ProvisioningVouches` | `ProvisionedIsRotated`, `SourcesExist`, `CompletionVouches` |
| `ChecksAddUp` | `GreenMeansGolden` |

**Controller** (`IntakeProcess_proofs`). From `LevelsAssumption` (0 < low < trip < full,
full + 1 below the word size) and `WriteRequestsAssumption`. The invariant `PlcInv`
is types with the band, the alarm and the valve each conditioned on what was written
since the scan. `ScannedLevelBand` does the unsigned arithmetic once: the scan's
result is in range, a tank in the band moves by at most one, and any word ends in
the band; `LevelMoves` adds what becomes of the words above it.

**Controller and monitor** (`IntakeProcess_proofs`). `ShadowTracksLevel` is not
inductive: a response in flight could carry anything. `IInv` adds that every
response in flight is within its own age of the level and, because a scan moves a
level by one only from inside the band, that the level is in the band while some
sample counts (an unscanned rewrite has made them all too old). Commands get two
bounds: an alerted one has the level at least threshold minus age, one that was not
at most threshold plus age. A scan moves the level by one and all ages by one, which
preserves all of it; this is `AgeingIsSound` and `ThresholdAgeing`. `ProcessRunsThePlc`
says what the composition leaves of the controller: all of it, because what is stored
late is still a write a client may make (`ProcessStep`).

**Firewall** (`ZoneFirewall_proofs`). `TrackedInv`: the client of every tracked
connection could open it. A packet is accepted for an entry of the table or for a
conduit, so either way a conduit joins the two zones (`AcceptedOnConduit`), and the
list of conduits decides. The size of the table is not needed.

**Containment** (`Containment_proofs`). `ContainInv` is the chain as a sequence of
rules, and that every blocked source that is not excused has a rule ahead of the
conduits. The work is in the chain: an inserted rule contains its source and moves
everybody else's (`InsertContains`), a deleted one keeps the order of the rest
(`RemovedRules`), so it frees its own source at most (`DeleteFreesOnlyIts`).

**Responder** (`Containment_proofs`). From `ResponderAssumption` and
`ContainmentAssumption`. `NoInnocentBlocked` and `OffenderBlocked` relate `blocked` to
`since`, every alert ever written, while the decision is made on `state`, which
forgets. `ResponderInv` keeps an account of every source not blocked (`Accounted`): a
map `e` from the remembered offences, and a map `g` from the alerts still in the
tail, to their positions in `since`, both in order and with the time of reading at
most `Lag` behind the time of writing. That is enough for innocence: a threshold of
remembered offences is a burst of the history. For guilt the account must be
complete (`Complete`) while the open handle returns everything: what is before the
remembered offences is out of the window, what is behind them is in the tail, and no
threshold of positions up to the last one read fits the window less the lag. Pruning
moves the first of the three borders, reading the second, and when time passes each
of them is kept by the order of the times.

**Playbook** (`Containment_proofs`). From `PlaybookAssumption`. `PlaybookInv` composes
the two invariants above with the counts of the file, which never exceed what was
written, and says that a source with a rule, or still on the list of a run, has been
written about often enough for one of the two actors: the list was true when it was
read, and what the responder does before the run comes to a source cannot make it less
so. `PlaybookBlocksInVain` is about the chain alone: a rule behind the conduits
contains nobody, and moves nobody's first rule.

**Quarantine** (`Containment_proofs`). The refinement needs no other invariant than
`PlaybookInv`: a source the responder inserts a rule for has a threshold of alerts
remembered, which the account above maps to written ones (`InsertedIsEarned`), and
inserting at the head drops this source and leaves everybody else's packets to the
rules that judged them before (`InsertDropsOne`). Deletions, by whichever of the two,
only let go; what the playbook appends stands behind the conduits and is no step at
all. `GatewayIsQuarantine` maps the steps of the gateway and its responder,
`WritesAreQuarantine` those that alert, `PlaybookIsQuarantine` those of the playbook.

**Windows** (`Lists_proofs`, `Detectors_proofs`). `PrunedIsRest` is what all of them
use: if the expired positions are closed downwards, they are `1 .. c`, and the
pruned list is the rest from `c + 1`. The Modbus window's `BruteInv` says that the list is
the history behind the last alert, after `c` entries that are old and not yet
dropped; fewer than a threshold lie behind the last alert, and alerts lie a threshold
apart. `LoginInv` does the same for a list that alerts do not empty, and adds that
without a gap a failure is read in the instant it is logged.

**Beacon** (`Detectors_proofs`). `SteadyBeaconFlagged` bounds a run of equal gaps by
the window. `BeaconInv` says why: for a gap that is wide enough, the last entries
of the deque are those of the run (`InSteps`), a gap apart. Were the run longer than
the window, the oldest of its entries would have expired with everything before it,
so the packet would find nothing but equal gaps, and enough of them (`RunGoesOn`); by
`SteadyIsRegular` their variance is nothing, and the packet is flagged. That needs
the sum of a list of equal numbers, a fold of the community modules
(`TotalOfEqual`).

`FlaggedIsSteady` looks the other way: how far apart two gaps of an alert may be. Of
all lists with the gaps x and y, the one that deviates least has the rest alike, at a
value between; `TooUneven` is its deviation against the limit. `TotalsWithoutTwo` takes
the two gaps out of the sums of the list and shows, adding one gap at a time
(`OneMoreValue`), that the sum of the rest deviates no less than if all were alike;
`PairBound` puts the two back. How uneven two gaps
may be grows with the length of the list, so there is no fixed ratio for all lists, and
the property has its length in it; for the shortest list of the code, `FourGapsAreAlike`
gives the number.

**Protocol sensors** (`Detectors_proofs`). `SensorInv` has each message unseen,
waiting to start, or reported in full, and each alert earned by the octets it was read
from. `AlertsByName` compares the producers' code tables with the names in `Deserved`,
protocol by protocol (`Dnp3ByName`, `S7ByName`, `OpcuaByName`); `TakenIsMessage` says
that what a decoder takes from any piece has the fields of a message, so that these
lemmas apply to it (`OpenRaisesDeserved`, `RaisedIsEarned`).

**Collector** (`HistorianPoller_proofs`). `PollInv`: as long as no read has failed,
the batch covers exactly the assets the loop has left behind, one point each; a
fresh health file at the end of a cycle therefore means all of them, and the
cardinality follows.

**Treatment and distribution** (`Controllers_proofs`). `TreatmentInv` adds that the
residual is zero until a client has written it, which is why only a write can end a
dose. For distribution, from the first scan after a write on the pressure is at or
below the clamp, so it cannot wrap any more, and under a running pump it has risen
by one in each scan but the first (`DistributionInv`). Under a stopped pump the
difference is taken only where it cannot wrap, and the clamp only lowers.

**Stand-in** (`Controllers_proofs`). `IntakeStepIsScan` shows that in the range the
model stays in, neither the program's unsigned arithmetic nor its clamps differ from
minimum and maximum. For torn reads, `TornInv` says which value each register has
while its copy is pending, and `StepsOnlyFields` that a step touches no register
that is not copied.

**Watchdog** (`Detectors_proofs`). The bounds are not inductive: how long an outage
may already have lasted depends on when its producer's next check is. `WatchInv` gives
every producer a `Deadline`, the end of its next check at the latest, and bounds the
outage so far plus the deadline. A tick moves both by one; a check moves the deadline
by a round, but only for a producer it has just seen or reported, or whose last alert
is younger than `REPEAT` by the clock of that round. Since that age is no less than
the silence, what the round is late cancels out of the sum.

**Bring-up** (`BringUp_proofs`). `BootInv` ties the loop to its results, which is
what `Rollout` needs to see controllers concluded in order. `UploadInv` strengthens
`RunningIsUploaded` by what holds from the upload to the report. `ProvInv` follows
the loops over the targets: those behind have their datasource. `VouchInv` adds to it,
as long as `mishaps` holds nothing but broken connections (`Broken`), that the datasources
reached are right, the points behind exist, the one at hand exists once the script
asks for its id, and, without a mishap, what is behind is logged. `AttemptsEnd` and
`RunsEnd` are the part of `DeployEnds` and `ProvisionEnds` that needs no fairness: a
measure that each step of the script brings down (`StepsLeft`), or four that are
compared one after the other (login, target, register, request: `Further`), within
bounds, and that nothing else brings back but the container's next start. `LogicInv` says what
each passed check means as long as nothing has changed.

Induction over data is done on sets of numbers: the library's induction theorems take
an operator as a parameter, which the provers cannot instantiate, but a nonempty set
of naturals has a least element (`LeastNat`, from the library's well-founded sets),
and the set of counterexamples is such a set. `TotalOfEqual` and the lemmas about
finite sets of positions are proved this way, the sums of lists through
`PositionsInduction`, where the set in question takes the operator's place.

Only model-checked: the liveness properties (`IntakeRefills`, `OverflowDrains`,
`CollectorRecovers`, `FailuresAreRead`, `DeployEnds`, `LockoutInterrupts`,
`ProvisionEnds`), which are out of the prover's reach. Every invariant and every action
property of a passing run has its theorem, and so has each of the three refinements.

What is proved and follows from the code more directly is left to the proofs and is
not part of a run: the types (`BeaconTypeOK` and the others), `AlarmMatchesLevel`, `AlarmMatchesChlorine`,
`WorkingClientIsKept`, `DryRunIsPassive`,
`ProvisionedIsRotated`, `SourcesExist`.

## Where the code and its documentation disagree

Five disagreements are runs that TLC ends with a counterexample; `findings` in
`PROJECT.json` quotes the sentences.

| Run | What happens |
|---|---|
| `containment_reoffender` | a source once blocked is never blocked again by the same process, though its rule is gone (or was never taken) |
| `containment_unblock` | a responder that crashed and came back inserts a second rule; one `--unblock` deletes one of the two and the source stays dropped |
| `auto_block_contains` | the playbook reports `[BLOCKED]`, but its rule stands behind those that accept and drops nothing; `PlaybookBlocksInVain` proves that none of its rules ever does |
| `dnp3_anomaly` | the octet taken for the DNP3 function code is the application control, so an unauthorized operate passes |
| `dnp3_dpi` | a DNP3 command behind another message in its segment, or cut before its function code, is not reported |

Others were met while modelling and have no run. The models contain the behaviour;
the properties that hold are worded around it:

- A cached connection to the stand-in survives the arrival of the controllers
  (`poller.py:81`; `:122-123` says the collector upgrades itself):
  `WorkingClientIsKept`.
- A second outage soon after the first, with a recovery no round saw, is silent for
  the rest of the repeat period (`watchdog.py:52`). `FreshOutageIsPrompt` asks for a
  round in between.
- A second DNP3 link frame and a second OPC UA chunk are decoded as if they started a
  message (`otdpi/dnp3.py:57`, `otdpi/opcua.py:78`: FIR and chunk type are not looked
  at), and `modbus_anomaly.py` looks at no header, so alerts about commands nobody
  sent are possible. `AlertsAreDeserved` says that nothing worse is: each alert is what
  the octets it was read from would deserve.
- The login monitor alerts on every failure past the threshold: the set `alerted` is
  filled and never consulted (`monitor.py:63`, `ReadFailure`). After a rotation it reads the old
  file for ever (`:74`).
- The stand-in says it mirrors the programs (`modbus-sim/server.py:32`), and does
  for intake. Its treatment doses into the residual and always has flow, its
  distribution drives the pump by the pressure; the programs do neither.
- The answer of `start-plc` is ignored (`deploy.py:128`): a runtime that keeps its
  old program while it compiles would pass for `RUNNING` with it.
  `RunningIsUploaded` is about runtimes that do not.
- `provision.sh:4` says existing XIDs are left untouched, while `:91-93` updates
  datasources in place.
- The interlock runs after the level has moved (`intake.st:27,46`), so a valve
  command written above the trip level lets in one more point.
  `OpenAboveTripIsFresh` says how long.
- The shadow can be a scan old, so an opening write just above the threshold passes
  unreported. `UnsafeCommandsAlerted` states the margin.
- The playbook run twice leaves two rules for a source, and one of its
  `--unblock`s deletes one (`auto_block_ip.py:72`), the responder's if it comes first.
- Until the first response after a start the monitor takes the tank for empty, and an
  opening write above the threshold raises nothing (`process_safety_violation.py:30`;
  `SIS_BPCS_SEPARATION.md:66-67` knows no such exception). `UnsafeCommandsAlerted` is
  about commands judged by a sample.
- After `run_security_tests.py --reset` the responder tails the archive
  (`responder.py:100`) and never sees what is written to the new log.
  `OffenderBlocked` excludes sources with such `unseen` alerts.
- A forwarded write makes two alerts, so two writes pass a threshold that
  `automation/README.md:13` states in writes (`UnauthorizedWrite`). All properties of
  containment count alerts, as the code does.
- `find_offenders` does not use its window (`auto_block_ip.py:43-53`).
- A 400 from InfluxDB counts as success for points too (`poller.py:51`); the
  retention policy is created once, at start, whether or not InfluxDB is there.
- `CONDUITS` of `firewall_events.py` has no source restrictions and no C11: it is
  silent about other Operations hosts on C5 to C8 and reports the bastion's
  forwarded SSH. `EventsAgreeElsewhere` excludes these conduits, and ICMP errors,
  which the rules forward as RELATED and the producer reports.
- The debounce compares with the first SYN of an attempt, and TCP's second repetition
  comes three seconds after it, past the two of `BEACON_DEBOUNCE`
  (`firewall_events.py:40`, `:122`): it counts as another beacon, for a client that
  waits that long (the lab's own beacon gives up after 1.5 s). `SteadyBeaconFlagged` is
  about packets at one gap, so a beacon whose repetitions fall between its
  packets is outside it.

## What is not modelled

- *In modelled components:* frame decoding (by the values it yields), alert texts
  and enrichment, Loki pushes, the line protocol, the INPUT chain, the LOG rule and
  interface detection of the gateway, HR1. `pgrep -f` is taken to say whether the
  producer runs. The decision of `modbus_anomaly.py` is in `ProtocolSensors`; its
  alerts are the input of `Containment`. The windows' whole seconds stand for
  floating-point times.
- *In the components of the bring-up:* HTTP statuses other than by what the scripts
  make of them; the contents of archives and of compiler output; the numeric ids of
  Scada-LTS's points (of its users, whether the admin is the first).
- *In the protocol producers:* telemetry fields that no alert depends on, reassembly
  (there is none), retransmitted segments (they repeat an alert). The outstation's
  own answers.
- *Whole components:* the webhook, enrichment and metrics (reports over a finished
  log), field servers that wrap protocol libraries, attack simulators (test traffic;
  the beacon sender is the environment of `Beacon`), governance and evidence
  tooling. They keep no state another part of the lab depends on.

## Plan

Done: the controllers and their stand-in, the safety monitor, containment and the
playbook, the firewall and what is reported about it, the protocol producers and
windowed detectors, beacon detection, the watchdog, the collector, deployment,
provisioning and the integrity checks; three refinements; proofs of all the safety
properties that the runs check.

What could follow:

1. *Compositions*: deployment, collector and stand-ins in one model (who serves the
   historian while controllers are being programmed); producers, responder and chain
   fed from one stream of frames.
2. *Larger instances* of `containment` (three sources) and `bring_up` (two faults in
   the deployment).
