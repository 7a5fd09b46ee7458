------------------------------ MODULE AutoBlock ------------------------------
(***************************************************************************)
(* The host-side playbook automation/playbooks/auto_block_ip.py, run by    *)
(* hand next to the gateway's responder.  Both edit the same FORWARD       *)
(* chain; the playbook reads the whole of the same alert log, from the     *)
(* first line, then edits the chain with one docker exec per offender, and *)
(* keeps nothing between two runs.                                         *)
(***************************************************************************)
EXTENDS Containment

CONSTANT
    TRIGGER_COUNT   \* 3

ASSUME PlaybookAssumption == TRIGGER_COUNT \in Nat \ {0}

VARIABLES
    logged,  \* per source, its UNAUTHORIZED_MODBUS_WRITE lines in the file alerts.json
    mode,    \* of the playbook's current or last run: "block" or "unblock"
    todo,    \* offenders the current run has not come to yet
    written  \* history: per source, its lines of all WATCH_TYPES, archived or not

playbookVars == <<mode, todo>>
pbVars == <<vars, logged, playbookVars, written>>

PbInit ==
    /\ Init
    /\ logged = [s \in Sources |-> 0]
    /\ mode = "block"
    /\ todo = {}
    /\ written = [s \in Sources |-> 0]

-----------------------------------------------------------------------------
\* Variant: one alert short of the trigger is enough.
FindOffendersEarly(count) == { s \in Sources : count[s] + 1 >= TRIGGER_COUNT }

\* find_offenders(): every alert of the file counts; `window` is not used.
FindOffenders(count) == { s \in Sources : count[s] >= TRIGGER_COUNT }

\* main() reads the log, once, and has its list of offenders; without any it
\* returns.  Operators do not run two playbooks at a time.
RunPlaybook(m) ==
    /\ Mishap
    /\ todo = {}
    /\ todo' = FindOffenders(logged)
    /\ mode' = m
    /\ UNCHANGED <<chain, respVars, now, logVars, histVars, alerts, logged, written>>

\* The playbook comes to the offender s, in whatever order their counts give.
Handles(s) ==
    /\ s \in todo
    /\ todo' = todo \ {s}
    /\ UNCHANGED <<mode, respVars, now, logVars, since, unseen, boundVars,
                   logged, written>>

\* block_ip(): a docker exec that fails is reported and the loop goes on.
BlockIp(s) ==
    /\ mode = "block"
    /\ Handles(s)
    /\ AppendDrop(s) \/ UNCHANGED chain
    /\ UNCHANGED excused

\* unblock_ip(): -D takes the first rule of s, whoever put it there, and fails
\* where there is none.
UnblockIp(s) ==
    /\ mode = "unblock"
    /\ Handles(s)
    /\ \/ /\ DeleteDrop(s)
          /\ excused' = IF s \in blocked THEN excused \cup {s} ELSE excused
       \/ UNCHANGED <<chain, excused>>

\* The alerts of a write are in the file; those of a DNP3 write are watched by
\* the responder and not counted by the playbook.
LoggedWrite(s, modbus) ==
    /\ UnauthorizedWrite(s)
    /\ logged' = IF modbus THEN [logged EXCEPT ![s] = @ + (alerts' - alerts)] ELSE logged
    /\ written' = [written EXCEPT ![s] = @ + (alerts' - alerts)]
    /\ UNCHANGED playbookVars

\* The archived alerts are out of the playbook's sight.
LoggedArchive ==
    /\ ArchiveLog
    /\ logged' = [s \in Sources |-> 0]
    /\ UNCHANGED <<playbookVars, written>>

\* The steps of the gateway that leave the playbook's view of the log alone.
OtherStep ==
    /\ \/ \E s \in Sources : OtherAlert(s) \/ Unblock(s)
       \/ OpenLog \/ ProcessLine \/ Tick
       \/ ResponderCrash \/ StartResponder \/ GatewayRestart
    /\ UNCHANGED <<logged, playbookVars, written>>

PbNext ==
    \/ \E m \in {"block", "unblock"} : RunPlaybook(m)
    \/ \E s \in Sources : BlockIp(s) \/ UnblockIp(s)
    \/ \E s \in Sources, modbus \in BOOLEAN : LoggedWrite(s, modbus)
    \/ LoggedArchive
    \/ OtherStep

PbSpec == PbInit /\ [][PbNext]_pbVars

-----------------------------------------------------------------------------
Rules(s) == Cardinality(Positions(s))

\* Whichever actor put a rule on the chain, and whatever crashed, restarted or
\* was archived since, its source had as many alerts written as the lower of
\* the two thresholds: two actors and two memories (the responder's list, the
\* file) never make an offender of a source with fewer (auto_block_ip.py:43-53,
\* responder.py:34-39, 73-75).
DropsAreEarned ==
    \A s \in Sources :
        Rules(s) > 0 =>
            \/ written[s] >= THRESHOLD
            \/ written[s] >= TRIGGER_COUNT

\* Both actors together are a quarantine: a source convicted by THRESHOLD of its
\* own alerts, and no other, gets dropped, by an armed responder at work and
\* nobody else; the playbook's rules, crashes, archives and refused iptables
\* calls can only let sources go (responder.py:34-47, 62-77,
\* auto_block_ip.py:43-83).
QU == INSTANCE Quarantine WITH
          convicted <- { s \in Sources : written[s] >= THRESHOLD },
          armed <- running /\ enforce,
          dropped <- { s \in Sources : Contained(s) }

ImplementsQuarantine == QU!QuarantineSpec

(***************************************************************************)
(* What the documentation says and the code does not do.                   *)
(***************************************************************************)

\* auto_block_ip.py:4-7 and automation/README.md:13: a run that reports [BLOCKED]
\* for an offender has enforced a network-level containment of it.
PlaybookContains ==
    [][ \A s \in Sources : BlockIp(s) /\ chain' # chain => Contained(s)' ]_pbVars

=============================================================================
