------------------------------- MODULE Rollout -------------------------------
(***************************************************************************)
(* What the deployment service of plc-bootstrap promises, whatever the     *)
(* controllers do: attempts that conclude one controller after the other,  *)
(* and a mark of health that only an attempt without a failure sets.       *)
(***************************************************************************)
EXTENDS Naturals

CONSTANT N     \* controllers 1 .. N, in the order of OT_PLC_TARGETS

VARIABLES
    attempt,   \* "off", "going" or "done"
    outcome,   \* what the last attempt concluded about each controller
    healthy    \* the container's health check passes

rolloutVars == <<attempt, outcome, healthy>>

Outcomes == {"pending", "RUNNING", "SKIP", "FAILED"}

Concluded == {p \in 1 .. N : outcome[p] # "pending"}

RolloutInit ==
    attempt = "off" /\ outcome = [p \in 1 .. N |-> "pending"] /\ healthy = FALSE

BeginAttempt ==
    /\ attempt = "off" /\ attempt' = "going"
    /\ outcome' = [p \in 1 .. N |-> "pending"]
    /\ UNCHANGED healthy

ConcludeOne(p, o) ==
    /\ attempt = "going"
    /\ Concluded = 1 .. (p - 1)
    /\ outcome' = [outcome EXCEPT ![p] = o]
    /\ UNCHANGED <<attempt, healthy>>

Succeed ==
    /\ attempt = "going" /\ attempt' = "done"
    /\ \A p \in 1 .. N : outcome[p] \in {"RUNNING", "SKIP"}
    /\ healthy' = TRUE
    /\ UNCHANGED outcome

\* By a failure, an exception or the end of the process; health stays.
Abandon == attempt # "off" /\ attempt' = "off" /\ UNCHANGED <<outcome, healthy>>

RolloutNext ==
    \/ BeginAttempt \/ Succeed \/ Abandon
    \/ \E p \in 1 .. N, o \in Outcomes \ {"pending"} : ConcludeOne(p, o)

RolloutSpec == RolloutInit /\ [][RolloutNext]_rolloutVars

=============================================================================
