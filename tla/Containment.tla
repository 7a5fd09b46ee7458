----------------------------- MODULE Containment -----------------------------
(***************************************************************************)
(* Gateway-side containment: sources send unauthorized writes through the  *)
(* gateway, the detection producers append alerts to the log, the          *)
(* responder tails the log and inserts DROP rules, an operator removes     *)
(* them, runs the test suite that archives the log, and restarts things.   *)
(*                                                                         *)
(* A file is what the name alerts.json points to, so the model follows the *)
(* responder's open handle: `tail` is what the handle has not returned yet *)
(* and `attached` says whether the handle is still the file that the name  *)
(* points to.  The inner loop of main() never opens the file again.        *)
(***************************************************************************)
EXTENDS Responder

CONSTANTS
    Lag,            \* the responder reads a line at most this long after it is written
    IptablesFails,  \* iptables may return an error
    MaxTime,        \* bound: length of a behaviour
    MaxAlerts,      \* bound: alert lines written
    MaxMishaps      \* bound: crashes, restarts, operator commands, log archives

ASSUME ContainmentAssumption ==
    /\ Lag \in Nat /\ Lag < WINDOW
    /\ IptablesFails \in BOOLEAN
    /\ MaxTime \in Nat /\ MaxAlerts \in Nat /\ MaxMishaps \in Nat

VARIABLES
    now,       \* time.time()
    exists,    \* alerts.json exists
    attached,  \* the responder's handle: "none", "live" or "archived"
    tail,      \* lines of the handle's file that it has not returned yet
    since,     \* history: per source, the times of its alerts since the responder started or
               \*   an operator took it off the chain
    unseen,    \* history: sources with an alert that no handle will return
    excused,   \* history: sources in blocked whose rule failed or was removed
    alerts,    \* bound: alert lines written so far
    mishaps    \* bound: mishaps so far

logVars == <<exists, attached, tail>>
histVars == <<since, unseen, excused>>
boundVars == <<alerts, mishaps>>
vars == <<chain, respVars, now, logVars, histVars, boundVars>>

\* A line is an alert of a type in WATCH_TYPES, or anything else.
Line == [source : Sources, watched : BOOLEAN, written : 0 .. MaxTime]
Offence == [read : 0 .. MaxTime, written : 0 .. MaxTime]

TypeOK ==
    /\ chain \in Seq(Rule)
    /\ running \in BOOLEAN
    /\ enforce \in BOOLEAN
    /\ state \in [Sources -> Seq(Offence)]
    /\ blocked \subseteq Sources
    /\ now \in 0 .. MaxTime
    /\ exists \in BOOLEAN
    /\ attached \in {"none", "live", "archived"}
    /\ tail \in Seq(Line)
    /\ since \in [Sources -> Seq(0 .. MaxTime)]
    /\ unseen \subseteq Sources
    /\ excused \subseteq Sources
    /\ alerts \in 0 .. MaxAlerts
    /\ mishaps \in 0 .. MaxMishaps

Init ==
    /\ ChainInit
    /\ running = TRUE
    /\ enforce \in BOOLEAN
    /\ state = NoOffences
    /\ blocked = {}
    /\ now = 0
    /\ exists \in BOOLEAN
    /\ attached = "none"
    /\ tail = << >>
    /\ since = [s \in Sources |-> << >>]
    /\ unseen = {}
    /\ excused = {}
    /\ alerts = 0
    /\ mishaps = 0

-----------------------------------------------------------------------------
(***************************************************************************)
(* Writing alerts.                                                         *)
(***************************************************************************)

\* n lines about s are appended to the file alerts.json names, created if need
\* be.  Only a live handle will return them.
AppendLines(s, watched, n) ==
    /\ alerts + n <= MaxAlerts
    /\ alerts' = alerts + n
    /\ exists' = TRUE
    /\ tail' = IF attached = "live"
               THEN tail \o [i \in 1 .. n |->
                        [source |-> s, watched |-> watched, written |-> now]]
               ELSE tail
    /\ since' = IF watched /\ running
                THEN [since EXCEPT ![s] = @ \o [i \in 1 .. n |-> now]]
                ELSE since
    /\ unseen' = IF watched /\ running /\ attached # "live"
                 THEN unseen \cup {s} ELSE unseen
    /\ UNCHANGED <<chain, respVars, now, attached, excused, mishaps>>

\* A forwarded write is sniffed on the interface it enters and on the one it
\* leaves by, a dropped one only where it enters: the producers capture on
\* every interface and count frames.  A dropped source still shows a frame per
\* attempt: the established connection retransmits what the gateway drops.
UnauthorizedWrite(s) == AppendLines(s, TRUE, IF Contained(s) THEN 1 ELSE 2)

\* Any other producer's alert, e.g. a login failure or a cross-zone flow.
OtherAlert(s) == AppendLines(s, FALSE, 1)

-----------------------------------------------------------------------------
(***************************************************************************)
(* The responder.                                                          *)
(***************************************************************************)

\* open() and seek to the end: what the file already holds is skipped.
OpenLog ==
    /\ running
    /\ attached = "none"
    /\ exists
    /\ attached' = "live"
    /\ tail' = << >>
    /\ UNCHANGED <<chain, respVars, now, exists, histVars, boundVars>>

\* Variant: the rule goes behind the conduits, as auto_block_ip.py puts it.
BlockAtEnd(s) ==
    /\ blocked' = blocked \cup {s}
    /\ enforce
    /\ AppendDrop(s)
    /\ UNCHANGED excused

\* apply_drop(), and blocked.add() whatever it returned.
Block(s) ==
    /\ blocked' = blocked \cup {s}
    /\ \/ /\ enforce
          /\ InsertDrop(s)
          /\ UNCHANGED excused
       \/ /\ enforce /\ IptablesFails
          /\ excused' = excused \cup {s}
          /\ UNCHANGED chain
       \/ /\ ~enforce
          /\ UNCHANGED <<chain, excused>>

\* readline() returns the next line and process_line() handles it.
ProcessLine ==
    /\ running
    /\ attached # "none"
    /\ tail # << >>
    /\ tail' = Tail(tail)
    /\ LET line == Head(tail)
           s == line.source
       IN  IF ~line.watched \/ s \in blocked
           THEN UNCHANGED <<chain, state, blocked, excused>>
           ELSE /\ state' = [state EXCEPT ![s] = Recorded(s, now, line.written)]
                /\ IF Crosses(s, now) THEN Block(s)
                                      ELSE UNCHANGED <<chain, blocked, excused>>
    /\ UNCHANGED <<running, enforce, now, exists, attached, since, unseen, boundVars>>

\* Time passes; a running responder polls every two seconds, so no line it can
\* read gets older than Lag.
Tick ==
    /\ now < MaxTime
    /\ running /\ tail # << >> => now < Head(tail).written + Lag
    /\ now' = now + 1
    /\ UNCHANGED <<chain, respVars, logVars, histVars, boundVars>>

-----------------------------------------------------------------------------
(***************************************************************************)
(* Operators and failures.                                                 *)
(***************************************************************************)
Mishap == mishaps < MaxMishaps /\ mishaps' = mishaps + 1

\* responder.py --unblock s: a process of its own, so the running responder's
\* memory does not change.
Unblock(s) ==
    /\ Mishap
    /\ DeleteDrop(s)
    /\ excused' = IF s \in blocked THEN excused \cup {s} ELSE excused
    /\ since' = IF s \in blocked THEN [since EXCEPT ![s] = << >>] ELSE since
    /\ UNCHANGED <<respVars, now, logVars, unseen, alerts>>

\* run_security_tests.py --reset renames the log; the handle keeps the old file.
ArchiveLog ==
    /\ Mishap
    /\ exists
    /\ exists' = FALSE
    /\ attached' = IF attached = "live" THEN "archived" ELSE attached
    /\ UNCHANGED <<chain, respVars, now, tail, histVars, alerts>>

\* The process dies.  Nothing restarts it until an operator does.
ResponderCrash ==
    /\ Mishap
    /\ running
    /\ running' = FALSE
    /\ attached' = "none"
    /\ tail' = << >>
    /\ Fresh
    /\ UNCHANGED <<chain, enforce, now, exists, histVars, alerts>>

\* A process that starts is armed or not by the environment it is given.
NewResponder ==
    /\ running' = TRUE
    /\ enforce' \in BOOLEAN
    /\ attached' = "none"
    /\ tail' = << >>
    /\ Fresh
    /\ since' = [s \in Sources |-> << >>]
    /\ unseen' = {}
    /\ excused' = {}

\* start_ids.sh run again launches a rule that is not running.
StartResponder ==
    /\ Mishap
    /\ ~running
    /\ NewResponder
    /\ UNCHANGED <<chain, now, exists, alerts>>

\* The gateway container restarts: firewall-rules.sh, then start_ids.sh.
GatewayRestart ==
    /\ Mishap
    /\ LoadRules
    /\ NewResponder
    /\ UNCHANGED <<now, exists, alerts>>

Next ==
    \/ \E s \in Sources : UnauthorizedWrite(s) \/ OtherAlert(s) \/ Unblock(s)
    \/ OpenLog
    \/ ProcessLine
    \/ Tick
    \/ ArchiveLog
    \/ ResponderCrash
    \/ StartResponder
    \/ GatewayRestart

Spec == Init /\ [][Next]_vars

-----------------------------------------------------------------------------
(***************************************************************************)
(* What containment promises.                                              *)
(***************************************************************************)

\* THRESHOLD alerts of s were written in less than `width`.
Burst(s, width) ==
    \E i \in DOMAIN since[s] :
        /\ i + THRESHOLD - 1 <= Len(since[s])
        /\ since[s][i + THRESHOLD - 1] < since[s][i] + width

AllRead(s) == \A i \in DOMAIN tail : tail[i].source # s

\* Nobody is blocked without cause: behind every blocked source there are
\* THRESHOLD alerts written within the window, give or take the reading lag
\* that separates the alert from time.time() (responder.py:34-39, 73).
NoInnocentBlocked ==
    \A s \in blocked : s \in excused \/ Burst(s, WINDOW + Lag)

\* No offender is missed: once every alert of a source has been read, a burst
\* that fits the window even with the lag has blocked it, provided the open
\* handle returns all its alerts (responder.py:59-77).
OffenderBlocked ==
    \A s \in Sources :
        running /\ s \notin unseen /\ AllRead(s) /\ Burst(s, WINDOW - Lag)
        => s \in blocked

\* An armed responder's block works: the DROP rule is ahead of the conduits for
\* as long as iptables took it and nobody removed it, through log archives and
\* other sources' rules (responder.py:42-47).
BlockedIsContained ==
    \A s \in blocked : enforce /\ s \notin excused => Contained(s)

\* Beside a dry-running responder nobody gets contained, whoever it takes for an
\* offender and whatever an armed one before it had left on the chain
\* (responder.py:44-45).
DryRunIsPassive ==
    [][ ~enforce => \A s \in Sources : Contained(s)' => Contained(s) ]_vars

(***************************************************************************)
(* What the documentation says and the code does not do.                   *)
(***************************************************************************)

\* responder.py:4-5: when a source exceeds the threshold the responder applies
\* a DROP for it.
OffenderContained ==
    \A s \in Sources :
        enforce /\ running /\ s \notin unseen /\ AllRead(s) /\ Burst(s, WINDOW - Lag)
        => Contained(s)

\* responder.py:10-12 and automation/README.md:56: after --unblock the source's
\* packets pass again.
UnblockReleases ==
    [][ \A s \in Sources : Unblock(s) => ~Contained(s)' ]_vars

=============================================================================
