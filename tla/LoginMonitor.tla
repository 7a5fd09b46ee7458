----------------------------- MODULE LoginMonitor -----------------------------
(***************************************************************************)
(* The login monitor of the DMZ, hmi-login-monitor/monitor.py, for one     *)
(* source: it tails nginx's access log through a handle it opens once and  *)
(* counts failed logins by the time it reads them.  The log may be rotated *)
(* under it: renamed, and some time later reopened by nginx under the old  *)
(* name.                                                                   *)
(***************************************************************************)
EXTENDS Integers, Pruning

CONSTANTS
    LOGIN_WINDOW,       \* a failure read this long ago no longer counts
    LOGIN_THRESHOLD,    \* that many failures raise the alert
    MaxFailures         \* bound: failures unread, and read within one window

ASSUME LoginAssumption ==
    /\ LOGIN_WINDOW \in Nat \ {0} /\ LOGIN_THRESHOLD \in Nat \ {0}
    /\ MaxFailures \in Nat

VARIABLES
    named,      \* does the access log exist under its name?
    handle,     \* the monitor's handle: "none", "live" (nginx writes the
                \* file it has open) or "stale" (nginx writes another one)
    unread,     \* ages of the failures in the open file beyond its position
    timestamps, \* state[source]: ages since they were read, oldest first
    read,       \* failures read within the last window: age since read,
                \* age since logged, alert raised? (history)
    gap         \* has the name been missing while the handle was open? (history)

loginVars == <<named, handle, unread, timestamps, read, gap>>

LoginInit ==
    /\ named \in BOOLEAN
    /\ handle = "none" /\ unread = <<>> /\ timestamps = <<>> /\ read = <<>>
    /\ gap = FALSE

Fresh(age) == age < LOGIN_WINDOW

\* The positions the window no longer covers.
Lapsed(ages) == { i \in DOMAIN ages : ~Fresh(ages[i]) }

Older(age) == IF age < LOGIN_WINDOW THEN age + 1 ELSE age

-----------------------------------------------------------------------------
\* Variant: the file is read from its start.
OpenLogFromStart ==
    /\ named /\ handle = "none"
    /\ handle' = "live"
    /\ unread' = <<LOGIN_WINDOW>>
    /\ UNCHANGED <<named, timestamps, read, gap>>

\* The handle is opened at the end of the file, once.
OpenLog ==
    /\ named /\ handle = "none"
    /\ handle' = "live"
    /\ unread' = <<>>
    /\ UNCHANGED <<named, timestamps, read, gap>>

\* record: the list the next failure starts from.
RecordedList(kept) == kept

\* Variant: what is left of a renamed file is not read.
ReadFailureLive ==
    /\ named /\ handle = "live" /\ unread # <<>>
    /\ unread' = Tail(unread)
    /\ UNCHANGED <<named, handle, timestamps, read, gap>>

\* readline returns a failed login; nothing is read while the name is missing.
ReadFailure ==
    LET kept == Append(Pruned(timestamps, Lapsed(timestamps)), 0)
    IN  /\ named /\ handle # "none" /\ unread # <<>>
        /\ timestamps' = RecordedList(kept)
        /\ read' = Append(read, [age |-> 0, logged |-> Head(unread),
                                 alarm |-> Len(kept) >= LOGIN_THRESHOLD])
        /\ unread' = Tail(unread)
        /\ UNCHANGED <<named, handle, gap>>

\* The monitor dies and its container starts it again.
LoginCrash ==
    /\ handle' = "none"
    /\ unread' = <<>> /\ timestamps' = <<>> /\ read' = <<>> /\ gap' = FALSE
    /\ UNCHANGED named

\* nginx appends a failed login to the file it has open.
FailedLogin ==
    /\ Len(unread) + Len(read) < MaxFailures
    /\ unread' = IF handle = "live" THEN Append(unread, 0) ELSE unread
    /\ UNCHANGED <<named, handle, timestamps, read, gap>>

\* The log is renamed; nginx keeps writing to the renamed file.
RotateLog ==
    /\ named /\ named' = FALSE
    /\ gap' = (gap \/ handle # "none")
    /\ UNCHANGED <<handle, unread, timestamps, read>>

\* nginx (re)opens its log under the name: a new file.
ReopenLog ==
    /\ ~named /\ named' = TRUE
    /\ handle' = IF handle = "live" THEN "stale" ELSE handle
    /\ UNCHANGED <<unread, timestamps, read, gap>>

\* A unit of time, much longer than the monitor's sleeps: whatever it can
\* open or read it has opened and read.
LoginTick ==
    LET aged == [i \in DOMAIN read |->
                    [read[i] EXCEPT !.age = @ + 1, !.logged = Older(@)]]
    IN  /\ named => handle # "none" /\ unread = <<>>
        /\ unread' = [i \in DOMAIN unread |-> Older(unread[i])]
        /\ timestamps' = [i \in DOMAIN timestamps |-> Older(timestamps[i])]
        /\ read' = Pruned(aged, { i \in DOMAIN aged : ~Fresh(aged[i].age) })
        /\ UNCHANGED <<named, handle, gap>>

LoginNext ==
    \/ OpenLog \/ ReadFailure \/ LoginCrash
    \/ FailedLogin \/ RotateLog \/ ReopenLog \/ LoginTick

\* The monitor's loop always goes on.
LoginSpec ==
    LoginInit /\ [][LoginNext]_loginVars
        /\ WF_loginVars(OpenLog) /\ WF_loginVars(ReadFailure)

-----------------------------------------------------------------------------
\* Failures are counted by when they are read (monitor.py:61), so an alert
\* means a threshold of failures read within one window.  As long as the log was
\* never missing under the open handle, it means as many logged within one; after
\* a gap old lines are read together and may alert at any distance.
AlertsAreTimely ==
    [][ \A i \in DOMAIN read' :
          ReadFailure /\ i = Len(read') /\ read'[i].alarm
            => /\ i >= LOGIN_THRESHOLD
               /\ ~gap => \A j \in DOMAIN read' :
                     j > i - LOGIN_THRESHOLD => Fresh(read'[j].logged) ]_loginVars

\* Once rotations have ended, the monitor reads whatever has been logged into
\* the file it follows, what was left of a renamed one included
\* (monitor.py:69-80: the loop waits only for the name and for a line).
FailuresAreRead == <>[]named => []<>(unread = <<>>)

=============================================================================
