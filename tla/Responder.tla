------------------------------ MODULE Responder ------------------------------
(***************************************************************************)
(* detection/rules/responder.py: the process that tails the alert log and  *)
(* drops a source whose alerts reach THRESHOLD within WINDOW.              *)
(*                                                                         *)
(* An entry of `state` carries the time the responder read the alert,      *)
(* which is all record() looks at, and the time the alert was written,     *)
(* which is history the properties compare it with.                        *)
(***************************************************************************)
EXTENDS ForwardChain, Pruning

CONSTANTS
    WINDOW,     \* OT_RESPONDER_WINDOW (300 s)
    THRESHOLD   \* OT_RESPONDER_THRESHOLD (3)

ASSUME ResponderAssumption ==
    /\ WINDOW \in Nat \ {0}
    /\ THRESHOLD \in Nat \ {0}

VARIABLES
    running,  \* the tailing process is alive
    enforce,  \* it was started with OT_RESPONDER_ENFORCE = 1
    state,    \* per source, the offences record() keeps
    blocked   \* sources that reached the threshold in this process

respVars == <<running, enforce, state, blocked>>

NoOffences == [s \in Sources |-> << >>]

\* main() starts with an empty state and an empty blocked set.
Fresh ==
    /\ state' = NoOffences
    /\ blocked' = {}

-----------------------------------------------------------------------------
\* The offences the responder read `age` ago, or earlier.
Expired(s, now, age) == { i \in DOMAIN state[s] : state[s][i].read + age <= now }

\* Variants: an entry up to a tick older than WINDOW still counts; an entry one
\* tick short of it does not.
KeptTooLong(s, now) == Pruned(state[s], Expired(s, now, WINDOW + 2))

KeptTooShort(s, now) == Pruned(state[s], Expired(s, now, WINDOW - 1))

\* record(): the entries with t > now - window
Kept(s, now) == Pruned(state[s], Expired(s, now, WINDOW))

Recorded(s, now, written) ==
    Append(Kept(s, now), [read |-> now, written |-> written])

\* Variant: the threshold is reached one offence early.
CrossesEarly(s, now) == Len(Kept(s, now)) + 2 >= THRESHOLD

\* record() returns True: the threshold is reached.
Crosses(s, now) == Len(Kept(s, now)) + 1 >= THRESHOLD

=============================================================================
