----------------------------- MODULE Quarantine -----------------------------
(***************************************************************************)
(* What containment at the gateway promises, whoever edits the rules: a    *)
(* source's packets are dropped only after it has been convicted, by an    *)
(* armed responder and one source at a time; it stays dropped until        *)
(* somebody lets it go or the rules are loaded again.                      *)
(***************************************************************************)

CONSTANT Sources

VARIABLES
    convicted,  \* sources with a threshold of alerts to their name
    armed,      \* a responder is watching and may drop
    dropped     \* sources whose packets are dropped ahead of the conduits

quarantineVars == <<convicted, armed, dropped>>

QuarantineInit == convicted = {} /\ armed \in BOOLEAN /\ dropped = {}

Convict(s) ==
    /\ convicted' = convicted \cup {s}
    /\ UNCHANGED <<armed, dropped>>

Drop(s) ==
    /\ armed
    /\ s \in convicted
    /\ dropped' = dropped \cup {s}
    /\ UNCHANGED <<convicted, armed>>

LetGo(freed) ==
    /\ dropped' = dropped \ freed
    /\ UNCHANGED <<convicted, armed>>

\* The responder ends or another one starts; neither touches the rules.
Rearm == armed' \in BOOLEAN /\ UNCHANGED <<convicted, dropped>>

Reload == dropped' = {} /\ armed' \in BOOLEAN /\ UNCHANGED convicted

QuarantineNext ==
    \/ \E s \in Sources : Convict(s) \/ Drop(s)
    \/ \E freed \in SUBSET dropped : LetGo(freed)
    \/ Rearm
    \/ Reload

QuarantineSpec == QuarantineInit /\ [][QuarantineNext]_quarantineVars

=============================================================================
