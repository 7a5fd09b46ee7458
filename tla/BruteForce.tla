------------------------------ MODULE BruteForce ------------------------------
(***************************************************************************)
(* The Modbus exception detector, detection/rules/ot_brute_force.py, for   *)
(* one source: exceptions are remembered by their time, those out of the   *)
(* window are dropped when the next one arrives, and an alert empties the  *)
(* list.  Sources do not affect each other.  Times are kept as ages; ages  *)
(* beyond the window are all alike.                                        *)
(***************************************************************************)
EXTENDS Integers, Pruning

CONSTANTS
    WINDOW_SECONDS,      \* an exception this old no longer counts
    ERROR_THRESHOLD,     \* that many exceptions raise the alert
    MaxExceptions        \* bound: exceptions within one window

ASSUME WindowAssumption ==
    /\ WINDOW_SECONDS \in Nat \ {0} /\ ERROR_THRESHOLD \in Nat \ {0}
    /\ MaxExceptions \in Nat

VARIABLES
    error_tracker,   \* ages of the remembered exceptions, oldest first
    scan             \* every exception of the last window: its age, and
                     \* whether it raised an alert (history)

bruteVars == <<error_tracker, scan>>

BruteInit == error_tracker = <<>> /\ scan = <<>>

InWindow(age) == age < WINDOW_SECONDS

\* The positions the window no longer covers.
Forgotten(ages) == { i \in DOMAIN ages : ~InWindow(ages[i]) }

\* What is remembered after an exception: nothing once it has raised an alert.
Tracked(kept) == IF Len(kept) >= ERROR_THRESHOLD THEN <<>> ELSE kept

\* Variant: the threshold is looked at before the exception is counted.
AlarmedLate(kept) == Len(kept) > ERROR_THRESHOLD

Alarmed(kept) == Len(kept) >= ERROR_THRESHOLD

\* process_packet for a frame with a function code above 128.
ExceptionSeen ==
    LET seen == Append(error_tracker, 0)
        kept == Pruned(seen, Forgotten(seen))
    IN  /\ Len(scan) < MaxExceptions
        /\ error_tracker' = Tracked(kept)
        /\ scan' = Append(scan, [age |-> 0, alarm |-> Alarmed(kept)])

BruteTick ==
    LET aged == [i \in DOMAIN scan |-> [scan[i] EXCEPT !.age = @ + 1]]
    IN  /\ error_tracker' = [i \in DOMAIN error_tracker |->
              IF InWindow(error_tracker[i]) THEN error_tracker[i] + 1
              ELSE error_tracker[i]]
        /\ scan' = Pruned(aged, { i \in DOMAIN aged : ~InWindow(aged[i].age) })

\* The detector is a new process: it remembers nothing.
BruteRestart == error_tracker' = <<>> /\ scan' = <<>>

BruteNext == ExceptionSeen \/ BruteTick \/ BruteRestart

BruteSpec == BruteInit /\ [][BruteNext]_bruteVars

-----------------------------------------------------------------------------
\* No threshold's worth of exceptions passes within one window of a running
\* detector without an alert among them, although every alert forgets what it
\* counted and the window's edge is pruned late; nor does a burst alert for each
\* of its exceptions: between two alerts lie as many as the first one took
\* (ot_brute_force.py:47-60).
OneAlertPerBurst ==
    /\ Len(scan) >= ERROR_THRESHOLD => \E i \in DOMAIN scan : scan[i].alarm
    /\ \A i, j \in DOMAIN scan :
           i < j /\ scan[i].alarm /\ scan[j].alarm => j - i >= ERROR_THRESHOLD

=============================================================================
