------------------------------- MODULE Watchdog -------------------------------
(***************************************************************************)
(* detection/rules/watchdog.py: the process that looks, round after round, *)
(* for every other producer's process and raises DETECTION_SERVICE_DOWN,   *)
(* and start_ids.sh, which launches what is not running.                   *)
(*                                                                         *)
(* Time is relative: what the code computes from time.time() and a stored  *)
(* time is kept as an age that grows with every tick.                      *)
(***************************************************************************)
EXTENDS Integers, FiniteSets

CONSTANTS
    NProducers,  \* the other scripts of the rule directory, in sorted order
    GRACE, INTERVAL, REPEAT,  \* OT_WATCHDOG_GRACE, _INTERVAL, _REPEAT (30, 10, 300 s)
    Slow,   \* a round takes at most this long: Loki may be slow to refuse a push
    Never   \* the script is not in _last_alerted

ASSUME WatchdogAssumption ==
    /\ NProducers \in Nat \ {0}
    /\ GRACE \in Nat /\ INTERVAL \in Nat \ {0} /\ REPEAT \in Nat \ {0} /\ Slow \in Nat
    /\ Never \notin Int

Producers == 1 .. NProducers

VARIABLES
    alive,   \* per producer, whether its process runs
    phase,   \* the watchdog: "off", "sleep" (the grace is its first sleep), "check"
    timer,   \* ticks until the sleep is over
    next,    \* the producer that check() looks at next
    late,    \* ticks since check() was called with time.time()
    age,     \* per producer, ticks since the time in _last_alerted
    unheard, \* history: per producer, ticks it has been down beside a running
             \*   watchdog since the last alert about it
    said     \* history: per producer, whether an alert was raised since a check
             \*   saw it running: "nothing", "now" (this outage) or "before"

vars == <<alive, phase, timer, next, late, age, unheard, said>>

\* Ages are told apart up to what the comparison with REPEAT needs.
MaxAge == REPEAT + Slow
\* What a producer may be unheard of, plus one.
MaxUnheard == GRACE + REPEAT + INTERVAL + 2 * Slow + 1

Min2(a, b) == IF a <= b THEN a ELSE b

TypeOK ==
    /\ alive \in [Producers -> BOOLEAN]
    /\ phase \in {"off", "sleep", "check"}
    /\ timer \in 0 .. GRACE + INTERVAL
    /\ next \in Producers
    /\ late \in 0 .. Slow
    /\ age \in [Producers -> 0 .. MaxAge \cup {Never}]
    /\ unheard \in [Producers -> 0 .. MaxUnheard]
    /\ said \in [Producers -> {"nothing", "now", "before"}]
    /\ phase = "off" => \A p \in Producers : age[p] = Never
    /\ phase # "check" => next = 1 /\ late = 0

Init ==
    /\ alive = [p \in Producers |-> FALSE]
    /\ phase = "off"
    /\ timer = 0
    /\ next = 1
    /\ late = 0
    /\ age = [p \in Producers |-> Never]
    /\ unheard = [p \in Producers |-> 0]
    /\ said = [p \in Producers |-> "nothing"]

-----------------------------------------------------------------------------
\* start_ids.sh finds a producer's process missing and launches it.
LaunchProducer(p) ==
    /\ ~alive[p]
    /\ alive' = [alive EXCEPT ![p] = TRUE]
    /\ unheard' = [unheard EXCEPT ![p] = 0]
    /\ said' = [said EXCEPT ![p] = IF @ = "now" THEN "before" ELSE @]
    /\ UNCHANGED <<phase, timer, next, late, age>>

\* It launches the watchdog: main() sleeps for the grace period first.
LaunchWatchdog ==
    /\ phase = "off"
    /\ phase' = "sleep"
    /\ timer' = GRACE
    /\ UNCHANGED <<alive, next, late, age, unheard, said>>

ProducerDies(p) ==
    /\ alive[p]
    /\ alive' = [alive EXCEPT ![p] = FALSE]
    /\ UNCHANGED <<phase, timer, next, late, age, unheard, said>>

\* Its memory goes with it.
WatchdogDies ==
    /\ phase # "off"
    /\ phase' = "off"
    /\ timer' = 0
    /\ next' = 1
    /\ late' = 0
    /\ age' = [p \in Producers |-> Never]
    /\ unheard' = [p \in Producers |-> 0]
    /\ said' = [p \in Producers |-> "nothing"]
    /\ UNCHANGED alive

\* The sleep is over: check(scripts, time.time())
StartRound ==
    /\ phase = "sleep"
    /\ timer = 0
    /\ phase' = "check"
    /\ UNCHANGED <<alive, timer, next, late, age, unheard, said>>

EndOrNext ==
    IF next = NProducers
    THEN /\ phase' = "sleep"
         /\ timer' = INTERVAL
         /\ next' = 1
         /\ late' = 0
    ELSE /\ next' = next + 1
         /\ UNCHANGED <<phase, timer, late>>

\* Variant: nothing is forgotten when the producer is back.
SeesRunningKeepsAge ==
    /\ said' = [said EXCEPT ![next] = "nothing"]
    /\ UNCHANGED <<age, unheard>>

\* running() is true: the script is popped from _last_alerted.
SeesRunning ==
    /\ age' = [age EXCEPT ![next] = Never]
    /\ said' = [said EXCEPT ![next] = "nothing"]
    /\ UNCHANGED unheard

\* DETECTION_SERVICE_DOWN, stamped with the time of the round.
RaiseAlert ==
    /\ age' = [age EXCEPT ![next] = late]
    /\ said' = [said EXCEPT ![next] = "now"]
    /\ unheard' = [unheard EXCEPT ![next] = 0]

AlertedRecently == age[next] # Never /\ age[next] - late < REPEAT

\* Variant: the stamp is renewed in every round.
StayQuietRestamped ==
    /\ age' = [age EXCEPT ![next] = late]
    /\ UNCHANGED <<unheard, said>>

StayQuiet == UNCHANGED <<age, unheard, said>>

\* One iteration of check().
CheckProducer ==
    /\ phase = "check"
    /\ \/ alive[next] /\ SeesRunning
       \/ ~alive[next] /\ AlertedRecently /\ StayQuiet
       \/ ~alive[next] /\ ~AlertedRecently /\ RaiseAlert
    /\ EndOrNext
    /\ UNCHANGED alive

\* A tick of the clock.  The watchdog wakes on time and a round ends in time.
Tick ==
    /\ phase = "sleep" => timer > 0
    /\ phase = "check" => late < Slow
    /\ timer' = IF phase = "sleep" THEN timer - 1 ELSE timer
    /\ late' = IF phase = "check" THEN late + 1 ELSE late
    /\ age' = [p \in Producers |->
                  IF age[p] = Never THEN Never ELSE Min2(age[p] + 1, MaxAge)]
    /\ unheard' = [p \in Producers |->
                      IF alive[p] \/ phase = "off" THEN 0
                      ELSE Min2(unheard[p] + 1, MaxUnheard)]
    /\ UNCHANGED <<alive, phase, next, said>>

Next ==
    \/ \E p \in Producers : LaunchProducer(p) \/ ProducerDies(p)
    \/ LaunchWatchdog \/ WatchdogDies
    \/ StartRound \/ CheckProducer
    \/ Tick

Spec == Init /\ [][Next]_vars

-----------------------------------------------------------------------------
\* The longest a watchdog takes to come to a producer: its grace, or a sleep and
\* what it still has to do of the round before; then the others of the round.
Prompt == (IF GRACE > INTERVAL + Slow THEN GRACE ELSE INTERVAL + Slow) + Slow

\* A producer that dies after a check has seen it running is reported by the
\* next check, however it was up and down before, and after the grace when the
\* watchdog is new (watchdog.py:47-54, 72-75).
FreshOutageIsPrompt ==
    \A p \in Producers : said[p] = "nothing" => unheard[p] <= Prompt

\* As long as a producer is down it is reported over and over: the silence
\* between two alerts ends in the first round after REPEAT, also for an outage
\* that began, unseen, while an earlier alert was recent, and whatever delays the
\* rounds in between had (watchdog.py:52-54).
NeverSilent == \A p \in Producers : unheard[p] <= REPEAT + Prompt

=============================================================================
