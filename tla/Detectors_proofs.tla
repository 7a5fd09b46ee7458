---------------------------- MODULE Detectors_proofs ----------------------------
(***************************************************************************)
(* Proofs about the detectors, for all of their windows and thresholds.    *)
(*                                                                         *)
(* The watchdog's bounds are not inductive: a check may be late or about   *)
(* to come.  What is inductive is what an outage has lasted plus the time  *)
(* until the producer's next check is over, so the invariant adds a        *)
(* deadline to every producer.  That a check which stays quiet does so     *)
(* early enough needs the age of the last alert to be at least the         *)
(* silence since.                                                          *)
(*                                                                         *)
(* The sensors' invariant ties every alert to what is on the wire; the     *)
(* sliding windows' invariants tie the detector's list to the history of   *)
(* the events it has seen, behind the entries that are old but not yet     *)
(* dropped.                                                                *)
(***************************************************************************)
EXTENDS Lists_proofs, Watchdog, ProtocolSensors, BruteForce, LoginMonitor, Beacon

\* The longest a sleep and the rest of the round before it last.
LongestPause == IF GRACE > INTERVAL + Slow THEN GRACE ELSE INTERVAL + Slow

\* The latest that the check of producer p is over.
Deadline(p) ==
    IF phase = "sleep" THEN timer + Slow
    ELSE (Slow - late) + IF p >= next THEN 0 ELSE INTERVAL + Slow

\* A producer that runs, or that no watchdog looks at, is not unheard of.
HeardOf(p) == alive[p] \/ phase = "off" => unheard[p] = 0

\* _last_alerted and the alerts since the last check that saw p running.
Remembered(p) ==
    /\ said[p] = "nothing" <=> age[p] = Never
    /\ age[p] # Never => unheard[p] <= age[p] \/ age[p] = MaxAge

InTime(p) ==
    phase # "off" =>
        /\ said[p] = "nothing" => unheard[p] + Deadline(p) <= Prompt
        /\ unheard[p] + Deadline(p) <= REPEAT + Prompt

WatchInv ==
    /\ TypeOK
    /\ timer <= LongestPause
    /\ \A p \in Producers : HeardOf(p) /\ Remembered(p) /\ InTime(p)

-----------------------------------------------------------------------------
\* The constants, as the proofs use them.
LEMMA WatchConstants ==
    /\ NProducers \in Nat \ {0} /\ 1 \in Producers /\ Producers \subseteq Nat
    /\ GRACE \in Nat /\ INTERVAL \in Nat /\ REPEAT \in Nat /\ REPEAT > 0 /\ Slow \in Nat
    /\ Never \notin Int
    /\ LongestPause \in Nat /\ Prompt = LongestPause + Slow
    /\ GRACE <= LongestPause /\ INTERVAL + Slow <= LongestPause
    /\ MaxAge = REPEAT + Slow
    /\ MaxUnheard \in Nat /\ LongestPause <= GRACE + INTERVAL + Slow
  BY WatchdogAssumption DEF Producers, LongestPause, Prompt, MaxAge, MaxUnheard

\* A watchdog that has heard of a producer is in time for it: the deadline of
\* a check is never further away than the first bound.
LEMMA DeadlineBound ==
    ASSUME TypeOK, timer <= LongestPause, NEW p \in Producers
    PROVE  Deadline(p) \in 0 .. Prompt
<1>1. timer \in Nat /\ late \in 0 .. Slow /\ next \in Nat /\ p \in Nat
  BY WatchConstants DEF TypeOK
<1> QED BY <1>1, WatchConstants DEF Deadline

\* A producer comes or goes.
LEMMA ProducerStep ==
    ASSUME WatchInv, NEW q \in Producers, LaunchProducer(q) \/ ProducerDies(q)
    PROVE  WatchInv'
<1>1. UNCHANGED <<phase, timer, next, late, age>>
      /\ \A p \in Producers : Deadline(p)' = Deadline(p)
  BY DEF LaunchProducer, ProducerDies, Deadline
<1>2. CASE LaunchProducer(q)
  <2>1. /\ unheard' = [unheard EXCEPT ![q] = 0]
        /\ alive' = [alive EXCEPT ![q] = TRUE]
        /\ said' = [said EXCEPT ![q] = IF @ = "now" THEN "before" ELSE @]
    BY <1>2 DEF LaunchProducer
  <2>2. TypeOK'
    BY <1>1, <2>1, WatchConstants DEF WatchInv, TypeOK
  <2>3. ASSUME NEW p \in Producers, p # q
        PROVE  HeardOf(p)' /\ Remembered(p)' /\ InTime(p)'
    <3>1. unheard'[p] = unheard[p] /\ alive'[p] = alive[p] /\ said'[p] = said[p]
      BY <2>1, <2>3 DEF WatchInv, TypeOK
    <3> QED BY <1>1, <3>1 DEF WatchInv, HeardOf, Remembered, InTime
  <2>4. HeardOf(q)' /\ Remembered(q)' /\ InTime(q)'
    <3>1. unheard'[q] = 0 /\ (said'[q] = "nothing" <=> said[q] = "nothing")
      BY <2>1 DEF WatchInv, TypeOK
    <3>2. age[q] \in 0 .. MaxAge \cup {Never}
      BY DEF WatchInv, TypeOK
    <3>3. Deadline(q) \in 0 .. Prompt
      BY DeadlineBound DEF WatchInv
    <3>4. HeardOf(q)' /\ Remembered(q)'
      BY <1>1, <3>1, <3>2, WatchConstants DEF WatchInv, HeardOf, Remembered
    <3>5. InTime(q)'
      BY <1>1, <3>1, <3>3, WatchConstants DEF InTime
    <3> QED BY <3>4, <3>5
  <2> QED BY <1>1, <2>2, <2>3, <2>4 DEF WatchInv, LongestPause
<1>3. CASE ProducerDies(q)
  <2>1. alive' = [alive EXCEPT ![q] = FALSE] /\ UNCHANGED <<unheard, said>>
    BY <1>3 DEF ProducerDies
  <2>2. TypeOK'
    BY <1>1, <2>1 DEF WatchInv, TypeOK
  <2>3. \A p \in Producers : HeardOf(p)' /\ Remembered(p)' /\ InTime(p)'
    BY <1>1, <2>1 DEF WatchInv, TypeOK, HeardOf, Remembered, InTime
  <2> QED BY <1>1, <2>2, <2>3 DEF WatchInv, LongestPause
<1> QED BY <1>2, <1>3

\* The watchdog is launched, dies, or ends its sleep.
LEMMA PhaseStep ==
    ASSUME WatchInv, LaunchWatchdog \/ WatchdogDies \/ StartRound
    PROVE  WatchInv'
<1>1. CASE LaunchWatchdog
  <2>1. /\ phase = "off" /\ phase' = "sleep" /\ timer' = GRACE
        /\ UNCHANGED <<alive, next, late, age, unheard, said>>
    BY <1>1 DEF LaunchWatchdog
  <2>2. TypeOK' /\ timer' <= LongestPause
    BY <2>1, WatchConstants DEF WatchInv, TypeOK
  <2>3. \A p \in Producers : HeardOf(p)' /\ Remembered(p)' /\ InTime(p)'
    <3>1. \A p \in Producers : Deadline(p)' = GRACE + Slow /\ unheard'[p] = 0
      BY <2>1 DEF WatchInv, HeardOf, Deadline
    <3> QED BY <2>1, <3>1, WatchConstants DEF WatchInv, HeardOf, Remembered, InTime
  <2> QED BY <2>2, <2>3 DEF WatchInv, LongestPause
<1>2. CASE WatchdogDies
  <2>1. /\ phase' = "off" /\ timer' = 0 /\ next' = 1 /\ late' = 0 /\ alive' = alive
        /\ age' = [p \in Producers |-> Never]
        /\ unheard' = [p \in Producers |-> 0]
        /\ said' = [p \in Producers |-> "nothing"]
    BY <1>2 DEF WatchdogDies
  <2>2. TypeOK' /\ timer' <= LongestPause
    BY <2>1, WatchConstants DEF WatchInv, TypeOK
  <2> QED BY <2>1, <2>2 DEF WatchInv, HeardOf, Remembered, InTime, LongestPause
<1>3. CASE StartRound
  <2>1. /\ phase = "sleep" /\ timer = 0 /\ phase' = "check"
        /\ UNCHANGED <<alive, timer, next, late, age, unheard, said>>
    BY <1>3 DEF StartRound
  <2>2. next = 1 /\ late = 0
    BY <2>1 DEF WatchInv, TypeOK
  <2>3. TypeOK'
    BY <2>1 DEF WatchInv, TypeOK
  <2>4. \A p \in Producers : Deadline(p)' = Deadline(p)
    BY <2>1, <2>2, WatchConstants DEF Deadline, Producers
  <2> QED BY <2>1, <2>3, <2>4
         DEF WatchInv, HeardOf, Remembered, InTime, LongestPause
<1> QED BY <1>1, <1>2, <1>3

\* A tick brings every deadline nearer by what it adds to the outage.
LEMMA TickStep == ASSUME WatchInv, Tick PROVE WatchInv'
<1>1. /\ UNCHANGED <<alive, phase, next, said>>
      /\ timer' = IF phase = "sleep" THEN timer - 1 ELSE timer
      /\ late' = IF phase = "check" THEN late + 1 ELSE late
      /\ age' = [p \in Producers |->
                    IF age[p] = Never THEN Never ELSE Min2(age[p] + 1, MaxAge)]
      /\ unheard' = [p \in Producers |->
                        IF alive[p] \/ phase = "off" THEN 0
                        ELSE Min2(unheard[p] + 1, MaxUnheard)]
      /\ phase = "sleep" => timer > 0
      /\ phase = "check" => late < Slow
  BY DEF Tick
<1>2. timer \in Nat /\ late \in 0 .. Slow /\ phase \in {"off", "sleep", "check"}
      /\ timer \in 0 .. GRACE + INTERVAL /\ next \in Producers
  BY WatchConstants DEF WatchInv, TypeOK
<1>3. timer' \in 0 .. GRACE + INTERVAL /\ timer' <= LongestPause /\ late' \in 0 .. Slow
  BY <1>1, <1>2, WatchConstants DEF WatchInv
<1>4. ASSUME NEW p \in Producers
      PROVE  /\ age'[p] \in 0 .. MaxAge \cup {Never}
             /\ unheard'[p] \in 0 .. MaxUnheard
             /\ HeardOf(p)' /\ Remembered(p)' /\ InTime(p)'
  <2>1. age[p] \in 0 .. MaxAge \cup {Never} /\ unheard[p] \in 0 .. MaxUnheard
        /\ HeardOf(p) /\ Remembered(p) /\ InTime(p)
    BY DEF WatchInv, TypeOK
  <2>2. age'[p] = IF age[p] = Never THEN Never ELSE Min2(age[p] + 1, MaxAge)
    BY <1>1
  <2>3. unheard'[p] = IF alive[p] \/ phase = "off" THEN 0
                      ELSE Min2(unheard[p] + 1, MaxUnheard)
    BY <1>1
  <2>4. age[p] # Never => age'[p] \in 0 .. MaxAge
          /\ (age'[p] = age[p] + 1 \/ age'[p] = MaxAge)
    BY <2>1, <2>2, WatchConstants DEF Min2
  <2>5. unheard'[p] \in 0 .. MaxUnheard /\ unheard'[p] <= unheard[p] + 1
    BY <2>1, <2>3, WatchConstants DEF Min2
  <2>6. HeardOf(p)'
    BY <1>1, <2>3 DEF HeardOf
  <2>7. Remembered(p)'
    BY <1>1, <2>1, <2>2, <2>4, <2>5, WatchConstants DEF Remembered
  <2>8. InTime(p)'
    <3> SUFFICES ASSUME phase # "off" PROVE InTime(p)'
      BY <1>1 DEF InTime
    <3>1. Deadline(p)' = Deadline(p) - 1 /\ Deadline(p) \in Int
      BY <1>1, <1>2, WatchConstants DEF Deadline
    <3> QED BY <1>1, <2>1, <2>5, <3>1, WatchConstants DEF InTime
  <2> QED BY <2>1, <2>2, <2>4, <2>5, <2>6, <2>7, <2>8
<1>5. TypeOK'
  <2>1. age' \in [Producers -> 0 .. MaxAge \cup {Never}]
        /\ unheard' \in [Producers -> 0 .. MaxUnheard]
    BY <1>1, <1>4
  <2>2. phase = "off" => \A p \in Producers : age'[p] = Never
    BY <1>1 DEF WatchInv, TypeOK
  <2> QED BY <1>1, <1>2, <1>3, <2>1, <2>2 DEF WatchInv, TypeOK
<1> QED BY <1>3, <1>4, <1>5 DEF WatchInv, LongestPause

\* What a check makes of the producer it looks at: it is heard of, or it stays
\* unheard of for less than REPEAT and what the round is late.
LEMMA CheckedProducer ==
    ASSUME WatchInv, CheckProducer, NEW n \in Producers, n = next
    PROVE  /\ age' \in [Producers -> 0 .. MaxAge \cup {Never}]
           /\ unheard' \in [Producers -> 0 .. MaxUnheard]
           /\ said' \in [Producers -> {"nothing", "now", "before"}]
           /\ \A p \in Producers \ {n} :
                age'[p] = age[p] /\ unheard'[p] = unheard[p] /\ said'[p] = said[p]
           /\ HeardOf(n)' /\ Remembered(n)'
           /\ \/ unheard'[n] = 0
              \/ said'[n] # "nothing" /\ unheard'[n] < REPEAT + late
<1>1. next \in Producers /\ late \in 0 .. Slow /\ alive' = alive /\ phase = "check"
      /\ age[n] \in 0 .. MaxAge \cup {Never} /\ unheard[n] \in 0 .. MaxUnheard
      /\ phase' # "off"
  BY DEF WatchInv, TypeOK, CheckProducer, EndOrNext
<1>2. HeardOf(n) /\ Remembered(n)
  BY <1>1 DEF WatchInv
<1>3. CASE alive[n] /\ SeesRunning
  <2>1. /\ age' = [age EXCEPT ![next] = Never]
        /\ said' = [said EXCEPT ![next] = "nothing"]
        /\ unheard' = unheard
    BY <1>3 DEF SeesRunning
  <2>2. unheard[n] = 0
    BY <1>2, <1>3 DEF HeardOf
  <2>3. age'[n] = Never /\ said'[n] = "nothing" /\ unheard'[n] = 0
    BY <1>1, <2>1, <2>2 DEF WatchInv, TypeOK
  <2> QED BY <1>1, <2>1, <2>3 DEF WatchInv, TypeOK, HeardOf, Remembered
<1>4. CASE ~alive[n] /\ AlertedRecently /\ StayQuiet
  <2>1. UNCHANGED <<age, unheard, said>>
    BY <1>4 DEF StayQuiet
  <2>2. age[n] # Never /\ age[n] - late < REPEAT
    BY <1>4 DEF AlertedRecently
  <2>3. said[n] # "nothing" /\ unheard[n] < REPEAT + late
    BY <1>1, <1>2, <2>2, WatchConstants DEF Remembered
  <2> QED BY <1>1, <1>2, <1>4, <2>1, <2>3
         DEF WatchInv, TypeOK, HeardOf, Remembered
<1>5. CASE ~alive[n] /\ ~AlertedRecently /\ RaiseAlert
  <2>1. /\ age' = [age EXCEPT ![next] = late]
        /\ said' = [said EXCEPT ![next] = "now"]
        /\ unheard' = [unheard EXCEPT ![next] = 0]
    BY <1>5 DEF RaiseAlert
  <2>2. age'[n] = late /\ said'[n] = "now" /\ unheard'[n] = 0
    BY <1>1, <2>1 DEF WatchInv, TypeOK
  <2>3. late \in 0 .. MaxAge /\ late # Never
    BY <1>1, WatchConstants
  <2> QED BY <1>1, <2>1, <2>2, <2>3, WatchConstants
         DEF WatchInv, TypeOK, HeardOf, Remembered
<1> QED BY <1>3, <1>4, <1>5 DEF CheckProducer

\* A check moves only the deadline of the producer it is about: to the end of
\* the next round.
LEMMA CheckStep == ASSUME WatchInv, CheckProducer PROVE WatchInv'
<1> DEFINE n == next
<1>1. /\ n \in Producers /\ n \in Nat /\ phase = "check" /\ alive' = alive
      /\ late \in 0 .. Slow /\ timer \in 0 .. GRACE + INTERVAL
  BY WatchConstants DEF WatchInv, TypeOK, CheckProducer
<1>2. /\ age' \in [Producers -> 0 .. MaxAge \cup {Never}]
      /\ unheard' \in [Producers -> 0 .. MaxUnheard]
      /\ said' \in [Producers -> {"nothing", "now", "before"}]
      /\ \A p \in Producers \ {n} :
           age'[p] = age[p] /\ unheard'[p] = unheard[p] /\ said'[p] = said[p]
  BY <1>1, CheckedProducer
<1>3. \/ /\ n = NProducers /\ phase' = "sleep" /\ timer' = INTERVAL
         /\ next' = 1 /\ late' = 0
      \/ /\ n # NProducers /\ next' = n + 1 /\ UNCHANGED <<phase, timer, late>>
  BY DEF CheckProducer, EndOrNext
<1>4. TypeOK' /\ timer' <= LongestPause
  <2>1. CASE n = NProducers
    BY <1>1, <1>2, <1>3, <2>1, WatchConstants DEF WatchInv, TypeOK
  <2>2. CASE n # NProducers
    <3>1. n + 1 \in Producers
      BY <1>1, <2>2, WatchConstants DEF Producers
    <3> QED BY <1>1, <1>2, <1>3, <2>2, <3>1 DEF WatchInv, TypeOK
  <2> QED BY <2>1, <2>2

\* What is left of a deadline: the same for the others, a round for n.
<1>5. ASSUME NEW p \in Producers
      PROVE  Deadline(p)' <= IF p = n THEN INTERVAL + 2 * Slow - late ELSE Deadline(p)
  <2>1. p \in Nat /\ p <= NProducers /\ 1 <= p
    BY WatchConstants DEF Producers
  <2>2. CASE n = NProducers
    BY <1>1, <1>3, <2>1, <2>2, WatchConstants DEF Deadline
  <2>3. CASE n # NProducers
    BY <1>1, <1>3, <2>1, <2>3, WatchConstants DEF Deadline
  <2> QED BY <2>2, <2>3
<1>6. ASSUME NEW p \in Producers, p # n
      PROVE  HeardOf(p)' /\ Remembered(p)' /\ InTime(p)'
  <2>1. HeardOf(p) /\ Remembered(p) /\ InTime(p)
    BY DEF WatchInv
  <2>2. age'[p] = age[p] /\ unheard'[p] = unheard[p] /\ said'[p] = said[p]
    BY <1>2, <1>6
  <2>3. Deadline(p)' <= Deadline(p)
    BY <1>5, <1>6
  <2>4. Deadline(p) \in Int /\ Deadline(p)' \in Int /\ unheard[p] \in Int
    BY <1>4, DeadlineBound, <1>1, WatchConstants DEF WatchInv, TypeOK, Deadline
  <2>5. phase' # "off"
    BY <1>1, <1>3
  <2>6. HeardOf(p)' /\ Remembered(p)'
    BY <1>1, <2>1, <2>2, <2>5 DEF HeardOf, Remembered
  <2>7. InTime(p)'
    BY <1>1, <2>1, <2>2, <2>3, <2>4, WatchConstants DEF InTime
  <2> QED BY <2>6, <2>7
<1>7. ASSUME NEW p \in Producers, p = n
      PROVE  HeardOf(p)' /\ Remembered(p)' /\ InTime(p)'
  <2>1. /\ HeardOf(p)' /\ Remembered(p)'
        /\ \/ unheard'[p] = 0
           \/ said'[p] # "nothing" /\ unheard'[p] < REPEAT + late
    BY <1>7, CheckedProducer
  <2>2. Deadline(p)' <= INTERVAL + 2 * Slow - late
    BY <1>5, <1>7
  <2>3. Deadline(p)' \in Int /\ unheard'[p] \in Int
    BY <1>1, <1>2, <1>4, WatchConstants DEF TypeOK, Deadline
  <2>4. said'[p] = "nothing" => unheard'[p] + Deadline(p)' <= Prompt
    BY <1>1, <2>1, <2>2, <2>3, WatchConstants
  <2>5. unheard'[p] + Deadline(p)' <= REPEAT + Prompt
    BY <1>1, <2>1, <2>2, <2>3, WatchConstants
  <2> QED BY <2>1, <2>4, <2>5 DEF InTime
<1> QED BY <1>4, <1>6, <1>7 DEF WatchInv, LongestPause

\* The invariant of the watchdog.
THEOREM WatchInvariant == Spec => []WatchInv
<1>1. Init => WatchInv
  <2> SUFFICES ASSUME Init PROVE WatchInv
    OBVIOUS
  <2>1. TypeOK /\ timer <= LongestPause
    BY WatchConstants DEF Init, TypeOK
  <2> QED BY <2>1, WatchConstants DEF Init, WatchInv, HeardOf, Remembered, InTime
<1>2. WatchInv /\ [Next]_vars => WatchInv'
  <2> SUFFICES ASSUME WatchInv, [Next]_vars PROVE WatchInv'
    OBVIOUS
  <2>1. CASE \E p \in Producers : LaunchProducer(p) \/ ProducerDies(p)
    BY <2>1, ProducerStep
  <2>2. CASE LaunchWatchdog \/ WatchdogDies \/ StartRound
    BY <2>2, PhaseStep
  <2>3. CASE CheckProducer
    BY <2>3, CheckStep
  <2>4. CASE Tick
    BY <2>4, TickStep
  <2>5. CASE UNCHANGED vars
    BY <2>5 DEF vars, WatchInv, TypeOK, HeardOf, Remembered, InTime, Deadline, LongestPause
  <2> QED BY <2>1, <2>2, <2>3, <2>4, <2>5 DEF Next
<1> QED BY <1>1, <1>2, PTL DEF Spec

\* Types of the watchdog, for any number of producers and any periods.
THEOREM WatchTypeCorrect == Spec => []TypeOK
<1>1. WatchInv => TypeOK
  BY DEF WatchInv
<1> QED BY <1>1, WatchInvariant, PTL

\* An outage that follows a check which saw the producer running is reported by
\* the next check (watchdog.py:47-54), for any periods and delays.
THEOREM OutagesAreReported == Spec => []FreshOutageIsPrompt
<1>1. WatchInv => FreshOutageIsPrompt
  <2> SUFFICES ASSUME WatchInv, NEW p \in Producers, said[p] = "nothing"
               PROVE  unheard[p] <= Prompt
    BY DEF FreshOutageIsPrompt
  <2>1. HeardOf(p) /\ InTime(p) /\ Deadline(p) \in 0 .. Prompt /\ unheard[p] \in Nat
    BY DeadlineBound, WatchConstants DEF WatchInv, TypeOK
  <2> QED BY <2>1, WatchConstants DEF HeardOf, InTime
<1> QED BY <1>1, WatchInvariant, PTL

\* No outage is left unreported for longer than the repeat period and a round:
\* the repeat suppression never hides one (watchdog.py:52-54).
THEOREM OutagesAreRepeated == Spec => []NeverSilent
<1>1. WatchInv => NeverSilent
  <2> SUFFICES ASSUME WatchInv, NEW p \in Producers
               PROVE  unheard[p] <= REPEAT + Prompt
    BY DEF NeverSilent
  <2>1. HeardOf(p) /\ InTime(p) /\ Deadline(p) \in 0 .. Prompt /\ unheard[p] \in Nat
    BY DeadlineBound, WatchConstants DEF WatchInv, TypeOK
  <2> QED BY <2>1, WatchConstants DEF HeardOf, InTime
<1> QED BY <1>1, WatchInvariant, PTL

-----------------------------------------------------------------------------
(* The protocol sensors.                                                  *)

LEMMA Dnp3InTable ==
    ASSUME NEW c \in 1 .. 14
    PROVE  Dnp3Function(c) = Dnp3Names[c]
<1>1. DOMAIN Dnp3Names = 1 .. 14
  BY DEF Dnp3Names
<1> QED BY <1>1 DEF Dnp3Function

LEMMA Dnp3Table ==
    /\ Dnp3Names[1] = "Read" /\ Dnp3Names[2] = "Write"
    /\ Dnp3Names[3] = "Select" /\ Dnp3Names[4] = "Operate"
    /\ Dnp3Names[5] = "Direct Operate" /\ Dnp3Names[6] = "Direct Operate No Ack"
    /\ Dnp3Names[7] = "Immediate Freeze" /\ Dnp3Names[8] = "Immediate Freeze No Ack"
    /\ Dnp3Names[9] = "Freeze Clear" /\ Dnp3Names[10] = "Freeze Clear No Ack"
    /\ Dnp3Names[11] = "Freeze At Time" /\ Dnp3Names[12] = "Freeze At Time No Ack"
    /\ Dnp3Names[13] = "Cold Restart" /\ Dnp3Names[14] = "Warm Restart"
  BY DEF Dnp3Names

\* The decoder's names mean the codes its producer tests.
LEMMA Dnp3ByName ==
    ASSUME NEW c \in Nat
    PROVE  /\ Dnp3Function(c) \in {"Select", "Operate", "Direct Operate",
                                   "Direct Operate No Ack"} <=> c \in {3, 4, 5, 6}
           /\ Dnp3Function(c) \in {"Cold Restart", "Warm Restart"} <=> c \in {13, 14}
           /\ Dnp3Function(c) = "Disable Unsolicited" <=> c = 21
<1>0. PICK f : f = Dnp3Function(c)
  OBVIOUS
<1>1. CASE c \in {1, 2, 7, 8, 9, 10, 11, 12}
  <2>0. c \in 1 .. 14
    BY <1>1
  <2>1. f \in {"Read", "Write", "Immediate Freeze", "Immediate Freeze No Ack",
          "Freeze Clear", "Freeze Clear No Ack", "Freeze At Time", "Freeze At Time No Ack"}
    BY ZenonT(60), <1>0, <1>1, <2>0, Dnp3InTable, Dnp3Table
  <2>2. /\ f \notin {"Select", "Operate", "Direct Operate", "Direct Operate No Ack"}
        /\ f \notin {"Cold Restart", "Warm Restart"}
        /\ f # "Disable Unsolicited"
    BY <2>1, Zenon
  <2>3. c \notin {3, 4, 5, 6} /\ c \notin {13, 14} /\ c # 21
    BY <1>1
  <2> QED BY <1>0, <1>1, <2>1, <2>2, <2>3, Zenon
<1>2. CASE c \in {3, 4, 5, 6}
  <2>0. c \in 1 .. 14
    BY <1>2
  <2>1. f \in {"Select", "Operate", "Direct Operate", "Direct Operate No Ack"}
    BY <1>0, <1>2, <2>0, Dnp3InTable, Dnp3Table, Zenon
  <2>2. /\ f \notin {"Cold Restart", "Warm Restart"}
        /\ f # "Disable Unsolicited"
    BY <2>1, Zenon
  <2>3. c \notin {13, 14} /\ c # 21
    BY <1>2
  <2> QED BY <1>0, <1>2, <2>1, <2>2, <2>3, Zenon
<1>3. CASE c \in {13, 14}
  <2>0. c \in 1 .. 14
    BY <1>3
  <2>1. f \in {"Cold Restart", "Warm Restart"}
    BY <1>0, <1>3, <2>0, Dnp3InTable, Dnp3Table, Zenon
  <2>2. /\ f \notin {"Select", "Operate", "Direct Operate", "Direct Operate No Ack"}
        /\ f # "Disable Unsolicited"
    BY <2>1, Zenon
  <2>3. c \notin {3, 4, 5, 6} /\ c # 21
    BY <1>3
  <2> QED BY <1>0, <1>3, <2>1, <2>2, <2>3, Zenon
<1>4. CASE c \notin 1 .. 14
  <2>1. c \notin DOMAIN Dnp3Names
    BY <1>4 DEF Dnp3Names
  <2>2. f = CASE c = 20 -> "Enable Unsolicited"  [] c = 21 -> "Disable Unsolicited"
              [] c = 22 -> "Assign Class"        [] c = 23 -> "Delay Measure"
              [] c = 24 -> "Record Current Time" [] OTHER -> "Unknown"
    BY <1>0, <2>1, Zenon DEF Dnp3Function
  <2>3. c = 21 => c # 20 /\ c # 22 /\ c # 23 /\ c # 24
    OBVIOUS
  <2>4. c = 21 => f = "Disable Unsolicited"
    BY <2>2, <2>3, Zenon
  <2>5. c # 21 => f \in {"Enable Unsolicited", "Assign Class", "Delay Measure",
                         "Record Current Time", "Unknown"}
    BY <2>2, Zenon
  <2>6. /\ f \notin {"Select", "Operate", "Direct Operate", "Direct Operate No Ack"}
        /\ f \notin {"Cold Restart", "Warm Restart"}
        /\ c # 21 => f # "Disable Unsolicited"
    BY <2>4, <2>5, Zenon
  <2>7. c \notin {3, 4, 5, 6} /\ c \notin {13, 14}
    BY <1>4
  <2> QED BY <1>0, <2>4, <2>6, <2>7, Zenon
<1>5. \/ c \in {1, 2, 7, 8, 9, 10, 11, 12} \/ c \in {3, 4, 5, 6}
      \/ c \in {13, 14} \/ c \notin 1 .. 14
  OBVIOUS
<1> QED BY <1>1, <1>2, <1>3, <1>4, <1>5

LEMMA S7ByName ==
    ASSUME NEW c \in Nat
    PROVE  /\ S7Function(c) \in {"Request Download", "Download Block", "Download Ended"}
                <=> c \in {26, 27, 28}
           /\ S7Function(c) \in {"Start Upload", "Upload", "End Upload"}
                <=> c \in {29, 30, 31}
           /\ S7Function(c) \in {"PLC Control", "PLC Stop"} <=> c \in {40, 41}
<1>1. S7Function(c) \in {"Request Download", "Download Block", "Download Ended"}
        <=> c \in {26, 27, 28}
  BY DEF S7Function
<1>2. S7Function(c) \in {"Start Upload", "Upload", "End Upload"} <=> c \in {29, 30, 31}
  BY DEF S7Function
<1>3. S7Function(c) \in {"PLC Control", "PLC Stop"} <=> c \in {40, 41}
  BY DEF S7Function
<1> QED BY <1>1, <1>2, <1>3

LEMMA OpcuaByName ==
    ASSUME NEW c \in Nat
    PROVE  /\ OpcuaService(c) \in {"BrowseRequest", "BrowseNextRequest"} <=> c \in {527, 533}
           /\ OpcuaService(c) = "WriteRequest" <=> c = 673
           /\ OpcuaService(c) = "CallRequest" <=> c = 712
<1>1. OpcuaService(c) \in {"BrowseRequest", "BrowseNextRequest"} <=> c \in {527, 533}
  BY DEF OpcuaService
<1>2. OpcuaService(c) = "WriteRequest" <=> c = 673
  BY DEF OpcuaService
<1>3. OpcuaService(c) = "CallRequest" <=> c = 712
  BY DEF OpcuaService
<1> QED BY <1>1, <1>2, <1>3

Parts == {"open", "stub", "tail", "frame"}

\* What a decoder makes of a piece has the fields of a message.
LEMMA TakenIsMessage ==
    ASSUME NEW m \in Messages, NEW part \in Parts
    PROVE  /\ Taken(m, part) \in Message
           /\ Taken(m, part).proto = m.proto
           /\ Taken(m, part).toServer = m.toServer
           /\ Taken(m, part).operator = m.operator
           /\ m.proto = "opcua" => Taken(m, part).direction = "request"
<1>1. /\ m \in Message
      /\ m.proto = "opcua" => m.direction = "request" /\ m.body.direction = "request"
  BY MessagesAssumption
<1>2. m.body \in Octets
  BY <1>1 DEF Message
<1>3. CASE part = "open"
  BY <1>1, <1>3 DEF Taken
<1>4. CASE part # "open" /\ RepeatsHeader(m, part)
  <2>1. Taken(m, part) = [m EXCEPT !.code = m.body.code, !.control = m.body.control]
    BY <1>4 DEF Taken
  <2> QED BY <1>1, <1>2, <2>1 DEF Message, Octets
<1>5. CASE part # "open" /\ ~RepeatsHeader(m, part)
  <2>1. Taken(m, part) =
          [m EXCEPT !.code = m.body.code, !.control = m.body.control,
                    !.direction = m.body.direction, !.source = m.body.source,
                    !.readable = TRUE]
    BY <1>5 DEF Taken
  <2> QED BY <1>1, <1>2, <2>1 DEF Message, Octets
<1> QED BY <1>3, <1>4, <1>5

\* What is read from a message raises what it deserves; the anomaly rule adds
\* its own alert.
LEMMA AlertsByName ==
    ASSUME NEW e \in Message, e.toServer, e.readable,
           e.proto = "opcua" => e.direction = "request"
    PROVE  AlertsOf(e) = Deserved(e)
                \cup IF e.proto = "dnp3" THEN AnomalyAlerts(e) ELSE {}
<1>1. e.code \in Nat
  BY DEF Message
<1>2. CASE e.proto = "modbus"
  BY <1>2 DEF AlertsOf, ModbusAlerts, Deserved
<1>3. CASE e.proto = "dnp3"
  <2>1. AlertsOf(e) = Dnp3Alerts(e) \cup AnomalyAlerts(e)
    BY <1>3 DEF AlertsOf
  <2>2. CASE e.direction # "request"
    BY <1>3, <2>1, <2>2 DEF Deserved, Dnp3Alerts
  <2>3. CASE e.direction = "request"
    <3>1. Dnp3Alerts(e) = UNION {
             IF e.code \in {3, 4, 5, 6} /\ e.source \notin {1, 2}
             THEN {"DNP3_UNAUTHORIZED_CONTROL"} ELSE {},
             IF e.code \in {13, 14} THEN {"DNP3_RESTART_COMMAND"} ELSE {},
             IF e.code = 21 THEN {"DNP3_UNSOLICITED_DISABLED"} ELSE {} }
      BY <2>3 DEF Dnp3Alerts, CONTROL_FUNCTIONS, AUTHORIZED_MASTERS, RESTART_FUNCTIONS
    <3>2. Deserved(e) = Dnp3Deserved(e)
      BY <1>3, <2>3 DEF Deserved
    <3>3. Dnp3Deserved(e) =
            IF e.code \in {3, 4, 5, 6}
            THEN IF e.source \in {1, 2} THEN {} ELSE {"DNP3_UNAUTHORIZED_CONTROL"}
            ELSE IF e.code \in {13, 14} THEN {"DNP3_RESTART_COMMAND"}
            ELSE IF e.code = 21 THEN {"DNP3_UNSOLICITED_DISABLED"} ELSE {}
      BY <1>1, Dnp3ByName, Zenon DEF Dnp3Deserved
    <3>4. CASE e.code \in {3, 4, 5, 6}
      BY <3>1, <3>2, <3>3, <3>4, <1>3, <2>1
    <3>5. CASE e.code \in {13, 14}
      BY <3>1, <3>2, <3>3, <3>5, <1>3, <2>1
    <3>6. CASE e.code \notin {3, 4, 5, 6, 13, 14}
      BY <3>1, <3>2, <3>3, <3>6, <1>3, <2>1
    <3> QED BY <3>4, <3>5, <3>6
  <2> QED BY <2>2, <2>3
<1>4. CASE e.proto = "s7comm"
  <2>1. AlertsOf(e) = S7Alerts(e)
    BY <1>4 DEF AlertsOf
  <2>2. CASE e.direction # "request"
    BY <1>4, <2>1, <2>2 DEF Deserved, S7Alerts
  <2>3. CASE e.direction = "request"
    <3>1. Deserved(e) = S7Deserved(e)
      BY <1>4, <2>3 DEF Deserved
    <3>2. S7Alerts(e) = IF e.code \in {26, 27, 28} THEN {"S7COMM_PROGRAM_DOWNLOAD"}
                        ELSE IF e.code \in {29, 30, 31} THEN {"S7COMM_PROGRAM_UPLOAD"}
                        ELSE IF e.code \in {40, 41} THEN {"S7COMM_CHANGE_OPERATING_MODE"}
                        ELSE {}
      BY <2>3 DEF S7Alerts
    <3>3. S7Deserved(e) = S7Alerts(e)
      BY <1>1, <3>2, S7ByName, Zenon DEF S7Deserved
    <3> QED BY <1>4, <2>1, <3>1, <3>3
  <2> QED BY <2>2, <2>3
<1>5. CASE e.proto = "opcua"
  <2>1. AlertsOf(e) = OpcuaAlerts(e) /\ Deserved(e) = OpcuaDeserved(e)
    BY <1>5 DEF AlertsOf, Deserved
  <2>2. OpcuaAlerts(e) = OpcuaDeserved(e)
    BY <1>1, OpcuaByName DEF OpcuaAlerts, OpcuaDeserved, RequestServices
  <2> QED BY <1>5, <2>1, <2>2
<1>6. e.proto \in {"dnp3", "s7comm", "opcua", "modbus"}
  BY DEF Message
<1> QED BY <1>2, <1>3, <1>4, <1>5, <1>6

\* A message whose code starts a segment raises all it deserves.
LEMMA OpenRaisesDeserved ==
    ASSUME NEW m \in Messages PROVE Deserved(m) \subseteq Raised(m, "open")
<1>1. CASE ~m.toServer \/ ~m.readable
  BY <1>1 DEF Deserved
<1>2. CASE m.toServer /\ m.readable
  <2>1. m \in Message /\ (m.proto = "opcua" => m.direction = "request")
    BY MessagesAssumption
  <2>2. Raised(m, "open") = AlertsOf(m)
    BY <1>2 DEF Raised, Recognised, Taken
  <2> QED BY <1>2, <2>1, <2>2, AlertsByName
<1>3. m.toServer \in BOOLEAN /\ m.readable \in BOOLEAN
  BY MessagesAssumption DEF Message
<1> QED BY <1>1, <1>2, <1>3

LEMMA AnomalyReadsControl ==
    ASSUME NEW e \in Message, NEW x \in AnomalyAlerts(e)
    PROVE  x = "DNP3_WRITE_UNAUTHORIZED" /\ ~e.operator /\ e.control < 64
<1>1. x = "DNP3_WRITE_UNAUTHORIZED" /\ ~e.operator /\ e.control \in DNP3_WRITE_FC
  BY DEF AnomalyAlerts
<1> QED BY <1>1 DEF DNP3_WRITE_FC

LEMMA DeservedNames ==
    ASSUME NEW e PROVE "DNP3_WRITE_UNAUTHORIZED" \notin Deserved(e)
  BY DEF Deserved, Dnp3Deserved, S7Deserved, OpcuaDeserved

\* What a piece at the start of a segment raises is earned by its octets.
LEMMA RaisedIsEarned ==
    ASSUME NEW m \in Messages, NEW part \in Parts, NEW x \in Raised(m, part)
    PROVE  Earned(m, part, x)
<1>1. PICK e : e = Taken(m, part)
  OBVIOUS
<1>2. /\ e \in Message /\ e.proto = m.proto /\ e.toServer = m.toServer
      /\ e.operator = m.operator /\ (m.proto = "opcua" => e.direction = "request")
  BY <1>1, TakenIsMessage
<1>3. m.toServer /\ Recognised(m, part) /\ x \in AlertsOf(e)
  BY <1>1 DEF Raised
<1>5. part = "open" => e = m
  BY <1>1 DEF Taken
<1>6. /\ part # "stub"
      /\ (part = "open" \/ RepeatsHeader(m, part)) => m.readable
      /\ ~(part = "open" \/ RepeatsHeader(m, part)) => m.body.mimics
  BY <1>3 DEF Recognised
<1>7. e.readable
  <2>1. CASE part = "open"
    BY <1>5, <1>6, <2>1
  <2>2. CASE part # "open" /\ RepeatsHeader(m, part)
    <3>1. e = [m EXCEPT !.code = m.body.code, !.control = m.body.control]
      BY <1>1, <2>2 DEF Taken
    <3>2. m \in Message
      BY MessagesAssumption
    <3> QED BY <1>6, <2>2, <3>1, <3>2 DEF Message
  <2>3. CASE part # "open" /\ ~RepeatsHeader(m, part)
    <3>1. e = [m EXCEPT !.code = m.body.code, !.control = m.body.control,
                        !.direction = m.body.direction, !.source = m.body.source,
                        !.readable = TRUE]
      BY <1>1, <2>3 DEF Taken
    <3>2. m \in Message
      BY MessagesAssumption
    <3> QED BY <3>1, <3>2 DEF Message
  <2> QED BY <2>1, <2>2, <2>3
<1>8. AlertsOf(e) = Deserved(e) \cup IF e.proto = "dnp3" THEN AnomalyAlerts(e) ELSE {}
  BY <1>2, <1>3, <1>7, AlertsByName
<1>9. \/ part = "open"
      \/ part = "frame" /\ m.proto \in {"dnp3", "opcua"}
      \/ m.body.mimics
  BY <1>6 DEF RepeatsHeader
<1>10. IF x = "DNP3_WRITE_UNAUTHORIZED"
       THEN m.proto = "dnp3" /\ ~m.operator /\ e.control < 64
       ELSE x \in Deserved(e)
  <2>1. CASE x \in Deserved(e)
    BY <2>1, DeservedNames
  <2>2. CASE x \notin Deserved(e)
    <3>1. e.proto = "dnp3" /\ x \in AnomalyAlerts(e)
      BY <1>3, <1>8, <2>2
    <3> QED BY <1>2, <3>1, AnomalyReadsControl
  <2> QED BY <2>1, <2>2
<1>11. e = IF part = "open" THEN m ELSE Taken(m, part)
  BY <1>1, <1>5
<1> QED BY <1>9, <1>10, <1>11 DEF Earned

\* What stands where in two lists put together.
LEMMA Joined ==
    ASSUME NEW S, NEW a \in Seq(S), NEW b \in Seq(S)
    PROVE  /\ Len(a \o b) = Len(a) + Len(b)
           /\ \A j \in 1 .. Len(a) : (a \o b)[j] = a[j]
           /\ \A j \in Len(a) + 1 .. Len(a) + Len(b) : (a \o b)[j] = b[j - Len(a)]
  OBVIOUS

\* How a message is cut: its first piece starts it.
LEMMA CutShape ==
    ASSUME NEW m, NEW cut \in Cuts(m)
    PROVE  cut \in Seq(Parts) /\ Len(cut) \in 1 .. 3 /\ cut[1] \in {"open", "stub"}
<1>1. \/ cut = <<"open">> \/ cut = <<"open", "tail">> \/ cut = <<"stub", "tail">>
      \/ cut = <<"open", "frame">> \/ cut = <<"stub", "tail", "frame">>
  BY DEF Cuts
<1>2. cut \in Seq(Parts)
  <2>1. <<"open">> \in Seq(Parts)
    BY DEF Parts
  <2>2. <<"open", "tail">> \in Seq(Parts) /\ <<"stub", "tail">> \in Seq(Parts)
    BY DEF Parts
  <2>3. <<"open", "frame">> \in Seq(Parts) /\ <<"stub", "tail", "frame">> \in Seq(Parts)
    BY DEF Parts
  <2> QED BY <1>1, <2>1, <2>2, <2>3, Zenon
<1>3. Len(cut) \in 1 .. 3 /\ cut[1] \in {"open", "stub"}
  BY <1>1
<1> QED BY <1>2, <1>3

\* A message is out of sight, still waits to start, or has raised its alerts.
Accounted(i) == i \in unseen \/ Waits(i) \/ Reported(i)

Justified(a) ==
    a[1] \in DOMAIN sent /\ Earned(sent[a[1]], a[2], a[3])

SensorInv ==
    /\ sent \in Seq(Messages)
    /\ wire \in Seq((DOMAIN sent) \X Parts)
    /\ \A i \in DOMAIN sent : Accounted(i)
    /\ \A a \in alerts : Justified(a)

\* A message that is sent waits to start; nothing changes for the others.
LEMMA SendMessageStep ==
    ASSUME SensorInv, NEW m \in Messages, NEW cut \in Cuts(m), SendMessage(m, cut)
    PROVE  SensorInv'
<1>1. PICK n : n = Len(sent) + 1
  OBVIOUS
<1>2. PICK pieces : pieces = [i \in DOMAIN cut |-> <<n, cut[i]>>]
  OBVIOUS
<1>3. /\ sent' = Append(sent, m) /\ wire' = wire \o pieces
      /\ UNCHANGED <<alerts, unseen>>
  BY <1>1, <1>2 DEF SendMessage
<1>4. /\ sent \in Seq(Messages) /\ wire \in Seq((DOMAIN sent) \X Parts)
      /\ cut \in Seq(Parts) /\ Len(cut) \in 1 .. 3 /\ cut[1] \in {"open", "stub"}
  BY CutShape DEF SensorInv
<1>5. /\ sent' \in Seq(Messages) /\ DOMAIN sent = 1 .. Len(sent) /\ Len(sent) \in Nat
      /\ DOMAIN sent' = 1 .. n /\ n \in DOMAIN sent' /\ sent'[n] = m
      /\ \A i \in DOMAIN sent : i \in DOMAIN sent' /\ sent'[i] = sent[i]
  BY <1>1, <1>3, <1>4
<1>6. pieces \in Seq((DOMAIN sent') \X Parts) /\ Len(pieces) = Len(cut)
  <2>1. DOMAIN cut = 1 .. Len(cut) /\ \A i \in DOMAIN cut : cut[i] \in Parts
    BY <1>4
  <2>2. pieces \in [1 .. Len(cut) -> (DOMAIN sent') \X Parts]
    BY <1>2, <1>5, <2>1
  <2> QED BY <1>4, <2>2
<1>7. wire \in Seq((DOMAIN sent') \X Parts)
  <2>1. \A j \in DOMAIN wire : wire[j] \in (DOMAIN sent') \X Parts
    BY <1>4, <1>5
  <2>2. wire \in [1 .. Len(wire) -> (DOMAIN sent') \X Parts] /\ Len(wire) \in Nat
    BY <1>4, <2>1
  <2> QED BY <2>2
<1>8. wire' \in Seq((DOMAIN sent') \X Parts)
  BY <1>3, <1>6, <1>7
<1>9. /\ Len(wire) \in Nat /\ Len(wire') = Len(wire) + Len(cut)
      /\ DOMAIN wire = 1 .. Len(wire) /\ DOMAIN wire' = 1 .. Len(wire')
      /\ \A j \in DOMAIN wire : j \in DOMAIN wire' /\ wire'[j] = wire[j]
      /\ \A j \in DOMAIN wire' \ DOMAIN wire :
           j - Len(wire) \in DOMAIN cut /\ wire'[j] = pieces[j - Len(wire)]
  <2>1. /\ Len(wire) \in Nat /\ DOMAIN wire = 1 .. Len(wire)
        /\ DOMAIN cut = 1 .. Len(cut) /\ Len(cut) \in Nat
    BY <1>4
  <2>2. /\ Len(wire') = Len(wire) + Len(pieces)
        /\ \A j \in 1 .. Len(wire) : wire'[j] = wire[j]
        /\ \A j \in Len(wire) + 1 .. Len(wire) + Len(pieces) :
             wire'[j] = pieces[j - Len(wire)]
    <3>1. PICK S : S = (DOMAIN sent') \X Parts
      OBVIOUS
    <3>2. wire \in Seq(S) /\ pieces \in Seq(S)
      BY <1>6, <1>7, <3>1
    <3> QED BY <1>3, <3>2, Joined
  <2>3. DOMAIN wire' = 1 .. Len(wire')
    BY <1>8
  <2>4. PICK w, k \in Nat : w = Len(wire) /\ k = Len(cut)
    BY <2>1
  <2>5. /\ Len(wire') = w + k /\ DOMAIN wire' = 1 .. w + k
        /\ DOMAIN wire = 1 .. w /\ DOMAIN cut = 1 .. k
    BY <1>6, <2>1, <2>2, <2>3, <2>4
  <2>6. \A j \in 1 .. w : j \in 1 .. w + k /\ wire'[j] = wire[j]
    BY <2>1, <2>2, <2>4
  <2>7. \A j \in (1 .. w + k) \ (1 .. w) :
          j - w \in 1 .. k /\ wire'[j] = pieces[j - w]
    <3> SUFFICES ASSUME NEW j \in (1 .. w + k) \ (1 .. w)
                 PROVE  j - w \in 1 .. k /\ wire'[j] = pieces[j - w]
      OBVIOUS
    <3>1. j - w \in 1 .. k /\ j \in w + 1 .. w + k
      BY <2>4
    <3> QED BY <1>6, <2>2, <2>4, <3>1
  <2> QED BY <2>4, <2>5, <2>6, <2>7
<1>11. ASSUME NEW i \in DOMAIN sent' PROVE Accounted(i)'
  <2>1. CASE i = n
    <3>1. Len(wire) + 1 \in DOMAIN wire'
      BY <1>4, <1>9
    <3>2. wire'[Len(wire) + 1] = pieces[1]
      BY <1>9, <3>1
    <3>3. pieces[1] = <<n, cut[1]>>
      BY <1>2, <1>4
    <3> QED BY <1>4, <2>1, <3>1, <3>2, <3>3 DEF Accounted, Waits
  <2>2. CASE i # n
    <3>1. i \in DOMAIN sent
      BY <1>1, <1>5, <2>2
    <3>2. Accounted(i) /\ sent'[i] = sent[i]
      BY <1>5, <3>1 DEF SensorInv
    <3> QED BY <1>3, <1>9, <3>2 DEF Accounted, Waits, Reported
  <2> QED BY <2>1, <2>2
<1>12. ASSUME NEW a \in alerts' PROVE Justified(a)'
  <2>1. Justified(a)
    BY <1>3 DEF SensorInv
  <2> QED BY <1>5, <2>1 DEF Justified
<1> QED BY <1>5, <1>8, <1>11, <1>12 DEF SensorInv

\* A segment accounts for every message that starts in it.
LEMMA SniffStep ==
    ASSUME SensorInv, NEW k \in 1 .. Len(wire), Sniff(k)
    PROVE  SensorInv'
<1>1. PICK segment : segment = SubSeq(wire, 1, k)
  OBVIOUS
<1>2. PICK n, p : n = segment[1][1] /\ p = segment[1][2]
  OBVIOUS
<1>3. /\ alerts' = alerts \cup ({n} \X {p} \X Raised(sent[n], p))
      /\ unseen' = unseen \cup
           { segment[i][1] : i \in { j \in 1 .. k :
               segment[j][2] = "stub" \/ (j > 1 /\ segment[j][2] = "open") } }
      /\ wire' = SubSeq(wire, k + 1, Len(wire))
      /\ sent' = sent
  BY <1>1, <1>2 DEF Sniff, Viewed
<1>4. /\ sent \in Seq(Messages) /\ wire \in Seq((DOMAIN sent) \X Parts)
      /\ Len(wire) \in Nat /\ DOMAIN wire = 1 .. Len(wire) /\ k \in Nat
  BY DEF SensorInv
<1>5. \A j \in 1 .. k : segment[j] = wire[j] /\ j \in DOMAIN wire
  BY <1>1, <1>4
<1>6. /\ wire' \in Seq((DOMAIN sent) \X Parts) /\ Len(wire') = Len(wire) - k
      /\ \A j \in DOMAIN wire' : k + j \in DOMAIN wire /\ wire'[j] = wire[k + j]
      /\ \A j \in DOMAIN wire : j > k => j - k \in DOMAIN wire'
                                       /\ wire'[j - k] = wire[j]
  <2>0. k \in 0 .. Len(wire)
    BY <1>4
  <2>1. /\ wire' \in Seq((DOMAIN sent) \X Parts) /\ Len(wire') = Len(wire) - k
        /\ \A j \in 1 .. Len(wire) - k : wire'[j] = wire[k + j]
    <3>1. PICK S : S = (DOMAIN sent) \X Parts
      OBVIOUS
    <3>2. wire \in Seq(S)
      BY <1>4, <3>1
    <3> QED BY <1>3, <2>0, <3>1, <3>2, RestOf
  <2>2. DOMAIN wire' = 1 .. Len(wire) - k
    BY <2>1
  <2>3. \A j \in 1 .. Len(wire) - k : k + j \in DOMAIN wire
    BY <1>4
  <2>4. ASSUME NEW j \in DOMAIN wire, j > k
        PROVE  j - k \in DOMAIN wire' /\ wire'[j - k] = wire[j]
    <3>1. j - k \in 1 .. Len(wire) - k /\ k + (j - k) = j
      BY <1>4, <2>4
    <3> QED BY <2>1, <2>2, <3>1
  <2> QED BY <2>1, <2>2, <2>3, <2>4
<1>7. /\ wire[1] = segment[1] /\ wire[1] \in (DOMAIN sent) \X Parts /\ 1 \in DOMAIN wire
      /\ n \in DOMAIN sent /\ p \in Parts /\ sent[n] \in Messages
      /\ wire[1][1] = n /\ wire[1][2] = p
  <2>1. 1 \in 1 .. k
    BY <1>4
  <2>2. wire[1] = segment[1] /\ 1 \in DOMAIN wire
    BY <1>5, <2>1
  <2>3. wire[1] \in (DOMAIN sent) \X Parts
    BY <1>4, <2>2
  <2>4. n \in DOMAIN sent /\ p \in Parts
    BY <1>2, <2>2, <2>3
  <2> QED BY <1>2, <1>4, <2>2, <2>3, <2>4
<1>9. ASSUME NEW i \in DOMAIN sent' PROVE Accounted(i)'
  <2>1. Accounted(i) /\ sent'[i] = sent[i]
    BY <1>3, <1>9 DEF SensorInv
  <2>2. CASE i \in unseen \/ Reported(i)
    <3>1. unseen \subseteq unseen' /\ alerts \subseteq alerts'
      BY <1>3
    <3> QED BY <2>1, <2>2, <3>1 DEF Accounted, Reported
  <2>3. CASE Waits(i)
    <3>1. PICK j \in DOMAIN wire : wire[j] = <<i, "open">> \/ wire[j] = <<i, "stub">>
      BY <2>3 DEF Waits
    <3>2. CASE j > k
      <4>1. j - k \in DOMAIN wire' /\ wire'[j - k] = wire[j]
        BY <1>6, <3>2
      <4> QED BY <3>1, <4>1 DEF Accounted, Waits
    <3>3. CASE j \in 1 .. k /\ (wire[j][2] = "stub" \/ j > 1)
      <4>1. segment[j] = wire[j] /\ segment[j][1] = i
        BY <1>5, <3>1, <3>3
      <4>2. segment[j][1] \in unseen'
        BY <1>3, <3>1, <3>3, <4>1
      <4> QED BY <3>1, <4>1, <4>2 DEF Accounted
    <3>4. CASE j = 1 /\ wire[j][2] = "open"
      <4>1. i = n /\ p = "open"
        BY <1>7, <3>1, <3>4
      <4>2. Deserved(sent[n]) \subseteq Raised(sent[n], p)
        BY <1>7, <4>1, OpenRaisesDeserved
      <4>3. Reported(i)'
        BY <1>3, <2>1, <4>1, <4>2 DEF Reported
      <4> QED BY <4>3 DEF Accounted
    <3>5. j > k \/ j \in 1 .. k
      BY <1>4
    <3>6. j \in 1 .. k => j > 1 \/ j = 1
      BY <1>4
    <3>7. wire[j][2] = "open" \/ wire[j][2] = "stub"
      BY <3>1
    <3> QED BY <3>2, <3>3, <3>4, <3>5, <3>6, <3>7
  <2> QED BY <2>1, <2>2, <2>3 DEF Accounted
<1>10. ASSUME NEW a \in alerts' PROVE Justified(a)'
  <2>1. CASE a \in alerts
    <3>1. Justified(a)
      BY <2>1 DEF SensorInv
    <3> QED BY <1>3, <3>1 DEF Justified
  <2>2. CASE a \in {n} \X {p} \X Raised(sent[n], p)
    <3>1. a[1] = n /\ a[2] = p /\ a[3] \in Raised(sent[n], p)
      BY <2>2
    <3>2. Earned(sent[n], a[2], a[3])
      BY <1>7, <3>1, RaisedIsEarned
    <3> QED BY <1>3, <1>7, <3>1, <3>2 DEF Justified
  <2> QED BY <1>3, <2>1, <2>2
<1> QED BY <1>3, <1>4, <1>6, <1>9, <1>10 DEF SensorInv

LEMMA SensorInvariant == SensorSpec => []SensorInv
<1>1. SensorInit => SensorInv
  <2> SUFFICES ASSUME SensorInit PROVE SensorInv
    OBVIOUS
  <2>1. sent = <<>> /\ wire = <<>> /\ alerts = {}
    BY DEF SensorInit
  <2>2. DOMAIN sent = {} /\ DOMAIN wire = {}
    BY <2>1
  <2>3. sent \in Seq(Messages) /\ wire \in Seq((DOMAIN sent) \X Parts)
    BY <2>1
  <2> QED BY <2>1, <2>2, <2>3 DEF SensorInv
<1>2. SensorInv /\ [SensorNext]_sensorVars => SensorInv'
  <2> SUFFICES ASSUME SensorInv, [SensorNext]_sensorVars PROVE SensorInv'
    OBVIOUS
  <2>1. CASE \E m \in Messages : \E cut \in Cuts(m) : SendMessage(m, cut)
    BY <2>1, SendMessageStep
  <2>2. CASE \E k \in 1 .. Len(wire) : Sniff(k)
    BY <2>2, SniffStep
  <2>3. CASE UNCHANGED sensorVars
    BY <2>3 DEF sensorVars, SensorInv, Accounted, Waits, Reported, Justified
  <2> QED BY <2>1, <2>2, <2>3 DEF SensorNext
<1> QED BY <1>1, <1>2, PTL DEF SensorSpec

\* A message whose code starts a segment raises all it deserves, whatever the
\* packing: the process_packet functions keep no state between segments.
THEOREM StartedIsReported == SensorSpec => []MissedIsUnseen
<1>1. SensorInv => MissedIsUnseen
  BY DEF SensorInv, Accounted, MissedIsUnseen
<1> QED BY <1>1, SensorInvariant, PTL

\* Every alert is what the octets it was read from deserve, and these start a
\* message, repeat its header (otdpi/dnp3.py:57-62, otdpi/opcua.py:78-119) or
\* pass for a start (modbus_anomaly.py:39-43 asks for eight octets only).
THEOREM AlertsAreJustified == SensorSpec => []AlertsAreDeserved
<1>1. SensorInv => AlertsAreDeserved
  BY DEF SensorInv, Justified, AlertsAreDeserved
<1> QED BY <1>1, SensorInvariant, PTL

-----------------------------------------------------------------------------
(* The Modbus error window.                                               *)

\* The list against the history of the window: behind the last alert, at L, it
\* holds the ages of the window's exceptions, and before them c old ones.
Counting(L, c) ==
    /\ L = 0 \/ scan[L].alarm
    /\ \A i \in DOMAIN scan : i > L => ~scan[i].alarm
    /\ Len(error_tracker) = c + (Len(scan) - L)
    /\ \A i \in 1 .. c : error_tracker[i] = WINDOW_SECONDS
    /\ \A i \in 1 .. Len(scan) - L : error_tracker[c + i] = scan[L + i].age
    /\ Len(scan) - L < ERROR_THRESHOLD

Spaced ==
    \A i, j \in DOMAIN scan :
        i < j /\ scan[i].alarm /\ scan[j].alarm => j - i >= ERROR_THRESHOLD

BruteInv ==
    /\ error_tracker \in Seq(0 .. WINDOW_SECONDS)
    /\ scan \in Seq([age : 0 .. WINDOW_SECONDS - 1, alarm : BOOLEAN])
    /\ \A i, j \in DOMAIN scan : i <= j => scan[j].age <= scan[i].age
    /\ \E L \in 0 .. Len(scan), c \in 0 .. Len(error_tracker) : Counting(L, c)
    /\ Spaced

\* An exception finds exactly those after the last alert in the list.
LEMMA ExceptionStep == ASSUME BruteInv, ExceptionSeen PROVE BruteInv'
<1>1. PICK W, R : W = WINDOW_SECONDS /\ R = [age : 0 .. W - 1, alarm : BOOLEAN]
  OBVIOUS
<1>2. PICK n, t : n = Len(scan) /\ t = Len(error_tracker)
  OBVIOUS
<1>3. /\ W \in Nat /\ W >= 1 /\ ERROR_THRESHOLD \in Nat /\ ERROR_THRESHOLD >= 1
      /\ error_tracker \in Seq(0 .. W) /\ scan \in Seq(R)
      /\ n \in Nat /\ t \in Nat /\ DOMAIN scan = 1 .. n /\ DOMAIN error_tracker = 1 .. t
  BY <1>1, <1>2, WindowAssumption DEF BruteInv
<1>4. PICK L \in 0 .. n, c \in 0 .. t : Counting(L, c)
  BY <1>2 DEF BruteInv
<1>5. /\ L = 0 \/ scan[L].alarm
      /\ \A i \in 1 .. n : i > L => ~scan[i].alarm
      /\ t = c + (n - L)
      /\ \A i \in 1 .. c : error_tracker[i] = W
      /\ \A i \in 1 .. n - L : error_tracker[c + i] = scan[L + i].age
      /\ n - L < ERROR_THRESHOLD
  BY <1>1, <1>2, <1>3, <1>4 DEF Counting
<1>6. PICK seen : seen = Append(error_tracker, 0)
  OBVIOUS
<1>7. /\ seen \in Seq(0 .. W) /\ Len(seen) = t + 1 /\ DOMAIN seen = 1 .. t + 1
      /\ \A i \in 1 .. t : seen[i] = error_tracker[i]
      /\ seen[t + 1] = 0
  BY <1>2, <1>3, <1>6
<1>8. \A i \in 1 .. n : scan[i].age \in 0 .. W - 1
  <2>1. \A i \in 1 .. n : scan[i] \in R
    BY <1>3
  <2> QED BY <1>1, <2>1
<1>9. Forgotten(seen) = 1 .. c
  <2>1. ASSUME NEW i \in 1 .. c PROVE i \in DOMAIN seen /\ ~InWindow(seen[i])
    <3>1. i \in 1 .. t /\ seen[i] = W
      BY <1>5, <1>7
    <3> QED BY <1>1, <1>3, <1>7, <3>1 DEF InWindow
  <2>2. ASSUME NEW i \in 1 .. t + 1, i > c PROVE InWindow(seen[i])
    <3>1. CASE i = t + 1
      BY <1>1, <1>3, <1>7, <3>1 DEF InWindow
    <3>2. CASE i \in 1 .. t
      <4>1. i - c \in 1 .. n - L /\ c + (i - c) = i /\ L + (i - c) \in 1 .. n
        BY <1>3, <1>5, <2>2, <3>2
      <4>2. seen[i] = scan[L + (i - c)].age
        BY <1>5, <1>7, <3>2, <4>1
      <4>3. seen[i] \in 0 .. W - 1
        BY <1>8, <4>1, <4>2
      <4> QED BY <1>1, <1>3, <4>3 DEF InWindow
    <3> QED BY <1>3, <3>1, <3>2
  <2> QED BY <1>3, <1>7, <2>1, <2>2 DEF Forgotten
<1>10. PICK kept : kept = Pruned(seen, Forgotten(seen))
  OBVIOUS
<1>11. /\ kept \in Seq(0 .. W) /\ Len(kept) = n - L + 1
       /\ \A i \in 1 .. n - L + 1 : kept[i] = seen[c + i]
  <2>0. PICK X : X = Forgotten(seen)
    OBVIOUS
  <2>1. /\ X \subseteq DOMAIN seen
        /\ \A i, j \in DOMAIN seen : i <= j /\ j \in X => i \in X
    BY <1>3, <1>7, <1>9, <2>0
  <2>2. PICK d \in 0 .. Len(seen) :
           /\ X = 1 .. d
           /\ Pruned(seen, X) \in Seq(0 .. W)
           /\ RestBehind(Pruned(seen, X), seen, d)
    <3>1. seen \in Seq(0 .. W) /\ X \subseteq DOMAIN seen
      BY <1>7, <2>1
    <3>2. \A i, j \in DOMAIN seen : i <= j /\ j \in X => i \in X
      BY <2>1
    <3> QED BY ONLY <3>1, <3>2, PrunedIsRest
  <2>3. d = c
    <3>1. d \in Nat /\ c \in Nat /\ 1 .. d = 1 .. c
      BY <1>3, <1>7, <1>9, <2>0, <2>2
    <3> QED BY <3>1
  <2> QED BY SMTT(60), <1>3, <1>5, <1>7, <1>10, <2>0, <2>2, <2>3 DEF RestBehind
<1>12. PICK new : new = [age |-> 0, alarm |-> Alarmed(kept)]
  OBVIOUS
<1>13. error_tracker' = Tracked(kept) /\ scan' = Append(scan, new)
  BY <1>6, <1>10, <1>12 DEF ExceptionSeen
<1>14. Alarmed(kept) \in BOOLEAN /\ (Alarmed(kept) <=> n - L + 1 >= ERROR_THRESHOLD)
  BY <1>11 DEF Alarmed
<1>15. new \in R /\ new.age = 0 /\ (new.alarm <=> n - L + 1 >= ERROR_THRESHOLD)
  BY <1>1, <1>3, <1>12, <1>14
<1>16. /\ scan' \in Seq(R) /\ Len(scan') = n + 1 /\ DOMAIN scan' = 1 .. n + 1
       /\ \A i \in 1 .. n : scan'[i] = scan[i]
       /\ scan'[n + 1] = new
  BY <1>2, <1>3, <1>13, <1>15
<1>17. \A i, j \in DOMAIN scan' : i <= j => scan'[j].age <= scan'[i].age
  <2> SUFFICES ASSUME NEW i \in 1 .. n + 1, NEW j \in 1 .. n + 1, i <= j
               PROVE  scan'[j].age <= scan'[i].age
    BY <1>16
  <2>1. CASE j = n + 1
    <3>0. scan'[i] \in R
      BY <1>16
    <3>1. scan'[i].age \in 0 .. W - 1
      BY <1>1, <3>0
    <3> QED BY <1>15, <1>16, <2>1, <3>1
  <2>2. CASE j \in 1 .. n
    <3>1. i \in 1 .. n
      BY <1>3, <2>2
    <3> QED BY <1>3, <1>16, <2>2, <3>1 DEF BruteInv
  <2> QED BY <1>3, <2>1, <2>2
<1>18. Spaced'
  <2> SUFFICES ASSUME NEW i \in 1 .. n + 1, NEW j \in 1 .. n + 1,
                      i < j, scan'[i].alarm, scan'[j].alarm
               PROVE  j - i >= ERROR_THRESHOLD
    BY <1>16 DEF Spaced
  <2>1. i \in 1 .. n /\ scan[i].alarm
    BY <1>3, <1>16
  <2>2. CASE j = n + 1
    <3>1. i <= L
      BY <1>3, <1>5, <2>1
    <3>2. n - L + 1 >= ERROR_THRESHOLD
      BY <1>15, <1>16, <2>2
    <3> QED BY <1>3, <2>1, <2>2, <3>1, <3>2
  <2>3. CASE j \in 1 .. n
    BY <1>3, <1>16, <2>1, <2>3 DEF BruteInv, Spaced
  <2> QED BY <1>3, <2>2, <2>3
<1>19. /\ error_tracker' \in Seq(0 .. W)
       /\ \E l \in 0 .. Len(scan'), e \in 0 .. Len(error_tracker') : Counting(l, e)'
  <2>1. CASE n - L + 1 >= ERROR_THRESHOLD
    <3>1. error_tracker' = <<>>
      BY <1>11, <1>13, <2>1 DEF Tracked
    <3>2. <<>> \in Seq(0 .. W) /\ Len(error_tracker') = 0
      BY <3>1
    <3>3. Counting(n + 1, 0)'
      BY <1>3, <1>15, <1>16, <2>1, <3>1, <3>2 DEF Counting
    <3> QED BY <1>3, <1>16, <3>1, <3>2, <3>3
  <2>2. CASE n - L + 1 < ERROR_THRESHOLD
    <3>1. error_tracker' = kept
      BY <1>3, <1>11, <1>13, <2>2 DEF Tracked
    <3>2. ~new.alarm
      BY <1>3, <1>15, <2>2
    <3>3. L = 0 \/ scan'[L].alarm
      BY <1>3, <1>5, <1>16
    <3>4. \A i \in DOMAIN scan' : i > L => ~scan'[i].alarm
      BY <1>3, <1>5, <1>16, <3>2
    <3>5. ASSUME NEW i \in 1 .. (n + 1) - L PROVE kept[0 + i] = scan'[L + i].age
      <4>0. i \in 1 .. n - L + 1
        BY <1>3, <3>5
      <4>1. kept[0 + i] = seen[c + i]
        BY <1>3, <1>11, <4>0
      <4>2. CASE i = n - L + 1
        <5>1. c + i = t + 1 /\ L + i = n + 1
          BY <1>3, <1>5, <4>2
        <5> QED BY <1>7, <1>15, <1>16, <4>1, <5>1
      <4>3. CASE i \in 1 .. n - L
        <5>1. c + i \in 1 .. t /\ L + i \in 1 .. n
          BY <1>3, <1>4, <1>5, <4>3
        <5>2. error_tracker[c + i] = scan[L + i].age
          BY <1>5, <4>3
        <5> QED BY <1>7, <1>16, <4>1, <5>1, <5>2
      <4> QED BY <1>3, <4>0, <4>2, <4>3
    <3>6. Len(error_tracker') = 0 + (Len(scan') - L) /\ Len(scan') - L < ERROR_THRESHOLD
      BY <1>3, <1>11, <1>16, <2>2, <3>1
    <3>7. Counting(L, 0)'
      BY <1>16, <3>1, <3>3, <3>4, <3>5, <3>6 DEF Counting
    <3> QED BY <1>3, <1>11, <1>16, <3>1, <3>6, <3>7
  <2> QED BY <1>3, <2>1, <2>2
<1> QED BY <1>1, <1>16, <1>17, <1>18, <1>19 DEF BruteInv

\* Time drops from the history what the list keeps as too old.
LEMMA BruteTickStep == ASSUME BruteInv, BruteTick PROVE BruteInv'
<1>1. PICK W, R, R1 : /\ W = WINDOW_SECONDS
                      /\ R = [age : 0 .. W - 1, alarm : BOOLEAN]
                      /\ R1 = [age : 0 .. W, alarm : BOOLEAN]
  OBVIOUS
<1>2. PICK n, t : n = Len(scan) /\ t = Len(error_tracker)
  OBVIOUS
<1>3. /\ W \in Nat /\ W >= 1 /\ ERROR_THRESHOLD \in Nat /\ ERROR_THRESHOLD >= 1
      /\ error_tracker \in Seq(0 .. W) /\ scan \in Seq(R)
      /\ n \in Nat /\ t \in Nat /\ DOMAIN scan = 1 .. n /\ DOMAIN error_tracker = 1 .. t
  BY <1>1, <1>2, WindowAssumption DEF BruteInv
<1>4. PICK L \in 0 .. n, c \in 0 .. t : Counting(L, c)
  BY <1>2 DEF BruteInv
<1>5. /\ L = 0 \/ scan[L].alarm
      /\ \A i \in 1 .. n : i > L => ~scan[i].alarm
      /\ t = c + (n - L)
      /\ \A i \in 1 .. c : error_tracker[i] = W
      /\ \A i \in 1 .. n - L : error_tracker[c + i] = scan[L + i].age
      /\ n - L < ERROR_THRESHOLD
  BY <1>1, <1>2, <1>3, <1>4 DEF Counting
<1>6. PICK aged : aged = [i \in DOMAIN scan |-> [scan[i] EXCEPT !.age = @ + 1]]
  OBVIOUS
<1>7. PICK X : X = { i \in DOMAIN aged : ~InWindow(aged[i].age) }
  OBVIOUS
<1>8. ASSUME NEW i \in 1 .. n
      PROVE  /\ aged[i] \in R1 /\ scan[i].age \in 0 .. W - 1
             /\ aged[i].age = scan[i].age + 1 /\ aged[i].alarm = scan[i].alarm
  <2>1. scan[i] \in R
    BY <1>3
  <2>2. scan[i].age \in 0 .. W - 1 /\ scan[i].alarm \in BOOLEAN
    BY <1>1, <2>1
  <2>3. aged[i] = [age |-> scan[i].age + 1, alarm |-> scan[i].alarm]
    BY <1>1, <1>3, <1>6, <2>1
  <2>4. scan[i].age + 1 \in 0 .. W
    BY <1>3, <2>2
  <2> QED BY <1>1, <2>2, <2>3, <2>4
<1>9. aged \in Seq(R1) /\ Len(aged) = n /\ DOMAIN aged = 1 .. n
  <2>1. aged \in [1 .. n -> R1]
    BY <1>3, <1>6, <1>8
  <2> QED BY <1>3, <2>1
<1>10. \A i, j \in 1 .. n : i <= j => aged[j].age <= aged[i].age
  <2> SUFFICES ASSUME NEW i \in 1 .. n, NEW j \in 1 .. n, i <= j
               PROVE  aged[j].age <= aged[i].age
    OBVIOUS
  <2>1. scan[j].age <= scan[i].age
    BY <1>3 DEF BruteInv
  <2>2. /\ scan[i].age \in 0 .. W - 1 /\ aged[i].age = scan[i].age + 1
        /\ scan[j].age \in 0 .. W - 1 /\ aged[j].age = scan[j].age + 1
    BY <1>8
  <2> QED BY <1>3, <2>1, <2>2
<1>11. \A i \in 1 .. n : i \in X <=> aged[i].age = W
  <2> SUFFICES ASSUME NEW i \in 1 .. n PROVE i \in X <=> aged[i].age = W
    OBVIOUS
  <2>1. aged[i].age \in 0 .. W
    BY SMTT(60), <1>3, <1>8
  <2> QED BY <1>1, <1>3, <1>7, <1>9, <2>1 DEF InWindow
<1>12. PICK d \in 0 .. Len(aged) :
         /\ X = 1 .. d
         /\ Pruned(aged, X) \in Seq(R1)
         /\ Len(Pruned(aged, X)) = Len(aged) - d
         /\ \A i \in 1 .. Len(aged) - d : Pruned(aged, X)[i] = aged[d + i]
  <2>1. aged \in Seq(R1) /\ X \subseteq DOMAIN aged
    BY <1>7, <1>9
  <2>2. \A i, j \in DOMAIN aged : i <= j /\ j \in X => i \in X
    <3> SUFFICES ASSUME NEW i \in 1 .. n, NEW j \in 1 .. n, i <= j, j \in X
                 PROVE  i \in X
      BY <1>9
    <3>1. aged[j].age = W /\ aged[j].age <= aged[i].age
      BY <1>10, <1>11
    <3>2. aged[i].age \in 0 .. W
      BY SMTT(60), <1>3, <1>8
    <3> QED BY <1>3, <1>11, <3>1, <3>2
  <2>3. \E d \in 0 .. Len(aged) :
          /\ X = 1 .. d
          /\ Pruned(aged, X) \in Seq(R1)
          /\ RestBehind(Pruned(aged, X), aged, d)
    BY ONLY <2>1, <2>2, PrunedIsRest
  <2> QED BY <2>3 DEF RestBehind
<1>13. d \in 0 .. n
  BY <1>9, <1>12
<1>14. /\ scan' = Pruned(aged, X)
       /\ error_tracker' = [i \in DOMAIN error_tracker |->
            IF InWindow(error_tracker[i]) THEN error_tracker[i] + 1 ELSE error_tracker[i]]
  BY <1>6, <1>7 DEF BruteTick
<1>15. /\ scan' \in Seq(R1) /\ Len(scan') = n - d /\ DOMAIN scan' = 1 .. n - d
       /\ \A i \in 1 .. n - d : scan'[i] = aged[d + i] /\ d + i \in 1 .. n
  BY <1>3, <1>9, <1>12, <1>13, <1>14
<1>16. ASSUME NEW i \in 1 .. n - d PROVE scan'[i] \in R
  <2>1. d + i \in 1 .. n /\ d + i \notin 1 .. d
    BY <1>3, <1>13
  <2>2. aged[d + i].age # W /\ aged[d + i] \in R1
    BY <1>8, <1>11, <1>12, <2>1
  <2>3. PICK e : e = aged[d + i]
    OBVIOUS
  <2>4. e \in R1 /\ e.age # W
    BY <2>2, <2>3
  <2>5. e \in R
    BY <1>1, <1>3, <2>4
  <2> QED BY <1>15, <2>3, <2>5
<1>17. scan' \in Seq(R)
  <2>1. scan' \in [1 .. n - d -> R] /\ n - d \in Nat
    BY <1>3, <1>13, <1>15, <1>16
  <2> QED BY <2>1
<1>18. ASSUME NEW i \in 1 .. t
       PROVE  error_tracker'[i] = IF error_tracker[i] = W THEN W ELSE error_tracker[i] + 1
  <2>1. error_tracker[i] \in 0 .. W
    BY <1>3
  <2> QED BY <1>1, <1>3, <1>14, <2>1 DEF InWindow
<1>19. error_tracker' \in Seq(0 .. W) /\ Len(error_tracker') = t
  <2>1. \A i \in 1 .. t : error_tracker'[i] \in 0 .. W
    <3> SUFFICES ASSUME NEW i \in 1 .. t PROVE error_tracker'[i] \in 0 .. W
      OBVIOUS
    <3>1. error_tracker[i] \in 0 .. W
      BY <1>3
    <3> QED BY SMTT(60), <1>3, <1>18, <3>1
  <2>2. error_tracker' \in [1 .. t -> 0 .. W]
    BY <1>3, <1>14, <2>1
  <2> QED BY <1>3, <2>2
<1>20. \A i, j \in DOMAIN scan' : i <= j => scan'[j].age <= scan'[i].age
  <2> SUFFICES ASSUME NEW i \in 1 .. n - d, NEW j \in 1 .. n - d, i <= j
               PROVE  scan'[j].age <= scan'[i].age
    BY <1>15
  <2>1. d + i \in 1 .. n /\ d + j \in 1 .. n /\ d + i <= d + j
    BY <1>3, <1>13
  <2>2. scan'[i] = aged[d + i] /\ scan'[j] = aged[d + j]
    BY <1>15
  <2> QED BY <1>10, <2>1, <2>2
<1>21. \A i \in 1 .. n - d : scan'[i].alarm = scan[d + i].alarm
  BY <1>8, <1>15
<1>22. Spaced'
  <2> SUFFICES ASSUME NEW i \in 1 .. n - d, NEW j \in 1 .. n - d,
                      i < j, scan'[i].alarm, scan'[j].alarm
               PROVE  j - i >= ERROR_THRESHOLD
    BY <1>15 DEF Spaced
  <2>1. d + i \in DOMAIN scan /\ d + j \in DOMAIN scan /\ d + i < d + j
    BY <1>3, <1>13, <1>15
  <2>2. scan[d + i].alarm /\ scan[d + j].alarm
    BY <1>21
  <2>3. (d + j) - (d + i) >= ERROR_THRESHOLD
    BY <2>1, <2>2 DEF BruteInv, Spaced
  <2> QED BY <1>3, <1>13, <2>3

\* What the list holds of the exceptions behind the last alert.
<1>23. ASSUME NEW i \in 1 .. n - L
       PROVE  error_tracker'[c + i] = aged[L + i].age
  <2>1. c + i \in 1 .. t /\ L + i \in 1 .. n
    BY <1>3, <1>4, <1>5
  <2>2. error_tracker[c + i] = scan[L + i].age
    BY <1>5
  <2>3. scan[L + i].age \in 0 .. W - 1 /\ aged[L + i].age = scan[L + i].age + 1
    BY <1>8, <2>1
  <2>4. PICK k : k = c + i
    OBVIOUS
  <2>5. error_tracker'[k] = IF error_tracker[k] = W THEN W ELSE error_tracker[k] + 1
    BY <1>18, <2>1, <2>4
  <2> QED BY SMTT(60), <1>3, <2>2, <2>3, <2>4, <2>5
<1>24. \E l \in 0 .. Len(scan'), e \in 0 .. Len(error_tracker') : Counting(l, e)'
  <2>1. CASE d <= L
    <3>1. L - d = 0 \/ scan'[L - d].alarm
      <4> SUFFICES ASSUME L - d # 0 PROVE scan'[L - d].alarm
        OBVIOUS
      <4>1. L - d \in 1 .. n - d /\ d + (L - d) = L /\ L # 0
        BY <1>3, <1>4, <1>13, <2>1
      <4> QED BY <1>5, <1>21, <4>1
    <3>2. ASSUME NEW i \in DOMAIN scan', i > L - d PROVE ~scan'[i].alarm
      <4>1. i \in 1 .. n - d /\ d + i \in 1 .. n /\ d + i > L
        BY <1>3, <1>4, <1>13, <1>15, <3>2
      <4> QED BY <1>5, <1>21, <4>1
    <3>3. /\ Len(error_tracker') = c + (Len(scan') - (L - d))
          /\ Len(scan') - (L - d) < ERROR_THRESHOLD
          /\ Len(scan') - (L - d) = n - L
      BY <1>3, <1>4, <1>5, <1>13, <1>15, <1>19
    <3>4. ASSUME NEW i \in 1 .. c PROVE error_tracker'[i] = W
      <4>1. i \in 1 .. t
        BY <1>4, <1>3
      <4> QED BY <1>5, <1>18, <4>1
    <3>5. ASSUME NEW i \in 1 .. n - L
          PROVE  error_tracker'[c + i] = scan'[(L - d) + i].age
      <4>1. (L - d) + i \in 1 .. n - d /\ d + ((L - d) + i) = L + i
        BY <1>3, <1>4, <1>13, <2>1
      <4> QED BY <1>15, <1>23, <4>1
    <3>6. Counting(L - d, c)'
      BY <1>1, <3>1, <3>2, <3>3, <3>4, <3>5 DEF Counting
    <3>7. L - d \in 0 .. Len(scan') /\ c \in 0 .. Len(error_tracker')
      BY <1>3, <1>4, <1>13, <1>15, <1>19, <2>1
    <3> QED BY <3>6, <3>7
  <2>2. CASE d > L
    <3>1. PICK e : e = c + (d - L)
      OBVIOUS
    <3>2. e \in 0 .. t /\ e \in Nat /\ c \in Nat /\ L \in Nat
      <4>1. /\ c \in Nat /\ L \in Nat /\ d \in Nat /\ n \in Nat /\ t \in Nat
            /\ d <= n /\ t = c + (n - L) /\ d > L
        BY <1>3, <1>4, <1>5, <1>13, <2>2
      <4> QED BY <3>1, <4>1
    <3>3. ASSUME NEW i \in DOMAIN scan' PROVE ~scan'[i].alarm
      <4>1. i \in 1 .. n - d /\ d + i \in 1 .. n /\ d + i > L
        BY <1>3, <1>4, <1>13, <1>15, <2>2
      <4> QED BY <1>5, <1>21, <4>1
    <3>4. /\ Len(error_tracker') = e + (Len(scan') - 0)
          /\ Len(scan') - 0 < ERROR_THRESHOLD
          /\ Len(scan') - 0 = n - d
      <4>1. /\ c \in Nat /\ L \in Nat /\ d \in Nat /\ n \in Nat /\ t \in Nat
            /\ d <= n /\ t = c + (n - L) /\ d > L /\ n - L < ERROR_THRESHOLD
        BY <1>3, <1>4, <1>5, <1>13, <2>2
      <4>2. Len(error_tracker') = t /\ Len(scan') = n - d /\ ERROR_THRESHOLD \in Nat
        BY <1>3, <1>15, <1>19
      <4> QED BY <3>1, <4>1, <4>2
    <3>5. ASSUME NEW i \in 1 .. e PROVE error_tracker'[i] = W
      <4>1. CASE i <= c
        <5>1. i \in 1 .. c /\ i \in 1 .. t
          BY <1>3, <3>2, <4>1
        <5> QED BY <1>5, <1>18, <5>1
      <4>2. CASE i > c
        <5>1. i - c \in 1 .. n - L /\ c + (i - c) = i /\ L + (i - c) \in 1 .. d
              /\ L + (i - c) \in 1 .. n
          BY <1>3, <1>4, <1>13, <2>2, <3>1, <3>2, <4>2
        <5>2. error_tracker'[c + (i - c)] = aged[L + (i - c)].age
          BY <1>23, <5>1
        <5>3. aged[L + (i - c)].age = W
          BY <1>11, <1>12, <5>1
        <5> QED BY <5>1, <5>2, <5>3
      <4> QED BY <3>2, <4>1, <4>2
    <3>6. ASSUME NEW i \in 1 .. n - d PROVE error_tracker'[e + i] = scan'[0 + i].age
      <4>1. (d - L) + i \in 1 .. n - L /\ L + ((d - L) + i) = d + i
            /\ c + ((d - L) + i) = e + i /\ 0 + i = i
        BY <1>3, <1>4, <1>13, <2>2, <3>1, <3>2
      <4> QED BY <1>15, <1>23, <4>1
    <3>7. Counting(0, e)'
      BY <1>1, <3>3, <3>4, <3>5, <3>6 DEF Counting
    <3>8. 0 \in 0 .. Len(scan') /\ e \in 0 .. Len(error_tracker')
      BY <1>3, <1>13, <1>15, <1>19, <3>2
    <3> QED BY <3>7, <3>8
  <2> QED BY <1>3, <1>4, <1>13, <2>1, <2>2
<1> QED BY <1>1, <1>17, <1>19, <1>20, <1>22, <1>24 DEF BruteInv

\* A detector that remembers nothing has nothing to count.
LEMMA BruteEmpty ==
    ASSUME error_tracker = <<>>, scan = <<>>
    PROVE  BruteInv
<1>1. Len(scan) = 0 /\ Len(error_tracker) = 0 /\ DOMAIN scan = {}
  OBVIOUS
<1>2. error_tracker \in Seq(0 .. WINDOW_SECONDS)
      /\ scan \in Seq([age : 0 .. WINDOW_SECONDS - 1, alarm : BOOLEAN])
  OBVIOUS
<1>3. Counting(0, 0)
  BY <1>1, WindowAssumption DEF Counting
<1> QED BY <1>1, <1>2, <1>3 DEF BruteInv, Spaced

LEMMA BruteInvariant == BruteSpec => []BruteInv
<1>1. BruteInit => BruteInv
  BY BruteEmpty DEF BruteInit
<1>2. BruteInv /\ [BruteNext]_bruteVars => BruteInv'
  <2> SUFFICES ASSUME BruteInv, [BruteNext]_bruteVars PROVE BruteInv'
    OBVIOUS
  <2>1. CASE ExceptionSeen
    BY <2>1, ExceptionStep
  <2>2. CASE BruteTick
    BY <2>2, BruteTickStep
  <2>3. CASE BruteRestart
    <3>1. error_tracker' = <<>> /\ scan' = <<>>
      BY <2>3 DEF BruteRestart
    <3>2. Len(scan') = 0 /\ Len(error_tracker') = 0 /\ DOMAIN scan' = {}
      BY <3>1
    <3>3. error_tracker' \in Seq(0 .. WINDOW_SECONDS)
          /\ scan' \in Seq([age : 0 .. WINDOW_SECONDS - 1, alarm : BOOLEAN])
      BY <3>1
    <3>4. Counting(0, 0)'
      BY <3>2, WindowAssumption DEF Counting
    <3> QED BY <3>2, <3>3, <3>4 DEF BruteInv, Spaced
  <2>4. CASE UNCHANGED bruteVars
    BY <2>4 DEF bruteVars, BruteInv, Counting, Spaced
  <2> QED BY <2>1, <2>2, <2>3, <2>4 DEF BruteNext
<1> QED BY <1>1, <1>2, PTL DEF BruteSpec

\* For every window and threshold, a threshold of exceptions within one window
\* holds an alert, and two alerts are a threshold apart (ot_brute_force.py:47-60).
THEOREM BurstsAlertOnce == BruteSpec => []OneAlertPerBurst
<1>1. BruteInv => OneAlertPerBurst
  <2> SUFFICES ASSUME BruteInv, Len(scan) >= ERROR_THRESHOLD
               PROVE  \E i \in DOMAIN scan : scan[i].alarm
    BY DEF BruteInv, Spaced, OneAlertPerBurst
  <2>1. PICK L \in 0 .. Len(scan), c \in 0 .. Len(error_tracker) : Counting(L, c)
    BY DEF BruteInv
  <2>2. Len(scan) \in Nat /\ DOMAIN scan = 1 .. Len(scan) /\ ERROR_THRESHOLD \in Nat
    BY WindowAssumption DEF BruteInv
  <2>3. L # 0 /\ scan[L].alarm
    BY <2>1, <2>2 DEF Counting
  <2> QED BY <2>2, <2>3
<1> QED BY <1>1, BruteInvariant, PTL

-----------------------------------------------------------------------------
(* The login monitor.                                                     *)

\* The list against the failures read within the window: those, with their
\* ages, and before them c lapsed ones.
Remembers(c) ==
    /\ Len(timestamps) = c + Len(read)
    /\ \A i \in 1 .. c : timestamps[i] = LOGIN_WINDOW
    /\ \A i \in 1 .. Len(read) : timestamps[c + i] = read[i].age

\* A log that was never missing is read as soon as it is written.
ReadAtOnce ==
    ~gap => /\ handle # "none" => named
            /\ \A i \in DOMAIN unread : unread[i] = 0
            /\ \A i \in DOMAIN read : read[i].logged = read[i].age

LoginInv ==
    /\ unread \in Seq(0 .. LOGIN_WINDOW)
    /\ timestamps \in Seq(0 .. LOGIN_WINDOW)
    /\ read \in Seq([age : 0 .. LOGIN_WINDOW - 1, logged : 0 .. LOGIN_WINDOW,
                     alarm : BOOLEAN])
    /\ handle = "none" => unread = <<>>
    /\ \A i, j \in DOMAIN read : i <= j => read[j].age <= read[i].age
    /\ \E c \in 0 .. Len(timestamps) : Remembers(c)
    /\ ReadAtOnce

\* Pruning leaves the entries of the failures read within the window.
LEMMA KeptAreRead ==
    ASSUME LoginInv
    PROVE  /\ Pruned(timestamps, Lapsed(timestamps)) \in Seq(0 .. LOGIN_WINDOW)
           /\ Len(Pruned(timestamps, Lapsed(timestamps))) = Len(read)
           /\ \A i \in 1 .. Len(read) :
                Pruned(timestamps, Lapsed(timestamps))[i] = read[i].age
<1>1. PICK W, R, n, t : /\ W = LOGIN_WINDOW
                        /\ R = [age : 0 .. W - 1, logged : 0 .. W, alarm : BOOLEAN]
                        /\ n = Len(read) /\ t = Len(timestamps)
  OBVIOUS
<1>2. /\ W \in Nat /\ W >= 1 /\ timestamps \in Seq(0 .. W) /\ read \in Seq(R)
      /\ n \in Nat /\ t \in Nat /\ DOMAIN read = 1 .. n /\ DOMAIN timestamps = 1 .. t
  BY <1>1, LoginAssumption DEF LoginInv
<1>3. PICK c \in 0 .. t : Remembers(c)
  BY <1>1 DEF LoginInv
<1>4. /\ c \in Nat /\ t = c + n
      /\ \A i \in 1 .. c : timestamps[i] = W
      /\ \A i \in 1 .. n : timestamps[c + i] = read[i].age
  BY <1>1, <1>2, <1>3 DEF Remembers
<1>5. PICK X : X = Lapsed(timestamps)
  OBVIOUS
<1>6. X = 1 .. c
  <2>1. ASSUME NEW i \in 1 .. c PROVE i \in 1 .. t /\ ~Fresh(timestamps[i])
    BY <1>1, <1>2, <1>4 DEF Fresh
  <2>2. ASSUME NEW i \in 1 .. t, i > c PROVE Fresh(timestamps[i])
    <3>1. i - c \in 1 .. n /\ c + (i - c) = i
      BY <1>2, <1>4, <2>2
    <3>2. timestamps[i] = read[i - c].age /\ read[i - c] \in R
      BY <1>2, <1>4, <3>1
    <3>3. read[i - c].age \in 0 .. W - 1
      BY <1>1, <3>2
    <3> QED BY <1>1, <1>2, <3>2, <3>3 DEF Fresh
  <2> QED BY <1>2, <1>4, <1>5, <2>1, <2>2 DEF Lapsed
<1>7. PICK d \in 0 .. Len(timestamps) :
         /\ X = 1 .. d
         /\ Pruned(timestamps, X) \in Seq(0 .. W)
         /\ RestBehind(Pruned(timestamps, X), timestamps, d)
  <2>1. timestamps \in Seq(0 .. W) /\ X \subseteq DOMAIN timestamps
    BY <1>2, <1>4, <1>6
  <2>2. \A i, j \in DOMAIN timestamps : i <= j /\ j \in X => i \in X
    BY <1>2, <1>4, <1>6
  <2> QED BY ONLY <2>1, <2>2, PrunedIsRest
<1>8. d = c
  <2>1. d \in Nat /\ 1 .. d = 1 .. c
    BY <1>1, <1>2, <1>6, <1>7
  <2> QED BY <1>4, <2>1
<1>9. /\ Len(Pruned(timestamps, X)) = n
      /\ \A i \in 1 .. n : Pruned(timestamps, X)[i] = timestamps[c + i]
  BY <1>1, <1>2, <1>4, <1>7, <1>8 DEF RestBehind
<1> QED BY <1>1, <1>4, <1>5, <1>7, <1>9

\* A failure is read: what the step does, with the list in full.
LEMMA ReadFailureStep ==
    ASSUME LoginInv, ReadFailure
    PROVE  /\ LoginInv'
           /\ read'[Len(read')].alarm => Len(read') >= LOGIN_THRESHOLD
<1>1. PICK W, R, n : /\ W = LOGIN_WINDOW
                     /\ R = [age : 0 .. W - 1, logged : 0 .. W, alarm : BOOLEAN]
                     /\ n = Len(read)
  OBVIOUS
<1>2. /\ W \in Nat /\ W >= 1 /\ read \in Seq(R) /\ LOGIN_THRESHOLD \in Nat
      /\ n \in Nat /\ DOMAIN read = 1 .. n
      /\ unread \in Seq(0 .. W)
  BY <1>1, LoginAssumption DEF LoginInv
<1>3. PICK rest : rest = Pruned(timestamps, Lapsed(timestamps))
  OBVIOUS
<1>4. /\ rest \in Seq(0 .. W) /\ Len(rest) = n
      /\ \A i \in 1 .. n : rest[i] = read[i].age
  BY <1>1, <1>3, KeptAreRead
<1>5. PICK kept : kept = Append(rest, 0)
  OBVIOUS
<1>6. /\ kept \in Seq(0 .. W) /\ Len(kept) = n + 1
      /\ \A i \in 1 .. n : kept[i] = read[i].age
      /\ kept[n + 1] = 0
  BY <1>2, <1>4, <1>5
<1>7. PICK new : new = [age |-> 0, logged |-> Head(unread),
                        alarm |-> Len(kept) >= LOGIN_THRESHOLD]
  OBVIOUS
<1>8. /\ handle # "none" /\ unread # <<>>
      /\ timestamps' = kept /\ read' = Append(read, new) /\ unread' = Tail(unread)
      /\ UNCHANGED <<named, handle, gap>>
  BY <1>3, <1>5, <1>7 DEF ReadFailure, RecordedList
<1>9. /\ Head(unread) \in 0 .. W /\ Head(unread) = unread[1] /\ 1 \in DOMAIN unread
      /\ unread' \in Seq(0 .. W)
      /\ \A i \in DOMAIN unread' : i + 1 \in DOMAIN unread /\ unread'[i] = unread[i + 1]
  BY <1>2, <1>8
<1>10. /\ new \in R /\ new.age = 0 /\ new.logged = unread[1]
       /\ new.alarm => n + 1 >= LOGIN_THRESHOLD
  <2>1. (Len(kept) >= LOGIN_THRESHOLD) \in BOOLEAN
    OBVIOUS
  <2>2. 0 \in 0 .. W - 1
    BY <1>2
  <2> QED BY <1>1, <1>6, <1>7, <1>9, <2>1, <2>2
<1>11. /\ read' \in Seq(R) /\ Len(read') = n + 1 /\ DOMAIN read' = 1 .. n + 1
       /\ \A i \in 1 .. n : read'[i] = read[i]
       /\ read'[n + 1] = new
  BY <1>1, <1>2, <1>8, <1>10
<1>12. \A i, j \in DOMAIN read' : i <= j => read'[j].age <= read'[i].age
  <2> SUFFICES ASSUME NEW i \in 1 .. n + 1, NEW j \in 1 .. n + 1, i <= j
               PROVE  read'[j].age <= read'[i].age
    BY <1>11
  <2>1. CASE j = n + 1
    <3>1. read'[i] \in R
      BY <1>11
    <3>2. read'[i].age \in 0 .. W - 1
      BY <1>1, <3>1
    <3> QED BY <1>2, <1>10, <1>11, <2>1, <3>2
  <2>2. CASE j \in 1 .. n
    <3>1. i \in 1 .. n
      BY <1>2, <2>2
    <3> QED BY <1>2, <1>11, <2>2, <3>1 DEF LoginInv
  <2> QED BY <1>2, <2>1, <2>2
<1>13. Remembers(0)' /\ 0 \in 0 .. Len(timestamps')
  <2>1. \A i \in 1 .. n + 1 : kept[0 + i] = read'[i].age
    <3> SUFFICES ASSUME NEW i \in 1 .. n + 1 PROVE kept[i] = read'[i].age
      BY <1>2
    <3>1. CASE i = n + 1
      BY <1>6, <1>10, <1>11, <3>1
    <3>2. CASE i \in 1 .. n
      BY <1>6, <1>11, <3>2
    <3> QED BY <1>2, <3>1, <3>2
  <2> QED BY <1>2, <1>6, <1>8, <1>11, <2>1 DEF Remembers
<1>14. ReadAtOnce'
  <2> SUFFICES ASSUME ~gap
               PROVE  /\ named
                      /\ \A i \in DOMAIN unread' : unread'[i] = 0
                      /\ \A i \in 1 .. n + 1 : read'[i].logged = read'[i].age
    BY <1>8, <1>11 DEF ReadAtOnce
  <2>1. /\ named /\ \A i \in DOMAIN unread : unread[i] = 0
        /\ \A i \in 1 .. n : read[i].logged = read[i].age
    BY <1>2, <1>8 DEF LoginInv, ReadAtOnce
  <2>2. new.logged = new.age
    BY <1>9, <1>10, <2>1
  <2>3. \A i \in 1 .. n + 1 : i \in 1 .. n \/ i = n + 1
    BY <1>2
  <2> QED BY <1>9, <1>11, <2>1, <2>2, <2>3
<1>15. timestamps' \in Seq(0 .. W) /\ handle' # "none"
  BY <1>6, <1>8
<1> QED BY <1>1, <1>9, <1>10, <1>11, <1>12, <1>13, <1>14, <1>15 DEF LoginInv

\* Time drops from the history what the list keeps as lapsed.
LEMMA LoginTickStep == ASSUME LoginInv, LoginTick PROVE LoginInv'
<1>1. PICK W, R, R1, n, t :
         /\ W = LOGIN_WINDOW
         /\ R = [age : 0 .. W - 1, logged : 0 .. W, alarm : BOOLEAN]
         /\ R1 = [age : 0 .. W, logged : 0 .. W, alarm : BOOLEAN]
         /\ n = Len(read) /\ t = Len(timestamps)
  OBVIOUS
<1>2. /\ W \in Nat /\ W >= 1 /\ timestamps \in Seq(0 .. W) /\ read \in Seq(R)
      /\ unread \in Seq(0 .. W)
      /\ n \in Nat /\ t \in Nat /\ DOMAIN read = 1 .. n /\ DOMAIN timestamps = 1 .. t
  BY <1>1, LoginAssumption DEF LoginInv
<1>3. PICK c \in 0 .. t : Remembers(c)
  BY <1>1 DEF LoginInv
<1>4. /\ c \in Nat /\ t = c + n
      /\ \A i \in 1 .. c : timestamps[i] = W
      /\ \A i \in 1 .. n : timestamps[c + i] = read[i].age
  <2>1. c \in Nat /\ t = c + n
    BY <1>1, <1>2, <1>3 DEF Remembers
  <2>2. \A i \in 1 .. c : timestamps[i] = W
    BY <1>1, <1>3 DEF Remembers
  <2>3. \A i \in 1 .. n : timestamps[c + i] = read[i].age
    BY <1>1, <1>3 DEF Remembers
  <2> QED BY <2>1, <2>2, <2>3
<1>5. PICK aged : aged = [i \in DOMAIN read |->
                            [read[i] EXCEPT !.age = @ + 1, !.logged = Older(@)]]
  OBVIOUS
<1>6. PICK X : X = { i \in DOMAIN aged : ~Fresh(aged[i].age) }
  OBVIOUS
<1>7. /\ named => handle # "none" /\ unread = <<>>
      /\ unread' = [i \in DOMAIN unread |-> Older(unread[i])]
      /\ timestamps' = [i \in DOMAIN timestamps |-> Older(timestamps[i])]
      /\ read' = Pruned(aged, X)
      /\ UNCHANGED <<named, handle, gap>>
  BY <1>5, <1>6 DEF LoginTick
<1>8. \A a \in 0 .. W : /\ Older(a) \in 0 .. W
                        /\ Older(a) = IF a = W THEN W ELSE a + 1
  BY <1>1, <1>2 DEF Older
<1>9. ASSUME NEW i \in 1 .. n
      PROVE  /\ aged[i] \in R1 /\ read[i].age \in 0 .. W - 1 /\ read[i].logged \in 0 .. W
             /\ aged[i].age = read[i].age + 1 /\ aged[i].logged = Older(read[i].logged)
  <2>1. read[i] \in R
    BY <1>2
  <2>2. read[i].age \in 0 .. W - 1 /\ read[i].logged \in 0 .. W /\ read[i].alarm \in BOOLEAN
    BY <1>1, <2>1
  <2>3. aged[i] = [age |-> read[i].age + 1, logged |-> Older(read[i].logged),
                   alarm |-> read[i].alarm]
    BY <1>1, <1>2, <1>5, <2>1
  <2>4. read[i].age + 1 \in 0 .. W
    BY SMTT(60), <1>2, <2>2
  <2>5. Older(read[i].logged) \in 0 .. W
    BY <1>8, <2>2, Zenon
  <2> QED BY <1>1, <2>2, <2>3, <2>4, <2>5
<1>10. aged \in Seq(R1) /\ Len(aged) = n /\ DOMAIN aged = 1 .. n
  <2>1. aged \in [1 .. n -> R1]
    BY <1>2, <1>5, <1>9
  <2> QED BY <1>2, <2>1
<1>11. \A i, j \in 1 .. n : i <= j => aged[j].age <= aged[i].age
  <2> SUFFICES ASSUME NEW i \in 1 .. n, NEW j \in 1 .. n, i <= j
               PROVE  aged[j].age <= aged[i].age
    OBVIOUS
  <2>1. read[j].age <= read[i].age
    BY <1>2 DEF LoginInv
  <2>2. /\ read[i].age \in 0 .. W - 1 /\ aged[i].age = read[i].age + 1
        /\ read[j].age \in 0 .. W - 1 /\ aged[j].age = read[j].age + 1
    BY <1>9
  <2> QED BY <1>2, <2>1, <2>2
<1>12. \A i \in 1 .. n : i \in X <=> aged[i].age = W
  <2> SUFFICES ASSUME NEW i \in 1 .. n PROVE i \in X <=> aged[i].age = W
    OBVIOUS
  <2>1. read[i].age \in 0 .. W - 1 /\ aged[i].age = read[i].age + 1
    BY <1>9
  <2>2. aged[i].age \in 0 .. W
    BY <1>2, <2>1
  <2>3. i \in X <=> ~(aged[i].age < W)
    BY <1>1, <1>6, <1>10 DEF Fresh
  <2> QED BY <1>2, <2>2, <2>3
<1>13. PICK d \in 0 .. Len(aged) :
         /\ X = 1 .. d
         /\ Pruned(aged, X) \in Seq(R1)
         /\ RestBehind(Pruned(aged, X), aged, d)
  <2>1. aged \in Seq(R1) /\ X \subseteq DOMAIN aged
    BY <1>6, <1>10
  <2>2. \A i, j \in DOMAIN aged : i <= j /\ j \in X => i \in X
    <3> SUFFICES ASSUME NEW i \in 1 .. n, NEW j \in 1 .. n, i <= j, j \in X
                 PROVE  i \in X
      BY <1>10
    <3>1. aged[j].age = W /\ aged[j].age <= aged[i].age
      BY <1>11, <1>12
    <3>2. read[i].age \in 0 .. W - 1 /\ aged[i].age = read[i].age + 1
      BY <1>9
    <3> QED BY SMTT(60), <1>2, <1>12, <3>1, <3>2
  <2> QED BY ONLY <2>1, <2>2, PrunedIsRest
<1>14. /\ d \in 0 .. n /\ read' \in Seq(R1) /\ Len(read') = n - d
       /\ DOMAIN read' = 1 .. n - d
       /\ \A i \in 1 .. n - d : read'[i] = aged[d + i] /\ d + i \in 1 .. n
  <2>1. d \in 0 .. n /\ read' \in Seq(R1) /\ Len(read') = n - d
        /\ \A i \in 1 .. n - d : read'[i] = aged[d + i]
    BY <1>7, <1>10, <1>13 DEF RestBehind
  <2>2. DOMAIN read' = 1 .. n - d
    BY <2>1
  <2> QED BY <1>2, <2>1, <2>2
<1>15. read' \in Seq(R)
  <2>1. ASSUME NEW i \in 1 .. n - d PROVE read'[i] \in R
    <3>1. d + i \in 1 .. n /\ d + i \notin 1 .. d
      BY <1>2, <1>14
    <3>2. PICK e : e = aged[d + i]
      OBVIOUS
    <3>3. e \in R1 /\ e.age # W
      BY <1>9, <1>12, <1>13, <3>1, <3>2
    <3>4. e \in R
      BY <1>1, <1>2, <3>3
    <3> QED BY <1>14, <3>2, <3>4
  <2>2. read' \in [1 .. n - d -> R] /\ n - d \in Nat
    BY <1>2, <1>14, <2>1
  <2> QED BY <2>2
<1>16. \A i, j \in DOMAIN read' : i <= j => read'[j].age <= read'[i].age
  <2> SUFFICES ASSUME NEW i \in 1 .. n - d, NEW j \in 1 .. n - d, i <= j
               PROVE  read'[j].age <= read'[i].age
    BY <1>14
  <2>1. d + i \in 1 .. n /\ d + j \in 1 .. n /\ d + i <= d + j
    BY <1>2, <1>14
  <2>2. read'[i] = aged[d + i] /\ read'[j] = aged[d + j]
    BY <1>14
  <2> QED BY <1>11, <2>1, <2>2
<1>17. /\ timestamps' \in Seq(0 .. W) /\ Len(timestamps') = t
       /\ \A i \in 1 .. t : timestamps'[i] = Older(timestamps[i])
  <2>1. \A i \in 1 .. t : timestamps[i] \in 0 .. W
    BY <1>2
  <2>2. timestamps' \in [1 .. t -> 0 .. W]
    BY <1>2, <1>7, <1>8, <2>1
  <2> QED BY <1>2, <1>7, <2>2
<1>18. PICK e : e = c + d
  OBVIOUS
<1>19. e \in 0 .. t /\ c \in Nat /\ d \in Nat /\ n \in Nat /\ t \in Nat /\ d <= n
  BY <1>2, <1>4, <1>14, <1>18
<1>20. Remembers(e)'
  <2>1. Len(timestamps') = e + Len(read')
    BY <1>4, <1>14, <1>17, <1>18, <1>19
  <2>2. ASSUME NEW i \in 1 .. e PROVE timestamps'[i] = W
    <3>1. i \in 1 .. t
      BY <1>19
    <3>2. CASE i <= c
      <4>1. timestamps[i] = W
        BY <1>4, <1>19, <3>2
      <4> QED BY <1>2, <1>8, <1>17, <3>1, <4>1
    <3>3. CASE i > c
      <4>1. i - c \in 1 .. d /\ i - c \in 1 .. n /\ c + (i - c) = i
        BY <1>18, <1>19, <3>3
      <4>2. timestamps[i] = read[i - c].age
        BY <1>4, <4>1
      <4>3. aged[i - c].age = W /\ read[i - c].age \in 0 .. W - 1
            /\ aged[i - c].age = read[i - c].age + 1
        BY <1>9, <1>12, <1>13, <4>1
      <4>4. PICK a : a = timestamps[i]
        OBVIOUS
      <4>5. a \in 0 .. W /\ a # W /\ a + 1 = W
        <5>1. PICK b : b = read[i - c].age
          OBVIOUS
        <5>2. b \in 0 .. W - 1 /\ b + 1 = W
          BY <4>3, <5>1
        <5>3. a = b
          BY <4>2, <4>4, <5>1
        <5> QED BY <1>2, <5>2, <5>3
      <4>6. Older(timestamps[i]) = W
        BY <1>8, <4>4, <4>5, Zenon
      <4> QED BY <1>17, <3>1, <4>6
    <3> QED BY <1>19, <3>2, <3>3
  <2>3. ASSUME NEW i \in 1 .. Len(read') PROVE timestamps'[e + i] = read'[i].age
    <3>1. /\ e + i \in 1 .. t /\ d + i \in 1 .. n /\ c + (d + i) = e + i
          /\ i \in 1 .. n - d
      BY <1>4, <1>14, <1>18, <1>19
    <3>2. timestamps[e + i] = read[d + i].age
      BY <1>4, <3>1
    <3>3. read[d + i].age \in 0 .. W - 1 /\ aged[d + i].age = read[d + i].age + 1
      BY <1>9, <3>1
    <3>4. PICK a : a = timestamps[e + i]
      OBVIOUS
    <3>5. a \in 0 .. W /\ a # W /\ aged[d + i].age = a + 1
      BY SMTT(60), <1>2, <3>2, <3>3, <3>4
    <3>6. Older(timestamps[e + i]) = aged[d + i].age
      BY <1>8, <3>4, <3>5, Zenon
    <3> QED BY <1>14, <1>17, <3>1, <3>6
  <2> QED BY <1>1, <2>1, <2>2, <2>3 DEF Remembers
<1>21. unread' \in Seq(0 .. W) /\ (unread = <<>> => unread' = <<>>)
  <2>1. \A i \in DOMAIN unread : unread[i] \in 0 .. W
    BY <1>2
  <2>2. DOMAIN unread = 1 .. Len(unread) /\ Len(unread) \in Nat
    BY <1>2
  <2>3. unread' \in [1 .. Len(unread) -> 0 .. W]
    <3>1. \A i \in 1 .. Len(unread) : Older(unread[i]) \in 0 .. W
      BY <1>8, <2>1, <2>2, Zenon
    <3> QED BY <1>7, <2>2, <3>1
  <2>4. unread' \in Seq(0 .. W) /\ Len(unread') = Len(unread)
    <3>1. PICK k : k = Len(unread)
      OBVIOUS
    <3>2. k \in Nat /\ unread' \in [1 .. k -> 0 .. W]
      BY <2>2, <2>3, <3>1
    <3>3. unread' \in Seq(0 .. W)
      BY <1>2, <3>2
    <3>4. DOMAIN unread' = 1 .. Len(unread') /\ Len(unread') \in Nat
      BY <3>3
    <3>5. DOMAIN unread' = 1 .. k
      BY <3>2
    <3> QED BY <3>1, <3>2, <3>3, <3>4, <3>5
  <2>5. ASSUME unread = <<>> PROVE unread' = <<>>
    <3>1. Len(unread) = 0
      BY <2>5
    <3> QED BY <2>4, <3>1
  <2> QED BY <2>4, <2>5
<1>22. ReadAtOnce'
  <2> SUFFICES ASSUME ~gap
               PROVE  /\ handle # "none" => named
                      /\ \A i \in DOMAIN unread' : unread'[i] = 0
                      /\ \A i \in 1 .. n - d : read'[i].logged = read'[i].age
    BY <1>7, <1>14 DEF ReadAtOnce
  <2>1. (handle # "none" => named) /\ \A i \in 1 .. n : read[i].logged = read[i].age
    BY <1>2 DEF LoginInv, ReadAtOnce
  <2>2. unread' = <<>>
    BY <1>7, <1>21, <2>1 DEF LoginInv
  <2>3. ASSUME NEW i \in 1 .. n - d PROVE read'[i].logged = read'[i].age
    <3>1. d + i \in 1 .. n /\ read'[i] = aged[d + i]
      BY <1>14
    <3>2. /\ aged[d + i].logged = Older(read[d + i].logged)
          /\ aged[d + i].age = read[d + i].age + 1
          /\ read[d + i].age \in 0 .. W - 1 /\ read[d + i].logged = read[d + i].age
      BY <1>9, <2>1, <3>1
    <3>3. PICK a : a = read[d + i].logged
      OBVIOUS
    <3>4. a \in 0 .. W /\ a # W /\ read[d + i].age = a
      BY SMTT(60), <1>2, <3>2, <3>3
    <3>5. Older(a) = a + 1
      BY <1>8, <3>4, Zenon
    <3> QED BY <3>1, <3>2, <3>3, <3>4, <3>5
  <2>4. DOMAIN unread' = {}
    BY <2>2
  <2> QED BY <2>1, <2>3, <2>4
<1>23. handle' = "none" => unread' = <<>>
  BY <1>7, <1>21 DEF LoginInv
<1> QED BY <1>1, <1>15, <1>16, <1>17, <1>19, <1>20, <1>21, <1>22, <1>23 DEF LoginInv

\* A monitor that has read nothing.
LEMMA NothingRead ==
    ASSUME unread = <<>>, timestamps = <<>>, read = <<>>, handle = "none"
    PROVE  LoginInv
<1>1. DOMAIN unread = {} /\ DOMAIN read = {} /\ Len(read) = 0 /\ Len(timestamps) = 0
  OBVIOUS
<1>2. /\ unread \in Seq(0 .. LOGIN_WINDOW) /\ timestamps \in Seq(0 .. LOGIN_WINDOW)
      /\ read \in Seq([age : 0 .. LOGIN_WINDOW - 1, logged : 0 .. LOGIN_WINDOW,
                       alarm : BOOLEAN])
  OBVIOUS
<1>3. Remembers(0) /\ ReadAtOnce
  BY <1>1 DEF Remembers, ReadAtOnce
<1> QED BY <1>1, <1>2, <1>3 DEF LoginInv

\* The log and the handle change, the list and what is read do not.
LEMMA LogStep ==
    ASSUME LoginInv, OpenLog \/ FailedLogin \/ RotateLog \/ ReopenLog \/ UNCHANGED loginVars
    PROVE  LoginInv'
<1>1. PICK W : W = LOGIN_WINDOW /\ W \in Nat
  BY LoginAssumption
<1>2. UNCHANGED <<timestamps, read>>
  BY DEF OpenLog, FailedLogin, RotateLog, ReopenLog, loginVars
<1>3. \E c \in 0 .. Len(timestamps') : Remembers(c)'
  BY <1>2 DEF LoginInv, Remembers
<1>4. unread \in Seq(0 .. W) /\ <<>> \in Seq(0 .. W) /\ DOMAIN <<>> = {}
  BY <1>1 DEF LoginInv
<1>5. CASE OpenLog
  <2>1. unread' = <<>> /\ named' /\ gap' = gap
    BY <1>5 DEF OpenLog
  <2>2. ReadAtOnce'
    BY <1>2, <1>4, <2>1 DEF LoginInv, ReadAtOnce
  <2> QED BY <1>1, <1>2, <1>3, <1>4, <2>1, <2>2 DEF LoginInv
<1>6. CASE FailedLogin
  <2>1. unread' = (IF handle = "live" THEN Append(unread, 0) ELSE unread)
        /\ UNCHANGED <<named, handle, gap>>
    BY <1>6 DEF FailedLogin
  <2>2. PICK more : more = Append(unread, 0)
    OBVIOUS
  <2>3. /\ more \in Seq(0 .. W) /\ DOMAIN more = 1 .. Len(unread) + 1
        /\ DOMAIN unread = 1 .. Len(unread) /\ Len(unread) \in Nat
        /\ \A i \in 1 .. Len(unread) : more[i] = unread[i]
        /\ more[Len(unread) + 1] = 0
    BY <1>1, <1>4, <2>2
  <2>4. (\A i \in DOMAIN unread : unread[i] = 0) => \A i \in DOMAIN more : more[i] = 0
    <3>1. \A i \in DOMAIN more : i \in DOMAIN unread \/ i = Len(unread) + 1
      BY <2>3
    <3> QED BY <2>3, <3>1
  <2>5. ReadAtOnce'
    BY <1>2, <2>1, <2>2, <2>4 DEF LoginInv, ReadAtOnce
  <2> QED BY <1>1, <1>2, <1>3, <1>4, <2>1, <2>2, <2>3, <2>5 DEF LoginInv
<1>7. CASE RotateLog
  <2>1. named' = FALSE /\ gap' = (gap \/ handle # "none") /\ UNCHANGED <<handle, unread>>
    BY <1>7 DEF RotateLog
  <2>2. ReadAtOnce'
    BY <1>2, <2>1 DEF LoginInv, ReadAtOnce
  <2> QED BY <1>2, <1>3, <2>1, <2>2 DEF LoginInv
<1>8. CASE ReopenLog
  <2>1. /\ named' = TRUE /\ UNCHANGED <<unread, gap>>
        /\ handle' = IF handle = "live" THEN "stale" ELSE handle
    BY <1>8 DEF ReopenLog
  <2>2. ReadAtOnce'
    BY <1>2, <2>1 DEF LoginInv, ReadAtOnce
  <2> QED BY <1>2, <1>3, <2>1, <2>2 DEF LoginInv
<1>9. CASE UNCHANGED loginVars
  BY <1>3, <1>9 DEF loginVars, LoginInv, ReadAtOnce
<1> QED BY <1>5, <1>6, <1>7, <1>8, <1>9

LEMMA LoginInvariant == LoginSpec => []LoginInv
<1>1. LoginInit => LoginInv
  BY NothingRead DEF LoginInit
<1>2. LoginInv /\ [LoginNext]_loginVars => LoginInv'
  <2> SUFFICES ASSUME LoginInv, [LoginNext]_loginVars PROVE LoginInv'
    OBVIOUS
  <2>1. CASE OpenLog \/ FailedLogin \/ RotateLog \/ ReopenLog \/ UNCHANGED loginVars
    BY <2>1, LogStep
  <2>2. CASE ReadFailure
    BY <2>2, ReadFailureStep
  <2>3. CASE LoginTick
    BY <2>3, LoginTickStep
  <2>4. CASE LoginCrash
    <3>1. unread' = <<>> /\ timestamps' = <<>> /\ read' = <<>> /\ handle' = "none"
      BY <2>4 DEF LoginCrash
    <3>2. DOMAIN unread' = {} /\ DOMAIN read' = {} /\ Len(read') = 0 /\ Len(timestamps') = 0
      BY <3>1
    <3>3. /\ unread' \in Seq(0 .. LOGIN_WINDOW) /\ timestamps' \in Seq(0 .. LOGIN_WINDOW)
          /\ read' \in Seq([age : 0 .. LOGIN_WINDOW - 1, logged : 0 .. LOGIN_WINDOW,
                            alarm : BOOLEAN])
      BY <3>1
    <3>4. Remembers(0)' /\ ReadAtOnce'
      BY <3>1, <3>2 DEF Remembers, ReadAtOnce
    <3> QED BY <3>1, <3>2, <3>3, <3>4 DEF LoginInv
  <2> QED BY <2>1, <2>2, <2>3, <2>4 DEF LoginNext
<1> QED BY <1>1, <1>2, PTL DEF LoginSpec

\* For every window and threshold: an alert means a threshold of failures read
\* within one window, and, while the log was never missing, logged within it
\* (monitor.py:55-80).
THEOREM LoginAlertsAreTimely == LoginSpec => AlertsAreTimely
<1> DEFINE Timely ==
      \A i \in DOMAIN read' :
          ReadFailure /\ i = Len(read') /\ read'[i].alarm
            => /\ i >= LOGIN_THRESHOLD
               /\ ~gap => \A j \in DOMAIN read' :
                     j > i - LOGIN_THRESHOLD => Fresh(read'[j].logged)
<1>1. LoginInv /\ LoginInv' /\ [LoginNext]_loginVars => [Timely]_loginVars
  <2> SUFFICES ASSUME LoginInv, LoginInv', NEW i \in DOMAIN read', ReadFailure,
                      i = Len(read'), read'[i].alarm
               PROVE  /\ i >= LOGIN_THRESHOLD
                      /\ ~gap => \A j \in DOMAIN read' : Fresh(read'[j].logged)
    BY Zenon
  <2>1. i >= LOGIN_THRESHOLD
    BY ReadFailureStep
  <2>2. ASSUME ~gap, NEW j \in DOMAIN read' PROVE Fresh(read'[j].logged)
    <3>1. gap' = gap
      BY DEF ReadFailure
    <3>2. read'[j].logged = read'[j].age
      BY <2>2, <3>1 DEF LoginInv, ReadAtOnce
    <3>3. read'[j].age \in 0 .. LOGIN_WINDOW - 1
      <4>1. PICK R : R = [age : 0 .. LOGIN_WINDOW - 1, logged : 0 .. LOGIN_WINDOW,
                          alarm : BOOLEAN]
        OBVIOUS
      <4>2. read' \in Seq(R)
        BY <4>1 DEF LoginInv
      <4>3. read'[j] \in R
        BY <2>2, <4>2
      <4> QED BY <4>1, <4>3
    <3> QED BY <3>2, <3>3, LoginAssumption DEF Fresh
  <2> QED BY <2>1, <2>2
<1> QED BY <1>1, LoginInvariant, PTL DEF LoginSpec, AlertsAreTimely

-----------------------------------------------------------------------------
(* The beacon detector.                                                   *)

\* A sum over the positions of a list, by its definition as a fold: what it is
\* for each set of positions.
SumsTo(sums, n, seq) ==
    /\ sums[{}] = 0
    /\ \A s \in SUBSET (1 .. n) :
          s # {} => sums[s] = seq[Chosen(s)] + sums[s \ {Chosen(s)}]

LEMMA TotalBySets ==
    ASSUME NEW n \in Nat, NEW seq, DOMAIN seq = 1 .. n
    PROVE  \E sums : SumsTo(sums, n, seq) /\ Total(seq) = sums[1 .. n]
<1> DEFINE D == 1 .. n
           Step(f, s) == IF s = {} THEN 0 ELSE seq[Chosen(s)] + f[s \ {Chosen(s)}]
           Small(k) == { s \in SUBSET D : Cardinality(s) <= k }
           Bad == { k \in Nat : ~ \E f : f = [s \in Small(k) |-> Step(f, s)] }
<1>1. Bad = {}
  <2> SUFFICES ASSUME Bad # {} PROVE FALSE
    OBVIOUS
  <2>1. PICK k \in Bad : \A m \in Bad : k <= m
    <3>1. Bad \subseteq Nat
      OBVIOUS
    <3> HIDE DEF Bad
    <3> QED BY <3>1, LeastNat
  <2>2. k # 0
    <3>1. Small(0) = {{}}
      <4>1. ASSUME NEW s \in SUBSET D PROVE Cardinality(s) <= 0 <=> s = {}
        <5>1. Cardinality(s) \in Nat /\ (Cardinality(s) = 0 <=> s = {})
          BY WithoutChosen
        <5> QED BY <5>1
      <4> HIDE DEF D
      <4> QED BY <4>1
    <3>2. [s \in {{}} |-> 0] = [s \in Small(0) |-> Step([t \in {{}} |-> 0], s)]
      BY <3>1
    <3>3. 0 \notin Bad
      <4> HIDE DEF Small, Step
      <4> QED BY <3>2
    <3> HIDE DEF Bad
    <3> QED BY <2>1, <3>3
  <2>3. k \in Nat /\ k - 1 \in Nat /\ k - 1 \notin Bad
    <3>1. k \in Nat
      OBVIOUS
    <3> HIDE DEF Bad
    <3> QED BY <2>1, <2>2, <3>1
  <2>4. PICK f : f = [s \in Small(k - 1) |-> Step(f, s)]
    BY <2>3
  <2> DEFINE g == [s \in Small(k) |-> Step(f, s)]
  <2>5. ASSUME NEW s \in Small(k) PROVE g[s] = Step(g, s)
    <3>1. CASE s = {}
      BY <3>1
    <3>2. CASE s # {}
      <4>1. s \ {Chosen(s)} \in Small(k - 1) /\ s \ {Chosen(s)} \in Small(k)
        <5>1. /\ Cardinality(s) \in Nat /\ Cardinality(s) <= k
              /\ s \ {Chosen(s)} \in SUBSET D
              /\ Cardinality(s \ {Chosen(s)}) = Cardinality(s) - 1
          BY <3>2, WithoutChosen
        <5> QED BY <2>3, <5>1
      <4>2. /\ f[s \ {Chosen(s)}] = Step(f, s \ {Chosen(s)})
            /\ g[s \ {Chosen(s)}] = Step(f, s \ {Chosen(s)})
        <5> HIDE DEF Step, Small
        <5> QED BY <2>4, <4>1
      <4> QED BY <3>2, <4>2
    <3> QED BY <3>1, <3>2
  <2>6. g = [s \in Small(k) |-> Step(g, s)]
    <3>1. g = [s \in Small(k) |-> g[s]]
      <4> HIDE DEF Step, Small
      <4> QED OBVIOUS
    <3> HIDE DEF g
    <3> HIDE DEF Step, Small
    <3> QED BY <2>5, <3>1
  <2>7. k \notin Bad
    <3> HIDE DEF g, Step, Small
    <3> QED BY <2>6
  <2> QED BY <2>1, <2>7
<1>2. \E f : f = [s \in SUBSET D |-> Step(f, s)]
  <2>1. Small(n) = SUBSET D
    <3>1. ASSUME NEW s \in SUBSET D PROVE Cardinality(s) <= n
      <4>1. IsFiniteSet(D) /\ Cardinality(D) = n
        BY FS_Interval
      <4> HIDE DEF D
      <4> QED BY <4>1, FS_Subset
    <3> HIDE DEF D
    <3> QED BY <3>1
  <2>2. \E f : f = [s \in Small(n) |-> Step(f, s)]
    <3> HIDE DEF Step, Small
    <3> QED BY <1>1
  <2> HIDE DEF Step, Small
  <2> QED BY <2>1, <2>2
<1> DEFINE sums == CHOOSE f : f = [s \in SUBSET D |-> Step(f, s)]
<1>3. sums = [s \in SUBSET D |-> Step(sums, s)]
  <2> HIDE DEF Step
  <2> QED BY <1>2
<1>4. Total(seq) = sums[D]
  BY DEF Total, FoldSeq, FoldFunction, FoldFunctionOnSet, MapThenFoldSet, Chosen
<1>5. ASSUME NEW s \in SUBSET D PROVE sums[s] = Step(sums, s)
  <2> DEFINE f == [t \in SUBSET D |-> Step(sums, t)]
  <2>1. f[s] = Step(sums, s)
    <3> HIDE DEF Step
    <3> QED OBVIOUS
  <2>2. sums = f
    BY <1>3
  <2> HIDE DEF f, sums, Step
  <2> QED BY <2>1, <2>2
<1>6. sums[{}] = 0
  <2>1. {} \in SUBSET D
    OBVIOUS
  <2> HIDE DEF sums
  <2> QED BY <1>5, <2>1
<1> HIDE DEF sums
<1> QED BY <1>4, <1>5, <1>6 DEF SumsTo

LEMMA TotalOfEqual ==
    ASSUME NEW n \in Nat, NEW v \in Int, NEW seq, seq = [i \in 1 .. n |-> v]
    PROVE  Total(seq) = n * v
<1>1. PICK sums : SumsTo(sums, n, seq) /\ Total(seq) = sums[1 .. n]
  <2>1. DOMAIN seq = 1 .. n
    OBVIOUS
  <2> QED BY <2>1, TotalBySets
<1> DEFINE T == { s \in SUBSET (1 .. n) : sums[s] = Cardinality(s) * v }
<1>2. {} \in T
  <2>1. sums[{}] = 0
    BY <1>1 DEF SumsTo
  <2>2. Cardinality({}) = 0
    BY FS_EmptySet
  <2> QED BY <2>1, <2>2
<1>3. ASSUME NEW s \in SUBSET (1 .. n), s # {}, s \ {Chosen(s)} \in T PROVE s \in T
  <2>1. /\ sums[s] = seq[Chosen(s)] + sums[s \ {Chosen(s)}]
        /\ Chosen(s) \in 1 .. n
        /\ Cardinality(s) \in Nat /\ Cardinality(s \ {Chosen(s)}) = Cardinality(s) - 1
    <3> HIDE DEF T
    <3>1. sums[s] = seq[Chosen(s)] + sums[s \ {Chosen(s)}]
      BY <1>1, <1>3 DEF SumsTo
    <3> QED BY <1>3, <3>1, WithoutChosen
  <2>2. PICK k \in Nat : k = Cardinality(s)
    BY <2>1
  <2>3. sums[s \ {Chosen(s)}] = (k - 1) * v
    BY <1>3, <2>1, <2>2
  <2>4. seq[Chosen(s)] = v
    BY <2>1
  <2>5. v + (k - 1) * v = k * v
    OBVIOUS
  <2> QED BY <2>1, <2>2, <2>3, <2>4, <2>5
<1>4. 1 .. n \in T
  <2> HIDE DEF T
  <2> QED BY <1>2, <1>3, PositionsInduction
<1>5. Cardinality(1 .. n) = n
  BY FS_Interval
<1> QED BY <1>1, <1>4, <1>5

SquaresOf(seq) == [m \in DOMAIN seq |-> seq[m] * seq[m]]

\* The sum and the sum of squares of a list, without two of its values.
LEMMA TotalsWithoutTwo ==
    ASSUME NEW n \in Nat, NEW seq \in [1 .. n -> Nat],
           NEW i \in 1 .. n, NEW j \in 1 .. n, i # j
    PROVE  \E k \in Nat, R \in Int, P \in Nat :
              /\ n = k + 2 /\ SquareBelow(R, P, k)
              /\ Total(seq) = seq[i] + seq[j] + R
              /\ Total(SquaresOf(seq)) = seq[i] * seq[i] + seq[j] * seq[j] + P
<1> DEFINE With(s, v, w) == (IF i \in s THEN v ELSE 0) + (IF j \in s THEN w ELSE 0)
<1>1. PICK squares : squares = [m \in 1 .. n |-> seq[m] * seq[m]] /\ squares = SquaresOf(seq)
  BY DEF SquaresOf
<1>2. PICK sums : SumsTo(sums, n, seq) /\ Total(seq) = sums[1 .. n]
  BY TotalBySets
<1>3. PICK sqs : SumsTo(sqs, n, squares) /\ Total(squares) = sqs[1 .. n]
  <2>1. DOMAIN squares = 1 .. n
    BY <1>1
  <2> QED BY <2>1, TotalBySets
<1>4. PICK x \in Nat, y \in Nat : x = seq[i] /\ y = seq[j]
  OBVIOUS
<1>5. PICK xx \in Nat, yy \in Nat : xx = x * x /\ yy = y * y
  OBVIOUS
<1> DEFINE Fits(s, k, R, P) ==
             /\ SquareBelow(R, P, k)
             /\ Cardinality(s) = k + With(s, 1, 1)
             /\ sums[s] = R + With(s, x, y)
             /\ sqs[s] = P + With(s, xx, yy)
           T == { s \in SUBSET (1 .. n) : \E k \in Nat, R \in Int, P \in Nat : Fits(s, k, R, P) }
<1>6. {} \in T
  <2>1. sums[{}] = 0 /\ sqs[{}] = 0
    BY <1>2, <1>3 DEF SumsTo
  <2>2. Cardinality({}) = 0
    BY FS_EmptySet
  <2>3. Fits({}, 0, 0, 0)
    BY <2>1, <2>2 DEF SquareBelow
  <2>4. {} \in SUBSET (1 .. n) /\ 0 \in Nat /\ 0 \in Int
    OBVIOUS
  <2> HIDE DEF Fits
  <2> QED BY <2>3, <2>4
<1>7. ASSUME NEW s \in SUBSET (1 .. n), s # {}, s \ {Chosen(s)} \in T PROVE s \in T
  <2>1. PICK e, t : e = Chosen(s) /\ t = s \ {e}
    OBVIOUS
  <2>2. PICK k \in Nat, R \in Int, P \in Nat : Fits(t, k, R, P)
    BY <1>7, <2>1
  <2>3. SUFFICES \E k1 \in Nat, R1 \in Int, P1 \in Nat : Fits(s, k1, R1, P1)
    OBVIOUS
  <2> HIDE DEF T
  <2>4. e \in s /\ e \in 1 .. n /\ Cardinality(t) = Cardinality(s) - 1 /\ Cardinality(s) \in Nat
    BY <1>7, <2>1, WithoutChosen
  <2>5. PICK v \in Nat, vv \in Nat : v = seq[e] /\ vv = v * v /\ vv = squares[e]
    BY <1>1, <2>4
  <2>6. sums[s] = v + sums[t] /\ sqs[s] = vv + sqs[t]
    BY <1>2, <1>3, <1>7, <2>1, <2>5 DEF SumsTo
  <2>7. PICK one, two, three : /\ one = With(t, 1, 1) /\ two = With(t, x, y)
                               /\ three = With(t, xx, yy)
    OBVIOUS
  <2>8. one \in Nat /\ two \in Nat /\ three \in Nat
    BY <2>7
  <2>9. /\ Cardinality(t) = k + one /\ sums[t] = R + two /\ sqs[t] = P + three
        /\ SquareBelow(R, P, k)
    BY <2>2, <2>7
  <2>10. /\ Cardinality(s) = k + one + 1
         /\ sums[s] = R + two + v
         /\ sqs[s] = P + three + vv
    <3> HIDE DEF Fits, With
    <3>1. Cardinality(s) = k + one + 1
      <4>1. PICK m \in Nat : m = Cardinality(s)
        BY <2>4
      <4> QED BY SMTT(60), <2>4, <2>8, <2>9, <4>1
    <3>2. sums[s] = R + two + v
      BY <2>6, <2>8, <2>9
    <3>3. sqs[s] = P + three + vv
      BY <2>6, <2>8, <2>9
    <3> QED BY <3>1, <3>2, <3>3
  <2>11. CASE e = i \/ e = j
    <3>1. /\ With(s, 1, 1) = one + 1
          /\ With(s, x, y) = two + v
          /\ With(s, xx, yy) = three + vv
      <4>1. CASE e = i
        <5>1. /\ i \in s /\ i \notin t /\ (j \in s <=> j \in t) /\ v = x /\ vv = xx
          BY <1>4, <1>5, <2>1, <2>4, <2>5, <4>1
        <5> QED BY <2>7, <5>1
      <4>2. CASE e = j
        <5>1. /\ j \in s /\ j \notin t /\ (i \in s <=> i \in t) /\ v = y /\ vv = yy
          BY <1>4, <1>5, <2>1, <2>4, <2>5, <4>2
        <5> QED BY <2>7, <5>1
      <4> QED BY <2>11, <4>1, <4>2
    <3>2. /\ Cardinality(s) = k + With(s, 1, 1)
          /\ sums[s] = R + With(s, x, y)
          /\ sqs[s] = P + With(s, xx, yy)
      <4> HIDE DEF With
      <4> QED BY <2>8, <2>10, <3>1
    <3>3. Fits(s, k, R, P)
      <4> HIDE DEF With
      <4> QED BY <2>9, <3>2
    <3> HIDE DEF Fits
    <3> QED BY <3>3
  <2>12. CASE e # i /\ e # j
    <3>1. /\ With(s, 1, 1) = one /\ With(s, x, y) = two /\ With(s, xx, yy) = three
      <4>1. (i \in s <=> i \in t) /\ (j \in s <=> j \in t)
        BY <2>1, <2>12
      <4> QED BY <2>7, <4>1
    <3>2. /\ Cardinality(s) = (k + 1) + With(s, 1, 1)
          /\ sums[s] = (R + v) + With(s, x, y)
          /\ sqs[s] = (P + vv) + With(s, xx, yy)
      <4> HIDE DEF With
      <4> QED BY <2>8, <2>10, <3>1
    <3>3. SquareBelow(R + v, P + vv, k + 1)
      <4> HIDE DEF Fits, With
      <4>1. SquareBelow(R, P, k) /\ v \in Int
        BY <2>9
      <4>2. SquareBelowWith(v, R, P, k)
        BY <4>1, OneMoreValue
      <4> QED BY <2>5, <4>2 DEF SquareBelow, SquareBelowWith
    <3>4. Fits(s, k + 1, R + v, P + vv)
      <4> HIDE DEF With
      <4> QED BY <3>2, <3>3
    <3>5. k + 1 \in Nat /\ R + v \in Int /\ P + vv \in Nat
      OBVIOUS
    <3> HIDE DEF Fits
    <3> QED BY <3>4, <3>5
  <2> QED BY <2>11, <2>12
<1>8. 1 .. n \in T
  <2> HIDE DEF T
  <2>1. \A s \in SUBSET (1 .. n) : s # {} /\ s \ {Chosen(s)} \in T => s \in T
    BY <1>7
  <2> QED BY <1>6, <2>1, PositionsInduction
<1>9. Cardinality(1 .. n) = n
  BY FS_Interval
<1>10. PICK k \in Nat, R \in Int, P \in Nat : Fits(1 .. n, k, R, P)
  BY <1>8
<1>11. /\ With(1 .. n, 1, 1) = 2 /\ With(1 .. n, x, y) = x + y
       /\ With(1 .. n, xx, yy) = xx + yy
  OBVIOUS
<1>12. /\ n = k + 2 /\ SquareBelow(R, P, k)
       /\ Total(seq) = x + y + R
       /\ Total(squares) = xx + yy + P
  <2>1. /\ n = k + 2 /\ sums[1 .. n] = R + (x + y) /\ sqs[1 .. n] = P + (xx + yy)
    BY <1>9, <1>10, <1>11
  <2>2. SquareBelow(R, P, k)
    BY <1>10
  <2> QED BY <1>2, <1>3, <2>1, <2>2
<1>13. /\ Total(seq) = seq[i] + seq[j] + R
       /\ Total(SquaresOf(seq)) = seq[i] * seq[i] + seq[j] * seq[j] + P
  BY <1>1, <1>4, <1>5, <1>12
<1> HIDE DEF Fits, T, With
<1> QED BY <1>12, <1>13

\* The entries of a sequence, and a sequence by its entries.
LEMMA Entries ==
    ASSUME NEW S, NEW seq \in Seq(S)
    PROVE  /\ Len(seq) \in Nat /\ DOMAIN seq = 1 .. Len(seq)
           /\ \A i \in 1 .. Len(seq) : seq[i] \in S
  OBVIOUS

LEMMA ByEntries ==
    ASSUME NEW S, NEW n \in Nat, NEW f, f = [i \in 1 .. n |-> f[i]],
           \A i \in 1 .. n : f[i] \in S
    PROVE  f \in Seq(S) /\ Len(f) = n /\ DOMAIN f = 1 .. n
<1>1. f \in [1 .. n -> S]
  OBVIOUS
<1>2. f \in Seq(S)
  BY <1>1
<1>3. DOMAIN f = 1 .. n
  BY <1>1
<1>4. PICK m \in Nat : m = Len(f) /\ DOMAIN f = 1 .. m
  BY <1>2
<1>5. m = n
  BY <1>3, <1>4
<1> QED BY <1>2, <1>3, <1>4, <1>5
-----------------------------------------------------------------------------
Capped(a) == IF a < Oldest THEN a ELSE Oldest

InOrder(ages) == \A i, j \in DOMAIN ages : i <= j => ages[j] <= ages[i]

Apart(ages) ==
    \A i \in 1 .. Len(ages) - 1 :
        ages[i] <= WINDOW => ages[i] >= ages[i + 1] + DEBOUNCE

Wide(g) ==
    g >= DEBOUNCE /\ g >= MIN_INTERVAL /\ (MIN_EVENTS - 1) * g <= WINDOW

\* The last packets of the run are the last of the deque, a gap apart.
InSteps(ages, r) ==
    /\ r.run <= Len(ages)
    /\ \A i \in 1 .. r.run :
          ages[Len(ages) - r.run + i] = Capped(r.since + (r.run - i) * r.gap)

BeaconInv ==
    /\ BeaconTypeOK
    /\ InOrder(times)
    /\ \A i \in DOMAIN times : times[i] >= regular.since
    /\ Wide(regular.gap) =>
          /\ (regular.run - 1) * regular.gap <= WINDOW
          /\ InSteps(times, regular)

\* Gaps of one length are regular.
LEMMA SteadyIsRegular ==
    ASSUME NEW n \in Nat, NEW g \in Nat, g >= MIN_INTERVAL,
           NEW gaps, gaps = [i \in 1 .. n |-> g]
    PROVE  IsRegular(gaps)
<1>1. Len(gaps) = n
  OBVIOUS
<1>2. PICK squares : squares = [i \in 1 .. n |-> gaps[i] * gaps[i]]
  OBVIOUS
<1>3. PICK v : v = g * g
  OBVIOUS
<1>4. v \in Int /\ squares = [i \in 1 .. n |-> v]
  BY <1>2, <1>3
<1>5. Total(gaps) = n * g
  BY TotalOfEqual
<1>6. Total(squares) = n * v
  BY <1>4, TotalOfEqual
<1>7. IsRegular(gaps) <=>
        /\ Total(gaps) >= n * MIN_INTERVAL
        /\ 10000 * (n * Total(squares) - Total(gaps) * Total(gaps))
             <= MAX_CV * MAX_CV * Total(gaps) * Total(gaps)
  BY <1>1, <1>2 DEF IsRegular
<1>8. n * g >= n * MIN_INTERVAL
  BY BeaconAssumption
<1>9. PICK S : S = n * g
  OBVIOUS
<1>10. S \in Nat /\ n * (n * v) = S * S
  BY <1>3, <1>9
<1>11. MAX_CV * MAX_CV * S * S >= 0
  <2>1. MAX_CV \in Nat
    BY BeaconAssumption
  <2>2. MAX_CV * MAX_CV \in Nat
    BY <2>1
  <2>3. MAX_CV * MAX_CV * S \in Nat
    BY <1>10, <2>2
  <2>4. MAX_CV * MAX_CV * S * S \in Nat
    BY <1>10, <2>3
  <2> QED BY <2>4
<1>12. PICK q : q = n * (n * v)
  OBVIOUS
<1>13. 10000 * (q - q) = 0
  BY <1>10, <1>12
<1> QED BY <1>5, <1>6, <1>7, <1>8, <1>9, <1>10, <1>11, <1>12, <1>13

\* Regular gaps are not too uneven, any two of them.
LEMMA RegularIsSteady ==
    ASSUME NEW gaps \in Seq(1 .. WINDOW), IsRegular(gaps),
           NEW i \in DOMAIN gaps, NEW j \in DOMAIN gaps, i # j
    PROVE  ~TooUneven(gaps[i], gaps[j], Len(gaps))
<1>1. PICK n : n = Len(gaps)
  OBVIOUS
<1>2. n \in Nat /\ DOMAIN gaps = 1 .. n /\ gaps \in [1 .. n -> Nat]
  <2>1. n \in Nat /\ DOMAIN gaps = 1 .. n
    BY <1>1
  <2>2. PICK S : S = 1 .. WINDOW
    OBVIOUS
  <2>3. \A m \in 1 .. n : gaps[m] \in S
    BY <1>1, <2>2, Entries
  <2>4. gaps = [m \in 1 .. n |-> gaps[m]]
    BY <1>1
  <2>5. S \subseteq Nat
    BY <2>2, BeaconAssumption
  <2> QED BY <2>1, <2>3, <2>4, <2>5
<1>3. SquaresOf(gaps) = [m \in 1 .. n |-> gaps[m] * gaps[m]]
  BY <1>2 DEF SquaresOf
<1>4. PICK k \in Nat, R \in Int, P \in Nat :
         /\ n = k + 2 /\ SquareBelow(R, P, k)
         /\ Total(gaps) = gaps[i] + gaps[j] + R
         /\ Total(SquaresOf(gaps)) = gaps[i] * gaps[i] + gaps[j] * gaps[j] + P
  <2>1. i \in 1 .. n /\ j \in 1 .. n
    BY <1>2
  <2>2. gaps \in [1 .. n -> Nat] /\ n \in Nat
    BY <1>2
  <2> QED BY <2>1, <2>2, TotalsWithoutTwo
<1>5. PICK x, y : x = gaps[i] /\ y = gaps[j]
  OBVIOUS
<1>6. x \in Nat \ {0} /\ y \in Nat \ {0}
  <2>1. PICK S : S = 1 .. WINDOW
    OBVIOUS
  <2>2. x \in S /\ y \in S
    BY <1>1, <1>2, <1>5, <2>1, Entries
  <2> QED BY <2>1, <2>2, BeaconAssumption
<1>7. PICK S, Q : S = x + y + R /\ Q = x * x + y * y + P
  OBVIOUS
<1>8. S \in Int /\ Q \in Nat
  BY <1>6, <1>7
<1>9. Total(gaps) = S /\ Total(SquaresOf(gaps)) = Q
  BY <1>4, <1>5, <1>7
<1>10. PICK c \in Nat : c = MAX_CV * MAX_CV
  BY BeaconAssumption
<1>11. DeviatesWithin(c, x, y, R, P, k)
  <2>1. 10000 * (n * Total(SquaresOf(gaps)) - Total(gaps) * Total(gaps))
          <= MAX_CV * MAX_CV * Total(gaps) * Total(gaps)
    BY <1>1, <1>3 DEF IsRegular
  <2>2. 10000 * ((k + 2) * Q - S * S) <= c * S * S
    BY <1>4, <1>9, <1>10, <2>1
  <2> QED BY <1>7, <2>2 DEF DeviatesWithin
<1>12. PairWithin(c, x, y, k)
  BY <1>4, <1>6, <1>11, PairBound
<1>13. ~TooUneven(x, y, n)
  BY <1>4, <1>6, <1>10, <1>12 DEF PairWithin, TooUneven
<1> QED BY <1>1, <1>5, <1>13

\* What is kept of the deque: the entries within the window, and the packet.
KeptFrom(kept, ages, c) ==
    /\ Len(kept) = Len(ages) - c + 1
    /\ \A i \in 1 .. Len(ages) - c : kept[i] = ages[c + i]
    /\ kept[Len(kept)] = 0
    /\ \A i \in 1 .. c : ages[i] > WINDOW
    /\ \A i \in 1 .. Len(kept) - 1 : kept[i] - kept[i + 1] \in 1 .. WINDOW

LEMMA KeptShape ==
    ASSUME NEW ages \in Seq(0 .. Oldest), InOrder(ages), Apart(ages), ~Debounced(ages)
    PROVE  \E c \in 0 .. Len(ages), kept \in Seq(0 .. WINDOW) :
              /\ kept = Kept(ages) /\ KeptFrom(kept, ages, c)
              /\ InOrder(kept) /\ Apart(kept)
<1>1. /\ WINDOW \in Nat /\ WINDOW >= 1 /\ Oldest = WINDOW + 1
      /\ DEBOUNCE \in Nat /\ DEBOUNCE >= 1
  BY BeaconAssumption DEF Oldest
<1>2. PICK n : n = Len(ages)
  OBVIOUS
<1>3. n \in Nat /\ DOMAIN ages = 1 .. n /\ \A i \in 1 .. n : ages[i] \in 0 .. Oldest
  <2>1. PICK S : S = 0 .. Oldest
    OBVIOUS
  <2>2. ages \in Seq(S)
    BY <2>1
  <2>3. n \in Nat /\ DOMAIN ages = 1 .. n /\ \A i \in 1 .. n : ages[i] \in S
    BY <1>2, <2>2
  <2> QED BY <2>1, <2>3
<1>4. PICK X : X = { i \in DOMAIN ages : ages[i] > WINDOW }
  OBVIOUS
<1>5. PICK c \in 0 .. Len(ages) :
         /\ X = 1 .. c
         /\ Pruned(ages, X) \in Seq(0 .. Oldest)
         /\ RestBehind(Pruned(ages, X), ages, c)
  <2>1. ages \in Seq(0 .. Oldest) /\ X \subseteq DOMAIN ages
    BY <1>4
  <2>2. \A i, j \in DOMAIN ages : i <= j /\ j \in X => i \in X
    <3> SUFFICES ASSUME NEW i \in 1 .. n, NEW j \in 1 .. n, i <= j, j \in X
                 PROVE  i \in X
      BY <1>3
    <3>1. ages[j] > WINDOW /\ ages[j] <= ages[i]
      BY <1>3, <1>4 DEF InOrder
    <3>2. ages[i] \in 0 .. Oldest /\ ages[j] \in 0 .. Oldest
      BY <1>3
    <3>3. ages[i] > WINDOW
      BY <1>1, <3>1, <3>2
    <3> QED BY <1>3, <1>4, <3>3
  <2> QED BY ONLY <2>1, <2>2, PrunedIsRest
<1>6. PICK rest : rest = Pruned(ages, X)
  OBVIOUS
<1>7. /\ rest \in Seq(0 .. Oldest) /\ Len(rest) = n - c /\ c \in 0 .. n /\ c \in Nat
      /\ DOMAIN rest = 1 .. n - c
      /\ \A i \in 1 .. n - c : rest[i] = ages[c + i]
  <2>1. rest \in Seq(0 .. Oldest) /\ Len(rest) = n - c /\ c \in 0 .. n
        /\ \A i \in 1 .. n - c : rest[i] = ages[c + i]
    BY <1>2, <1>5, <1>6 DEF RestBehind
  <2>2. DOMAIN rest = 1 .. Len(rest)
    BY <2>1
  <2> QED BY <1>3, <2>1, <2>2
<1>8. \A i \in 1 .. n - c : c + i \in 1 .. n /\ rest[i] \in 0 .. WINDOW
  <2> SUFFICES ASSUME NEW i \in 1 .. n - c
               PROVE  c + i \in 1 .. n /\ rest[i] \in 0 .. WINDOW
    OBVIOUS
  <2>1. c + i \in 1 .. n /\ c + i \notin 1 .. c
    BY <1>3, <1>7
  <2>2. ages[c + i] \in 0 .. Oldest /\ ~(ages[c + i] > WINDOW)
    BY <1>3, <1>4, <1>5, <2>1
  <2> QED BY <1>1, <1>7, <2>1, <2>2
<1>9. rest \in Seq(0 .. WINDOW)
  <2>1. PICK k, S : k = n - c /\ S = 0 .. WINDOW
    OBVIOUS
  <2>2. k \in Nat /\ rest \in [1 .. k -> S]
    BY <1>3, <1>7, <1>8, <2>1
  <2>3. rest \in Seq(S)
    BY <2>2
  <2> QED BY <2>1, <2>3
<1>10. PICK kept : kept = Append(rest, 0)
  OBVIOUS
<1>11. PICK k : k = n - c + 1
  OBVIOUS
<1>12. /\ k \in Nat /\ k >= 1 /\ k - 1 = n - c
       /\ kept \in Seq(0 .. WINDOW) /\ Len(kept) = k /\ DOMAIN kept = 1 .. k
       /\ \A i \in 1 .. n - c : kept[i] = ages[c + i] /\ kept[i] \in 0 .. WINDOW
       /\ kept[k] = 0
  <2>1. k \in Nat /\ k >= 1 /\ k - 1 = n - c /\ 0 \in 0 .. WINDOW
    BY <1>1, <1>3, <1>7, <1>11
  <2>2. kept \in Seq(0 .. WINDOW) /\ Len(kept) = k
    BY <1>7, <1>9, <1>10, <1>11, <2>1
  <2>3. \A i \in 1 .. n - c : kept[i] = rest[i]
    BY <1>7, <1>9, <1>10
  <2>4. kept[k] = 0
    BY <1>7, <1>9, <1>10, <1>11
  <2> QED BY <1>7, <1>8, <2>1, <2>2, <2>3, <2>4
<1>13. kept = Kept(ages)
  BY <1>4, <1>6, <1>10 DEF Kept
<1>14. \A i \in 1 .. c : ages[i] > WINDOW
  BY <1>3, <1>4, <1>5
<1>15. InOrder(kept)
  <2> SUFFICES ASSUME NEW i \in 1 .. k, NEW j \in 1 .. k, i <= j
               PROVE  kept[j] <= kept[i]
    BY <1>12 DEF InOrder
  <2>1. CASE j = k
    BY <1>1, <1>12, <2>1
  <2>2. CASE j \in 1 .. n - c
    <3>1. i \in 1 .. n - c /\ c + i \in 1 .. n /\ c + j \in 1 .. n /\ c + i <= c + j
      BY <1>3, <1>7, <2>2
    <3>2. ages[c + j] <= ages[c + i]
      BY <1>3, <3>1 DEF InOrder
    <3> QED BY <1>12, <2>2, <3>1, <3>2
  <2> QED BY <1>11, <1>12, <1>3, <1>7, <2>1, <2>2
<1>16. ASSUME NEW i \in 1 .. k - 1
       PROVE  kept[i] >= kept[i + 1] + DEBOUNCE /\ kept[i] - kept[i + 1] \in 1 .. WINDOW
  <2>1. /\ i \in 1 .. n - c /\ kept[i] = ages[c + i] /\ kept[i] \in 0 .. WINDOW
        /\ i \in Nat /\ c + i \in 1 .. n
    <3>1. i \in 1 .. n - c /\ i \in Nat
      BY <1>12
    <3> QED BY <1>8, <1>12, <3>1
  <2>2. CASE i = k - 1
    <3>1. c + i = n /\ kept[i + 1] = 0
      BY <1>3, <1>7, <1>11, <1>12, <2>2
    <3>2. ages # <<>> /\ ages[n] >= DEBOUNCE
      <4>1. ages # <<>> /\ Last(ages) = ages[n]
        BY <1>2, <1>3, <2>1 DEF Last
      <4>2. ~(ages[n] < DEBOUNCE) /\ ages[n] \in 0 .. Oldest
        BY <1>3, <2>1, <3>1, <4>1 DEF Debounced
      <4> QED BY <1>1, <4>1, <4>2
    <3> QED BY <1>1, <2>1, <3>1, <3>2
  <2>3. CASE i # k - 1
    <3>1. i + 1 \in 1 .. n - c /\ c + (i + 1) = (c + i) + 1 /\ c + i \in 1 .. n - 1
      BY <1>3, <1>7, <1>11, <2>1, <2>3
    <3>2. kept[i + 1] = ages[(c + i) + 1] /\ kept[i + 1] \in 0 .. WINDOW
      BY <1>12, <3>1
    <3>3. ages[c + i] <= WINDOW => ages[c + i] >= ages[(c + i) + 1] + DEBOUNCE
      BY <1>2, <3>1 DEF Apart
    <3>4. PICK x, y : x = kept[i] /\ y = kept[i + 1]
      OBVIOUS
    <3>5. x \in 0 .. WINDOW /\ y \in 0 .. WINDOW /\ x >= y + DEBOUNCE
      <4>1. x = ages[c + i] /\ y = ages[(c + i) + 1]
        BY <2>1, <3>2, <3>4
      <4>2. x \in 0 .. WINDOW /\ y \in 0 .. WINDOW
        BY <2>1, <3>2, <3>4
      <4>3. x <= WINDOW => x >= y + DEBOUNCE
        BY <3>3, <4>1
      <4>4. x <= WINDOW
        BY <1>1, <4>2
      <4> QED BY <4>2, <4>3, <4>4
    <3>6. x >= y + DEBOUNCE /\ x - y \in 1 .. WINDOW
      BY <1>1, <3>5
    <3> QED BY <3>4, <3>6, Zenon
  <2> QED BY <2>2, <2>3
<1>17. Apart(kept)
  BY <1>12, <1>16 DEF Apart
<1>18. KeptFrom(kept, ages, c)
  BY <1>2, <1>11, <1>12, <1>14, <1>16 DEF KeptFrom
<1> QED BY <1>12, <1>13, <1>15, <1>17, <1>18

\* An age that stops growing out of the window.
LEMMA CappedAge ==
    ASSUME NEW a \in Nat
    PROVE  /\ Capped(a) \in 0 .. Oldest
           /\ Capped(a) <= WINDOW => Capped(a) = a
           /\ a <= WINDOW => Capped(a) = a
  BY BeaconAssumption DEF Capped, Oldest

\* Multiples of a gap.
LEMMA Multiples ==
    ASSUME NEW g \in Nat, NEW a \in Int, NEW b \in Int, a <= b
    PROVE  /\ a * g <= b * g /\ a * g \in Int
           /\ g + (b - a) * g = (b - a + 1) * g
           /\ a >= 0 => a * g \in Nat
<1>1. a * g \in Int /\ b * g \in Int
  OBVIOUS
<1>2. b * g - a * g = (b - a) * g /\ (b - a) * g >= 0
  <2>1. PICK d \in Nat : d = b - a
    OBVIOUS
  <2>2. d * g \in Nat
    OBVIOUS
  <2>3. b * g - a * g = (b - a) * g
    OBVIOUS
  <2> QED BY <2>1, <2>2, <2>3
<1>3. g + (b - a) * g = (b - a + 1) * g
  OBVIOUS
<1>4. a >= 0 => a * g \in Nat
  OBVIOUS
<1> QED BY <1>1, <1>2, <1>3, <1>4

\* A run at a wide gap goes on: either the deque holds all of it, or everything
\* the deque holds is a gap apart and the packet is flagged.
LEMMA RunGoesOn ==
    ASSUME NEW ages \in Seq(0 .. Oldest), NEW g \in Nat, Wide(g), NEW run \in Nat,
           (run - 1) * g <= WINDOW,
           NEW r, r.run = run, r.since = g, r.gap = g, InSteps(ages, r),
           NEW c \in 0 .. Len(ages), NEW kept \in Seq(0 .. WINDOW), KeptFrom(kept, ages, c),
           Len(kept) < MIN_EVENTS \/ ~IsRegular(Gaps(kept)),
           NEW r1, r1.run = run + 1, r1.since = 0, r1.gap = g
    PROVE  run * g <= WINDOW /\ InSteps(kept, r1)
<1>1. /\ WINDOW \in Nat /\ Oldest = WINDOW + 1 /\ MIN_EVENTS \in Nat /\ MIN_EVENTS >= 2
      /\ MIN_INTERVAL \in Nat /\ DEBOUNCE \in Nat /\ DEBOUNCE >= 1
      /\ g >= 1 /\ g >= MIN_INTERVAL /\ (MIN_EVENTS - 1) * g <= WINDOW
  BY BeaconAssumption DEF Oldest, Wide
<1>2. PICK n, k : n = Len(ages) /\ k = n - c + 1
  OBVIOUS
<1>3. /\ n \in Nat /\ c \in 0 .. n /\ c \in Nat /\ k \in Nat /\ k >= 1 /\ k - 1 = n - c
      /\ run <= n
  BY <1>2 DEF InSteps
<1>4. /\ Len(kept) = k /\ DOMAIN kept = 1 .. k
      /\ \A i \in 1 .. n - c : kept[i] = ages[c + i]
      /\ kept[k] = 0
      /\ \A i \in 1 .. c : ages[i] > WINDOW
      /\ \A i \in 1 .. k : kept[i] \in 0 .. WINDOW
  <2>1. Len(kept) = k
    BY <1>2 DEF KeptFrom
  <2>2. DOMAIN kept = 1 .. k /\ \A i \in 1 .. k : kept[i] \in 0 .. WINDOW
    BY <2>1, Entries
  <2>3. /\ \A i \in 1 .. n - c : kept[i] = ages[c + i]
        /\ kept[k] = 0
        /\ \A i \in 1 .. c : ages[i] > WINDOW
    BY <1>2, <2>1 DEF KeptFrom
  <2> QED BY <2>1, <2>2, <2>3

\* The age of an entry of the run now.
<1>5. ASSUME NEW j \in n - run + 1 .. n
      PROVE  /\ j \in 1 .. n /\ n + 1 - j \in Nat /\ (n + 1 - j) * g \in Nat
             /\ ages[j] = Capped((n + 1 - j) * g)
  <2>1. PICK i : i = j - (n - run)
    OBVIOUS
  <2>2. i \in 1 .. run /\ n - run + i = j /\ j \in 1 .. n /\ n + 1 - j \in Nat
        /\ run - i = n - j /\ run - i + 1 = n + 1 - j
    BY <1>3, <2>1
  <2>3. ages[n - run + i] = Capped(g + (run - i) * g)
    BY <1>2, <2>2 DEF InSteps
  <2>4. g + (run - i) * g = (run - i + 1) * g
    BY <2>2, Multiples
  <2>5. (n + 1 - j) * g \in Nat
    BY <2>2
  <2> QED BY <2>2, <2>3, <2>4, <2>5
<1>6. ASSUME run * g > WINDOW PROVE FALSE
  <2>1. run >= 1
    BY <1>1, <1>6
  <2>2. n - run + 1 \in 1 .. c
    <3>1. n - run + 1 \in n - run + 1 .. n /\ n + 1 - (n - run + 1) = run
      BY <1>3, <2>1
    <3>2. ages[n - run + 1] = Capped(run * g) /\ run * g \in Nat /\ n - run + 1 \in 1 .. n
      BY <1>5, <3>1
    <3>3. ~(ages[n - run + 1] <= WINDOW)
      BY <1>1, <1>6, <3>2, CappedAge
    <3> SUFFICES ASSUME n - run + 1 > c PROVE FALSE
      BY <1>3, <3>2
    <3>4. PICK q : q = n - run + 1 - c
      OBVIOUS
    <3>5. q \in 1 .. n - c /\ q \in 1 .. k /\ c + q = n - run + 1
      BY <1>3, <3>2, <3>4
    <3>6. ages[n - run + 1] \in 0 .. WINDOW
      BY <1>4, <3>5
    <3> QED BY <3>3, <3>6
  <2>3. ASSUME NEW q \in 1 .. k PROVE kept[q] = (k - q) * g
    <3>1. CASE q = k
      BY <1>3, <1>4, <3>1
    <3>2. CASE q # k
      <4>1. PICK j : j = c + q
        OBVIOUS
      <4>2. q \in 1 .. n - c /\ j \in n - run + 1 .. n /\ n + 1 - j = k - q
        <5>1. q \in Nat /\ q >= 1 /\ q <= k - 1
          BY <1>3, <3>2
        <5>2. c >= n - run + 1
          BY <1>3, <2>2
        <5> QED BY <1>3, <4>1, <5>1, <5>2
      <4>3. kept[q] = ages[j] /\ kept[q] \in 0 .. WINDOW
        BY <1>4, <4>1, <4>2
      <4>4. ages[j] = Capped((k - q) * g) /\ (k - q) * g \in Nat
        BY <1>5, <4>2
      <4> QED BY <4>3, <4>4, CappedAge
    <3> QED BY <3>1, <3>2
  <2>4. Gaps(kept) = [i \in 1 .. k - 1 |-> g]
    <3>1. ASSUME NEW i \in 1 .. k - 1 PROVE kept[i] - kept[i + 1] = g
      <4>1. i \in 1 .. k /\ i + 1 \in 1 .. k /\ i \in Int
        BY <1>3
      <4>2. kept[i] = (k - i) * g /\ kept[i + 1] = (k - (i + 1)) * g
        BY <2>3, <4>1
      <4>3. (k - i) * g - (k - (i + 1)) * g = g
        BY <1>3, <4>1
      <4> QED BY <4>2, <4>3
    <3> QED BY <1>4, <3>1 DEF Gaps
  <2>5. IsRegular(Gaps(kept))
    <3>1. k - 1 \in Nat
      BY <1>3
    <3> QED BY <1>1, <2>4, <3>1, SteadyIsRegular
  <2>6. k >= MIN_EVENTS
    <3> SUFFICES ASSUME k <= MIN_EVENTS - 1 PROVE FALSE
      BY <1>1, <1>3
    <3>1. k * g <= (MIN_EVENTS - 1) * g
      BY <1>1, <1>3, Multiples
    <3>2. k * g \in Nat /\ k * g <= WINDOW
      <4>1. k * g \in Nat /\ (MIN_EVENTS - 1) * g \in Nat
        BY <1>1, <1>3
      <4> QED BY <1>1, <3>1, <4>1
    <3>3. c \in n - run + 1 .. n /\ n + 1 - c = k /\ c \in 1 .. c
      BY <1>2, <1>3, <2>2
    <3>4. ages[c] = Capped(k * g) /\ ages[c] > WINDOW
      BY <1>4, <1>5, <3>3
    <3>5. ages[c] = k * g
      BY <3>2, <3>4, CappedAge
    <3> QED BY <1>1, <3>2, <3>4, <3>5
  <2> QED BY <1>1, <1>3, <1>4, <2>5, <2>6
<1>7. run * g <= WINDOW
  <2>1. run * g \in Nat
    OBVIOUS
  <2> QED BY <1>1, <1>6, <2>1
<1>8. c <= n - run
  <2> SUFFICES ASSUME c > n - run PROVE FALSE
    BY <1>3
  <2>1. c \in n - run + 1 .. n /\ c \in 1 .. c /\ n + 1 - c <= run /\ n + 1 - c \in Nat
    BY <1>3
  <2>2. ages[c] = Capped((n + 1 - c) * g) /\ ages[c] > WINDOW /\ (n + 1 - c) * g \in Nat
    BY <1>4, <1>5, <2>1
  <2>3. (n + 1 - c) * g <= run * g
    BY <2>1, Multiples
  <2>4. (n + 1 - c) * g <= WINDOW
    <3>1. run * g \in Nat
      OBVIOUS
    <3> QED BY <1>1, <1>7, <2>2, <2>3, <3>1
  <2>5. ages[c] = (n + 1 - c) * g
    BY <2>2, <2>4, CappedAge
  <2> QED BY <1>1, <2>2, <2>4, <2>5
<1>9. run + 1 <= Len(kept)
  BY <1>3, <1>4, <1>8
<1>10. ASSUME NEW i \in 1 .. run + 1
       PROVE  kept[k - (run + 1) + i] = Capped(0 + (run + 1 - i) * g)
  <2>1. CASE i = run + 1
    <3>1. k - (run + 1) + i = k /\ 0 + (run + 1 - i) * g = 0
      BY <1>3, <2>1
    <3>2. Capped(0) = 0
      BY <1>1, CappedAge
    <3> QED BY <1>4, <3>1, <3>2
  <2>2. CASE i # run + 1
    <3>1. PICK j, q : j = n - run + i /\ q = k - (run + 1) + i
      OBVIOUS
    <3>2. /\ j \in n - run + 1 .. n /\ q \in 1 .. n - c /\ c + q = j
          /\ n + 1 - j = run + 1 - i
      BY <1>2, <1>3, <1>8, <2>2, <3>1
    <3>3. ages[j] = Capped((run + 1 - i) * g) /\ (run + 1 - i) * g \in Nat
      BY <1>5, <3>2
    <3>4. kept[q] = ages[j]
      BY <1>4, <3>2
    <3>5. 0 + (run + 1 - i) * g = (run + 1 - i) * g
      BY <3>3
    <3> QED BY <3>1, <3>3, <3>4, <3>5
  <2> QED BY <2>1, <2>2
<1>11. InSteps(kept, r1)
  BY <1>4, <1>9, <1>10 DEF InSteps
<1> QED BY <1>7, <1>11

\* A packet: Connect and Repeat are alike to the detector.
LEMMA CheckedStep ==
    ASSUME BeaconInv, CheckBeacon, CountRun, attempt' \in Attempt \cup {None}
    PROVE  BeaconInv'
<1>1. /\ WINDOW \in Nat /\ WINDOW >= 1 /\ Oldest = WINDOW + 1 /\ Oldest \in Nat
      /\ MIN_EVENTS \in Nat /\ MIN_EVENTS >= 2
      /\ MIN_INTERVAL \in Nat /\ DEBOUNCE \in Nat /\ DEBOUNCE >= 1
  BY BeaconAssumption DEF Oldest
<1>2. PICK g, run, s : g = regular.gap /\ run = regular.run /\ s = regular.since
  OBVIOUS
<1>3. /\ times \in Seq(0 .. Oldest)
      /\ regular \in [gap : 0 .. Oldest, run : 0 .. Oldest + MIN_EVENTS, since : 0 .. Oldest]
      /\ Apart(times) /\ InOrder(times)
      /\ \A i \in DOMAIN times : times[i] >= s
      /\ Wide(g) => (run - 1) * g <= WINDOW /\ InSteps(times, regular)
  BY <1>2 DEF BeaconInv, BeaconTypeOK, Apart
<1>4. g \in 0 .. Oldest /\ run \in 0 .. Oldest + MIN_EVENTS /\ s \in 0 .. Oldest
  BY <1>2, <1>3
<1>5. PICK R : R = IF flagged' # << >> THEN 0
                   ELSE IF s > 0 /\ g = s
                   THEN IF run < Oldest + MIN_EVENTS THEN run + 1 ELSE run
                   ELSE 1
  OBVIOUS
<1>6. regular' = [gap |-> s, run |-> R, since |-> 0]
  BY <1>2, <1>5 DEF CountRun
<1>7. R \in 0 .. Oldest + MIN_EVENTS
  BY <1>1, <1>4, <1>5
<1>8. /\ regular' \in [gap : 0 .. Oldest, run : 0 .. Oldest + MIN_EVENTS, since : 0 .. Oldest]
      /\ regular'.gap = s /\ regular'.run = R /\ regular'.since = 0
  BY <1>1, <1>4, <1>6, <1>7

\* What is left to show of the deque and of what is flagged.
<1>9. SUFFICES
        /\ times' \in Seq(0 .. Oldest) /\ Apart(times') /\ InOrder(times')
        /\ flagged' \in Seq(1 .. WINDOW)
        /\ Wide(s) => (R - 1) * s <= WINDOW /\ InSteps(times', regular')
  <2> SUFFICES ASSUME /\ times' \in Seq(0 .. Oldest) /\ Apart(times') /\ InOrder(times')
                      /\ flagged' \in Seq(1 .. WINDOW)
                      /\ Wide(s) => (R - 1) * s <= WINDOW /\ InSteps(times', regular')
               PROVE  BeaconInv'
    OBVIOUS
  <2>1. \A i \in DOMAIN times' : times'[i] >= regular'.since
    <3>1. \A i \in DOMAIN times' : times'[i] \in 0 .. Oldest
      BY Entries
    <3> QED BY <1>1, <1>8, <3>1
  <2>2. BeaconTypeOK'
    BY <1>8 DEF BeaconTypeOK, Apart
  <2>3. Wide(regular.gap)' => /\ (regular'.run - 1) * regular'.gap <= WINDOW
                              /\ InSteps(times', regular')
    BY <1>8 DEF Wide
  <2> QED BY <2>1, <2>2, <2>3 DEF BeaconInv, InOrder, InSteps, Capped, Wide
<1>10. CASE Debounced(times)
  <2>1. times' = times /\ flagged' = << >>
    BY <1>10 DEF CheckBeacon
  <2>2. ~Wide(s)
    <3>1. PICK n : n = Len(times)
      OBVIOUS
    <3>2. n \in Nat /\ DOMAIN times = 1 .. n
      BY <1>3, <3>1
    <3>3. times # << >> /\ Last(times) = times[n] /\ times[n] < DEBOUNCE
      BY <1>10, <3>1 DEF Debounced, Last
    <3>4. n \in DOMAIN times
      BY <1>3, <3>1, <3>2, <3>3
    <3>5. times[n] >= s
      BY <1>3, <3>4
    <3>6. times[n] \in 0 .. Oldest
      BY <1>3, <3>1, <3>2, <3>4, Entries
    <3> QED BY <1>1, <1>4, <3>3, <3>5, <3>6 DEF Wide
  <2>3. << >> \in Seq(1 .. WINDOW)
    OBVIOUS
  <2> QED BY <1>3, <2>1, <2>2, <2>3
<1>11. CASE ~Debounced(times)
  <2>1. PICK c \in 0 .. Len(times), kept \in Seq(0 .. WINDOW) :
              /\ kept = Kept(times) /\ KeptFrom(kept, times, c)
              /\ InOrder(kept) /\ Apart(kept)
    BY <1>3, <1>11, KeptShape
  <2>2. PICK k : k = Len(kept)
    OBVIOUS
  <2>3. k \in Nat /\ k >= 1 /\ kept[k] = 0
        /\ \A i \in 1 .. k - 1 : kept[i] - kept[i + 1] \in 1 .. WINDOW
    <3>1. k = Len(times) - c + 1 /\ Len(times) \in Nat
      BY <1>3, <2>1, <2>2 DEF KeptFrom
    <3> QED BY <2>1, <2>2, <3>1 DEF KeptFrom
  <2>4. CASE k >= MIN_EVENTS /\ IsRegular(Gaps(kept))
    <3>1. times' = << >> /\ flagged' = Gaps(kept)
      BY <1>11, <2>1, <2>2, <2>4 DEF CheckBeacon
    <3>2. Gaps(kept) \in Seq(1 .. WINDOW) /\ Gaps(kept) # << >>
      <4>1. PICK m, S : m = k - 1 /\ S = 1 .. WINDOW
        OBVIOUS
      <4>2. m \in Nat /\ m >= 1 /\ \A i \in 1 .. m : kept[i] - kept[i + 1] \in S
        BY <1>1, <2>3, <2>4, <4>1
      <4>3. Gaps(kept) = [i \in 1 .. m |-> kept[i] - kept[i + 1]]
        BY <2>2, <4>1 DEF Gaps
      <4>4. PICK f : f = [i \in 1 .. m |-> kept[i] - kept[i + 1]]
        OBVIOUS
      <4>5. f = [i \in 1 .. m |-> f[i]] /\ \A i \in 1 .. m : f[i] \in S
        BY <4>2, <4>4
      <4>6. f \in Seq(S) /\ DOMAIN f = 1 .. m /\ 1 \in 1 .. m
        BY <4>2, <4>5, ByEntries
      <4>7. f # << >>
        <5>1. DOMAIN << >> = {}
          OBVIOUS
        <5> QED BY <4>6, <5>1
      <4> QED BY <4>1, <4>3, <4>4, <4>6, <4>7
    <3>3. R = 0
      BY <1>5, <3>1, <3>2
    <3>4. << >> \in Seq(0 .. Oldest) /\ DOMAIN << >> = {} /\ Len(<< >>) = 0
      OBVIOUS
    <3>5. Apart(<< >>) /\ InOrder(<< >>)
      BY <3>4 DEF Apart, InOrder
    <3>6. (0 - 1) * s <= WINDOW
      <4>1. (0 - 1) * s = 0 - s
        BY <1>4
      <4> QED BY <1>1, <1>4, <4>1
    <3>7. InSteps(<< >>, regular')
      BY <1>8, <3>3, <3>4 DEF InSteps
    <3> QED BY <3>1, <3>2, <3>3, <3>4, <3>5, <3>6, <3>7
  <2>5. CASE k < MIN_EVENTS \/ ~IsRegular(Gaps(kept))
    <3>1. times' = kept /\ flagged' = << >>
      BY <1>1, <1>11, <2>1, <2>2, <2>3, <2>5 DEF CheckBeacon
    <3>2. << >> \in Seq(1 .. WINDOW) /\ kept \in Seq(0 .. Oldest)
      <4>1. \A i \in 1 .. k : kept[i] \in 0 .. Oldest
        <5>1. \A i \in 1 .. k : kept[i] \in 0 .. WINDOW
          BY <2>2, Entries
        <5> QED BY <1>1, <5>1
      <4>2. kept = [i \in 1 .. k |-> kept[i]]
        BY <2>2
      <4>3. kept \in Seq(0 .. Oldest)
        BY <2>3, <4>1, <4>2, ByEntries
      <4> QED BY <4>3
    <3>3. ASSUME Wide(s) PROVE (R - 1) * s <= WINDOW /\ InSteps(kept, regular')
      <4>1. s >= 1 /\ (MIN_EVENTS - 1) * s <= WINDOW
        BY <1>1, <1>4, <3>3 DEF Wide
      <4>2. CASE g = s
        <5>1. g \in Nat /\ run \in Nat /\ Wide(g) /\ (run - 1) * g <= WINDOW
              /\ InSteps(times, regular)
          BY <1>1, <1>3, <1>4, <3>3, <4>2
        <5>2. run < Oldest + MIN_EVENTS
          <6> SUFFICES ASSUME run >= Oldest + MIN_EVENTS PROVE FALSE
            BY <1>1, <5>1
          <6>1. PICK m \in Nat : m = run - 1
            BY <1>1, <5>1
          <6>2. m >= Oldest /\ m * g >= m
            <7>1. m * g = m + m * (g - 1)
              BY <5>1
            <7>2. PICK h \in Nat : h = g - 1
              BY <4>1, <4>2, <5>1
            <7>3. m * h \in Nat
              OBVIOUS
            <7>4. m >= Oldest
              BY <1>1, <5>1, <6>1
            <7> QED BY <1>1, <7>1, <7>2, <7>3, <7>4
          <6>3. m * g \in Nat /\ m * g <= WINDOW
            BY <5>1, <6>1
          <6> QED BY <1>1, <6>2, <6>3
        <5>3. R = run + 1
          <6>1. ~(flagged' # << >>) /\ s > 0 /\ g = s
            BY <1>4, <3>1, <4>1, <4>2
          <6> QED BY <1>5, <5>2, <6>1, Zenon
        <5>4. run * g <= WINDOW /\ InSteps(kept, regular')
          <6>1. regular'.run = run + 1 /\ regular'.since = 0 /\ regular'.gap = g
            BY <1>8, <4>2, <5>3
          <6>2. regular.run = run /\ regular.since = g /\ regular.gap = g
            BY <1>2, <4>2
          <6>3. Len(kept) < MIN_EVENTS \/ ~IsRegular(Gaps(kept))
            BY <2>2, <2>5
          <6>4. PICK r, r1 : r = regular /\ r1 = regular'
            OBVIOUS
          <6>5. /\ r.run = run /\ r.since = g /\ r.gap = g /\ InSteps(times, r)
                /\ r1.run = run + 1 /\ r1.since = 0 /\ r1.gap = g
            BY <5>1, <6>1, <6>2, <6>4
          <6>6. run * g <= WINDOW /\ InSteps(kept, r1)
            BY <1>3, <2>1, <5>1, <6>3, <6>5, RunGoesOn
          <6> QED BY <6>4, <6>6
        <5>5. R - 1 = run
          BY <5>1, <5>3
        <5> QED BY <4>2, <5>4, <5>5
      <4>3. CASE g # s
        <5>1. R = 1
          BY <1>5, <3>1, <4>3
        <5>2. (1 - 1) * s = 0
          BY <1>4
        <5>3. InSteps(kept, regular')
          <6>1. ASSUME NEW i \in 1 .. 1
                PROVE  kept[Len(kept) - 1 + i] = Capped(0 + (1 - i) * s)
            <7>1. Len(kept) - 1 + i = k /\ (1 - i) * s = 0 /\ i = 1
              BY <1>4, <2>2, <2>3
            <7>2. Capped(0) = 0
              BY <1>1, CappedAge
            <7> QED BY <2>3, <7>1, <7>2
          <6> QED BY <1>8, <2>2, <2>3, <5>1, <6>1 DEF InSteps
        <5> QED BY <1>1, <5>1, <5>2, <5>3
      <4> QED BY <4>2, <4>3
    <3> QED BY <2>1, <3>1, <3>2, <3>3
  <2> QED BY <1>1, <2>3, <2>4, <2>5
<1> QED BY <1>10, <1>11

\* Everything grows older by one.
LEMMA OlderStep == ASSUME BeaconInv, BeaconTick PROVE BeaconInv'
<1>1. /\ WINDOW \in Nat /\ Oldest = WINDOW + 1 /\ Oldest \in Nat
      /\ MIN_EVENTS \in Nat /\ MIN_EVENTS >= 2 /\ DEBOUNCE \in Nat /\ MIN_INTERVAL \in Nat
  BY BeaconAssumption DEF Oldest
<1>2. PICK g, run, s, n : /\ g = regular.gap /\ run = regular.run /\ s = regular.since
                          /\ n = Len(times)
  OBVIOUS
<1>3. /\ times \in Seq(0 .. Oldest) /\ attempt \in Attempt \cup {None}
      /\ regular \in [gap : 0 .. Oldest, run : 0 .. Oldest + MIN_EVENTS, since : 0 .. Oldest]
      /\ Apart(times) /\ InOrder(times)
      /\ \A i \in DOMAIN times : times[i] >= s
      /\ Wide(g) => (run - 1) * g <= WINDOW /\ InSteps(times, regular)
  BY <1>2 DEF BeaconInv, BeaconTypeOK, Apart
<1>4. /\ g \in 0 .. Oldest /\ run \in 0 .. Oldest + MIN_EVENTS /\ s \in 0 .. Oldest
      /\ n \in Nat /\ DOMAIN times = 1 .. n
  BY <1>2, <1>3
<1>5. /\ times' = [i \in DOMAIN times |-> Aged(times[i])]
      /\ attempt' = IF attempt = None THEN None ELSE [attempt EXCEPT !.age = @ + 1]
      /\ regular' = [regular EXCEPT !.since = Aged(@)]
      /\ flagged' = << >>
  BY DEF BeaconTick
<1>6. \A a \in 0 .. Oldest : /\ Aged(a) \in 0 .. Oldest /\ Aged(a) <= a + 1
                             /\ Aged(a) <= WINDOW => Aged(a) = a + 1
                             /\ \A b \in 0 .. Oldest : a <= b => Aged(a) <= Aged(b)
  BY <1>1 DEF Aged
<1>8. \A i \in 1 .. n : times[i] \in 0 .. Oldest
  <2>1. PICK S : S = 0 .. Oldest
    OBVIOUS
  <2>2. times \in Seq(S)
    BY <1>3, <2>1
  <2>3. \A i \in 1 .. Len(times) : times[i] \in S
    BY <2>2, Entries
  <2> QED BY <1>2, <2>1, <2>3
<1>9. /\ times' \in Seq(0 .. Oldest) /\ Len(times') = n /\ DOMAIN times' = 1 .. n
      /\ \A i \in 1 .. n : times'[i] = Aged(times[i])
  <2>1. \A i \in 1 .. n : Aged(times[i]) \in 0 .. Oldest
    BY <1>6, <1>8, Zenon
  <2>2. PICK f : f = [i \in 1 .. n |-> Aged(times[i])]
    OBVIOUS
  <2>3. f = [i \in 1 .. n |-> f[i]] /\ \A i \in 1 .. n : f[i] \in 0 .. Oldest
    BY <2>1, <2>2, Zenon
  <2>4. f \in Seq(0 .. Oldest) /\ Len(f) = n /\ DOMAIN f = 1 .. n
    BY <1>4, <2>3, ByEntries
  <2>5. times' = f
    BY <1>4, <1>5, <2>2
  <2> QED BY <2>2, <2>4, <2>5
<1>10. /\ regular' \in [gap : 0 .. Oldest, run : 0 .. Oldest + MIN_EVENTS, since : 0 .. Oldest]
       /\ regular'.gap = g /\ regular'.run = run /\ regular'.since = Aged(s)
  <2>1. Aged(s) \in 0 .. Oldest
    BY <1>4, <1>6, Zenon
  <2> QED BY <1>2, <1>3, <1>5, <2>1
<1>11. attempt' \in Attempt \cup {None}
  BY <1>3, <1>5 DEF Attempt
<1>12. Apart(times')
  <2> SUFFICES ASSUME NEW i \in 1 .. n - 1, times'[i] <= WINDOW
               PROVE  times'[i] >= times'[i + 1] + DEBOUNCE
    BY <1>9 DEF Apart
  <2>1. PICK a, b : a = times[i] /\ b = times[i + 1]
    OBVIOUS
  <2>2. /\ i \in 1 .. n /\ i + 1 \in 1 .. n /\ a \in 0 .. Oldest /\ b \in 0 .. Oldest
        /\ times'[i] = Aged(a) /\ times'[i + 1] = Aged(b)
    BY <1>4, <1>8, <1>9, <2>1
  <2>3. Aged(a) = a + 1 /\ Aged(b) <= b + 1 /\ Aged(b) \in 0 .. Oldest
    BY <1>6, <2>2, Zenon
  <2>4. a <= WINDOW => a >= b + DEBOUNCE
    BY <1>2, <1>3, <2>1 DEF Apart
  <2> QED BY <1>1, <2>2, <2>3, <2>4
<1>13. InOrder(times')
  <2> SUFFICES ASSUME NEW i \in 1 .. n, NEW j \in 1 .. n, i <= j
               PROVE  times'[j] <= times'[i]
    BY <1>9 DEF InOrder
  <2>1. times[j] <= times[i] /\ times[i] \in 0 .. Oldest /\ times[j] \in 0 .. Oldest
    BY <1>3, <1>4, <1>8 DEF InOrder
  <2> QED BY <1>6, <1>9, <2>1, Zenon
<1>14. \A i \in DOMAIN times' : times'[i] >= regular'.since
  <2> SUFFICES ASSUME NEW i \in 1 .. n PROVE Aged(s) <= Aged(times[i])
    <3>1. \A i \in 1 .. n : Aged(s) <= times'[i]
      BY <1>9, Zenon
    <3>2. \A i \in 1 .. n : times'[i] \in 0 .. Oldest
      BY <1>6, <1>8, <1>9, Zenon
    <3>3. Aged(s) \in 0 .. Oldest
      BY <1>4, <1>6, Zenon
    <3> QED BY <1>1, <1>9, <1>10, <3>1, <3>2, <3>3
  <2>1. times[i] >= s /\ times[i] \in 0 .. Oldest
    BY <1>3, <1>4, <1>8
  <2>2. s <= times[i]
    BY <1>1, <1>4, <2>1
  <2> QED BY <1>4, <1>6, <2>1, <2>2, Zenon
<1>15. ASSUME Wide(g) PROVE InSteps(times', regular')
  <2>1. InSteps(times, regular)
    BY <1>3, <1>15
  <2>2. ASSUME NEW i \in 1 .. run
        PROVE  times'[n - run + i] = Capped(Aged(s) + (run - i) * g)
    <3>1. PICK m : m = (run - i) * g
      OBVIOUS
    <3>2. m \in Nat /\ run \in Nat /\ s \in Nat /\ s \in 0 .. Oldest
      BY <1>1, <1>4, <3>1
    <3>3. n - run + i \in 1 .. n /\ times[n - run + i] = Capped(s + m)
      BY <1>2, <1>4, <2>1, <3>1, <3>2 DEF InSteps
    <3>4. times'[n - run + i] = Aged(Capped(s + m))
      BY <1>9, <3>3
    <3>5. Aged(Capped(s + m)) = Capped(Aged(s) + m)
      BY <1>1, <3>2 DEF Aged, Capped
    <3> QED BY <3>1, <3>4, <3>5
  <2>3. run <= n
    BY <1>2, <2>1 DEF InSteps
  <2> QED BY <1>9, <1>10, <2>2, <2>3 DEF InSteps
<1>16. << >> \in Seq(1 .. WINDOW)
  OBVIOUS
<1>17. BeaconTypeOK'
  BY <1>5, <1>9, <1>10, <1>11, <1>12, <1>16 DEF BeaconTypeOK, Apart
<1>18. Wide(g) => (run - 1) * g <= WINDOW
  BY <1>3
<1> QED BY <1>10, <1>13, <1>14, <1>15, <1>17, <1>18
       DEF BeaconInv, InOrder, InSteps, Capped, Wide

LEMMA BeaconInvariant == BeaconSpec => []BeaconInv
<1>1. BeaconInit => BeaconInv
  <2> SUFFICES ASSUME BeaconInit PROVE BeaconInv
    OBVIOUS
  <2>1. /\ times = << >> /\ attempt = None /\ flagged = << >>
        /\ regular = [gap |-> 0, run |-> 0, since |-> 0]
    BY DEF BeaconInit
  <2>2. Oldest \in Nat /\ MIN_EVENTS \in Nat /\ WINDOW \in Nat
    BY BeaconAssumption DEF Oldest
  <2>3. DOMAIN times = {} /\ Len(times) = 0
    BY <2>1
  <2>4. times \in Seq(0 .. Oldest) /\ flagged \in Seq(1 .. WINDOW)
    BY <2>1
  <2>5. regular \in [gap : 0 .. Oldest, run : 0 .. Oldest + MIN_EVENTS, since : 0 .. Oldest]
    BY <2>1, <2>2
  <2>6. BeaconTypeOK
    BY <2>1, <2>3, <2>4, <2>5 DEF BeaconTypeOK
  <2>7. (regular.run - 1) * regular.gap <= WINDOW /\ InSteps(times, regular)
    BY <2>1, <2>2, <2>3 DEF InSteps
  <2> QED BY <2>3, <2>6, <2>7 DEF BeaconInv, InOrder
<1>2. BeaconInv /\ [BeaconNext]_beaconVars => BeaconInv'
  <2> SUFFICES ASSUME BeaconInv, [BeaconNext]_beaconVars PROVE BeaconInv'
    OBVIOUS
  <2>1. Retransmit \in Seq(Nat \ {0}) /\ SYNs = Len(Retransmit) + 1 /\ Len(Retransmit) \in Nat
    BY BeaconAssumption DEF SYNs
  <2>2. CASE Connect
    <3>1. attempt' \in Attempt /\ CheckBeacon /\ CountRun
      BY <2>1, <2>2 DEF Connect, Attempt
    <3> QED BY <3>1, CheckedStep
  <2>3. CASE Repeat
    <3>1. /\ attempt \in Attempt /\ attempt.sent <= Len(Retransmit)
          /\ attempt' = [attempt EXCEPT !.sent = @ + 1] /\ CheckBeacon /\ CountRun
      BY <2>3 DEF Repeat, Due, BeaconInv, BeaconTypeOK
    <3>2. attempt' \in Attempt
      BY <2>1, <3>1 DEF Attempt
    <3> QED BY <3>1, <3>2, CheckedStep
  <2>4. CASE GiveUp
    BY <2>4 DEF GiveUp, BeaconInv, BeaconTypeOK, InOrder, InSteps, Capped, Wide
  <2>5. CASE BeaconTick
    BY <2>5, OlderStep
  <2>6. CASE UNCHANGED beaconVars
    BY <2>6 DEF beaconVars, BeaconInv, BeaconTypeOK, InOrder, InSteps, Capped, Wide
  <2> QED BY <2>2, <2>3, <2>4, <2>5, <2>6 DEF BeaconNext
<1> QED BY <1>1, <1>2, PTL DEF BeaconSpec

\* Types of the beacon detector; the deque's entries are apart by the debounce
\* time, for all windows and limits (firewall_events.py:122-126).
THEOREM BeaconTypes == BeaconSpec => []BeaconTypeOK
<1>1. BeaconInv => BeaconTypeOK
  BY DEF BeaconInv
<1> QED BY <1>1, BeaconInvariant, PTL

\* For all windows, limits and repetitions, a steady beacon is flagged at the
\* latest when all that came before it is out of the window: the deviation from
\* the mean of equal gaps is nothing (firewall_events.py:104-132).
THEOREM BeaconsAreFlagged == BeaconSpec => []SteadyBeaconFlagged
<1>1. BeaconInv => SteadyBeaconFlagged
  BY DEF BeaconInv, Wide, SteadyBeaconFlagged
<1> QED BY <1>1, BeaconInvariant, PTL

\* What is flagged is regular, so it is in any set that holds all regular lists.
LEMMA FlaggedIsAmong ==
    ASSUME NEW CONSTANT G, \A g \in Seq(1 .. WINDOW) : IsRegular(g) => g \in G
    PROVE  BeaconSpec => [](flagged # << >> => flagged \in G)
<1> DEFINE Among == flagged # << >> => flagged \in G
<1>1. BeaconInit => Among
  BY DEF BeaconInit
<1>2. BeaconTypeOK' /\ Among /\ [BeaconNext]_beaconVars => Among'
  <2> SUFFICES ASSUME flagged' \in Seq(1 .. WINDOW), Among, [BeaconNext]_beaconVars
               PROVE  flagged' # << >> => flagged' \in G
    BY DEF BeaconTypeOK
  <2>1. ASSUME CheckBeacon PROVE flagged' # << >> => IsRegular(flagged')
    BY <2>1 DEF CheckBeacon
  <2>2. CASE Connect \/ Repeat
    BY <2>1, <2>2 DEF Connect, Repeat
  <2>3. CASE GiveUp \/ BeaconTick
    BY <2>3 DEF GiveUp, BeaconTick
  <2>4. CASE UNCHANGED beaconVars
    BY <2>4 DEF beaconVars
  <2> QED BY <2>2, <2>3, <2>4 DEF BeaconNext
<1> QED BY <1>1, <1>2, BeaconTypes, PTL DEF BeaconSpec

\* For all windows, limits and numbers of gaps, no alert is raised for traffic
\* with two gaps that exceed the limit by themselves: the deviation of a list is
\* at least what those two add to a steady one (firewall_events.py:107-132).
THEOREM UnevenIsNotFlagged == BeaconSpec => []FlaggedIsSteady
<1> DEFINE Even(g) ==
             \A i, j \in DOMAIN g : i # j => ~TooUneven(g[i], g[j], Len(g))
<1>1. PICK G : G = { g \in Seq(1 .. WINDOW) : Even(g) }
  OBVIOUS
<1>2. BeaconSpec => [](flagged # << >> => flagged \in G)
  <2>1. \A g \in Seq(1 .. WINDOW) : IsRegular(g) => g \in G
    BY <1>1, RegularIsSteady
  <2> QED BY <2>1, FlaggedIsAmong
<1>3. (flagged # << >> => flagged \in G) => FlaggedIsSteady
  <2> SUFFICES ASSUME flagged # << >> => flagged \in G,
                      NEW i \in DOMAIN flagged, NEW j \in DOMAIN flagged, i # j
               PROVE  ~TooUneven(flagged[i], flagged[j], Len(flagged))
    BY DEF FlaggedIsSteady
  <2>1. flagged \in G
    OBVIOUS
  <2> QED BY <1>1, <2>1
<1> QED BY <1>2, <1>3, PTL

\* With the code's limit of 35 % or a lower one, and the four gaps of an alert
\* that MIN_EVENTS packets raise, the longest is less than 3.3 times the shortest
\* (firewall_events.py:37-39, 127-132).
THEOREM FourGapsAreAlike ==
    ASSUME MAX_CV <= 35
    PROVE  BeaconSpec => [](Len(flagged) = 4 =>
                              \A i, j \in DOMAIN flagged : 10 * flagged[i] < 33 * flagged[j])
<1>1. ASSUME NEW x \in Nat \ {0}, NEW y \in Nat \ {0}, ~TooUneven(x, y, 4)
      PROVE  10 * x < 33 * y
  <2>1. PICK a, b \in Nat : /\ a = (x - y) * (x - y)
                            /\ b = (x + y) * (x + y) + 2 * (x * x + y * y)
    <3>1. (x - y) * (x - y) \in Nat
      BY SquareIsNat
    <3> QED BY <3>1
  <2>2. PICK c \in Nat : c = MAX_CV * MAX_CV /\ c <= 1225
    <3>1. MAX_CV \in 0 .. 35
      BY BeaconAssumption
    <3>2. MAX_CV * MAX_CV <= MAX_CV * 35 /\ MAX_CV * MAX_CV \in Nat
      BY <3>1, MulMono
    <3> QED BY <3>1, <3>2
  <2>3. 10000 * a <= c * b
    <3>1. 10000 * (x - y) * (x - y) = 10000 * a
      BY <2>1
    <3>2. MAX_CV * MAX_CV * ((x + y) * (x + y) + (4 - 2) * (x * x + y * y)) = c * b
      BY <2>1, <2>2
    <3>3. 10000 * a \in Int /\ c * b \in Int
      OBVIOUS
    <3> QED BY <1>1, <3>1, <3>2, <3>3 DEF TooUneven
  <2>4. b * c <= b * 1225
    BY <2>2, MulMono
  <2>5. 10000 * a <= 1225 * b
    <3>1. c * b = b * c /\ b * 1225 = 1225 * b /\ b * c \in Int
      OBVIOUS
    <3> QED BY <2>3, <2>4, <3>1
  <2>6. PairWithin(1225, x, y, 2)
    BY <2>1, <2>5 DEF PairWithin
  <2> QED BY <2>6, FourAreEven
<1>2. BeaconTypeOK /\ FlaggedIsSteady =>
        (Len(flagged) = 4 =>
           \A i, j \in DOMAIN flagged : 10 * flagged[i] < 33 * flagged[j])
  <2> SUFFICES ASSUME flagged \in Seq(1 .. WINDOW), FlaggedIsSteady, Len(flagged) = 4,
                      NEW i \in DOMAIN flagged, NEW j \in DOMAIN flagged
               PROVE  10 * flagged[i] < 33 * flagged[j]
    BY DEF BeaconTypeOK
  <2>1. PICK x, y : x = flagged[i] /\ y = flagged[j]
    OBVIOUS
  <2>2. x \in Nat \ {0} /\ y \in Nat \ {0}
    <3>1. PICK S : S = 1 .. WINDOW
      OBVIOUS
    <3>2. x \in S /\ y \in S
      BY <2>1, <3>1, Entries
    <3> QED BY <3>1, <3>2, BeaconAssumption
  <2>3. CASE i = j
    BY <2>1, <2>2, <2>3
  <2>4. CASE i # j
    <3>1. ~TooUneven(x, y, 4)
      BY <2>1, <2>4 DEF FlaggedIsSteady
    <3> QED BY <1>1, <2>1, <2>2, <3>1
  <2> QED BY <2>3, <2>4
<1> QED BY <1>2, BeaconTypes, UnevenIsNotFlagged, PTL
=============================================================================
