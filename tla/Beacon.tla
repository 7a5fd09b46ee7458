-------------------------------- MODULE Beacon --------------------------------
(***************************************************************************)
(* check_beacon() of detection/rules/firewall_events.py for one key        *)
(* (source, destination, port, protocol), and the host whose denied SYNs   *)
(* it sees, retransmissions included.                                      *)
(*                                                                         *)
(* A time in the deque is kept as its age, so the clock has no bound; the  *)
(* code's seconds are whole ticks here.  An entry's age stops growing when *)
(* it is out of the window.                                                *)
(***************************************************************************)
EXTENDS Naturals, SequencesExt, Pruning

CONSTANTS
    WINDOW,        \* BEACON_WINDOW (60 s)
    MIN_EVENTS,    \* BEACON_MIN_EVENTS (5)
    MIN_INTERVAL,  \* BEACON_MIN_INTERVAL (0.5 s)
    MAX_CV,        \* BEACON_MAX_CV in percent (35)
    DEBOUNCE,      \* BEACON_DEBOUNCE (2 s)
    Retransmit,    \* ages of a SYN at which TCP repeats it (1 s, 3 s, ...)
    None           \* no connection attempt under way

ASSUME BeaconAssumption ==
    /\ WINDOW \in Nat \ {0} /\ MIN_EVENTS \in Nat \ {0, 1}
    /\ MIN_INTERVAL \in Nat /\ MAX_CV \in 0 .. 100
    /\ DEBOUNCE \in Nat \ {0}
    /\ Retransmit \in Seq(Nat \ {0})

VARIABLES
    times,    \* _beacon_times of the key, oldest first
    attempt,  \* the host's attempt: its age and the SYNs sent
    regular,  \* history: the last packets came at one gap, so many times in a row
              \*   since the last alert; since: ticks since the last packet
    flagged   \* the gaps of the deque that the last packet raised C2_BEACON for

beaconVars == <<times, attempt, regular, flagged>>

Oldest == WINDOW + 1

SYNs == Len(Retransmit) + 1
Attempt == [age : Nat, sent : 1 .. SYNs]

BeaconTypeOK ==
    /\ times \in Seq(0 .. Oldest)
    /\ attempt \in Attempt \cup {None}
    /\ regular \in [gap : 0 .. Oldest, run : 0 .. Oldest + MIN_EVENTS, since : 0 .. Oldest]
    /\ flagged \in Seq(1 .. WINDOW)
    \* Entries of the deque are apart by more than a retransmission.
    /\ \A i \in 1 .. Len(times) - 1 :
          times[i] <= WINDOW => times[i] >= times[i + 1] + DEBOUNCE

BeaconInit ==
    /\ times = << >>
    /\ attempt = None
    /\ regular = [gap |-> 0, run |-> 0, since |-> 0]
    /\ flagged = << >>

-----------------------------------------------------------------------------
Gaps(ages) == [i \in 1 .. Len(ages) - 1 |-> ages[i] - ages[i + 1]]

Total(seq) == FoldSeq(LAMBDA x, y : x + y, 0, seq)

\* interval_regularity() and its two comparisons, in whole numbers: with n gaps
\* of sum S and of squares Q, (sd / mean)^2 = (n Q - S^2) / S^2.  The variant
\* compares the variance with the limit on its root.
IsRegularVariance(gaps) ==
    LET n == Len(gaps)
        S == Total(gaps)
        Q == Total([i \in 1 .. n |-> gaps[i] * gaps[i]])
    IN  /\ S >= n * MIN_INTERVAL
        /\ 100 * (n * Q - S * S) <= MAX_CV * S * S

IsRegular(gaps) ==
    LET n == Len(gaps)
        S == Total(gaps)
        Q == Total([i \in 1 .. n |-> gaps[i] * gaps[i]])
    IN  /\ S >= n * MIN_INTERVAL
        /\ 10000 * (n * Q - S * S) <= MAX_CV * MAX_CV * S * S

\* Variant: the packet is compared with the first entry, not the last.
DebouncedFirst(ages) == ages # << >> /\ Head(ages) < DEBOUNCE

Debounced(ages) == ages # << >> /\ Last(ages) < DEBOUNCE

\* append(now), then popleft() while the first is older than the window.
Kept(ages) ==
    Append(Pruned(ages, { i \in DOMAIN ages : ages[i] > WINDOW }), 0)

\* Variant: more than MIN_EVENTS are needed.
CheckBeaconAbove ==
    IF Debounced(times)
    THEN UNCHANGED times /\ flagged' = << >>
    ELSE LET kept == Kept(times)
         IN  IF Len(kept) > MIN_EVENTS /\ IsRegular(Gaps(kept))
             THEN times' = << >> /\ flagged' = Gaps(kept)
             ELSE times' = kept /\ flagged' = << >>

\* check_beacon() for a packet now.
CheckBeacon ==
    IF Debounced(times)
    THEN UNCHANGED times /\ flagged' = << >>
    ELSE LET kept == Kept(times)
         IN  IF Len(kept) >= MIN_EVENTS /\ IsRegular(Gaps(kept))
             THEN times' = << >> /\ flagged' = Gaps(kept)
             ELSE times' = kept /\ flagged' = << >>

\* The history of a packet now.
CountRun ==
    LET again == regular.since > 0 /\ regular.gap = regular.since
    IN  regular' = [gap |-> regular.since,
                    run |-> IF flagged' # << >> THEN 0
                            ELSE IF again
                            THEN IF regular.run < Oldest + MIN_EVENTS
                                 THEN regular.run + 1 ELSE regular.run
                            ELSE 1,
                    since |-> 0]

-----------------------------------------------------------------------------
\* The host tries to connect to the denied address.
Connect ==
    /\ attempt = None
    /\ attempt' = [age |-> 0, sent |-> 1]
    /\ CheckBeacon
    /\ CountRun

Due ==
    /\ attempt # None
    /\ attempt.sent <= Len(Retransmit)
    /\ attempt.age = Retransmit[attempt.sent]

\* TCP repeats the SYN.
Repeat ==
    /\ Due
    /\ attempt' = [attempt EXCEPT !.sent = @ + 1]
    /\ CheckBeacon
    /\ CountRun

\* connect() times out.
GiveUp ==
    /\ attempt # None
    /\ attempt' = None
    /\ UNCHANGED <<times, regular, flagged>>

Aged(a) == IF a < Oldest THEN a + 1 ELSE a

\* Time passes; a repetition that is due is sent or its attempt given up first.
BeaconTick ==
    /\ ~Due
    /\ attempt # None => attempt.sent <= Len(Retransmit)
    /\ times' = [i \in DOMAIN times |-> Aged(times[i])]
    /\ attempt' = IF attempt = None THEN None ELSE [attempt EXCEPT !.age = @ + 1]
    /\ regular' = [regular EXCEPT !.since = Aged(@)]
    /\ flagged' = << >>

BeaconNext == Connect \/ Repeat \/ GiveUp \/ BeaconTick

BeaconSpec == BeaconInit /\ [][BeaconNext]_beaconVars

-----------------------------------------------------------------------------
\* Beacons are flagged, whatever the deque held before: packets that keep coming
\* at one gap, no shorter than the debounce time and the least mean interval and
\* so that MIN_EVENTS of them fit the window, are flagged at the latest when all
\* that was before is out of the window (firewall_events.py:117-132).
SteadyBeaconFlagged ==
    /\ regular.gap >= DEBOUNCE /\ regular.gap >= MIN_INTERVAL
    /\ (MIN_EVENTS - 1) * regular.gap <= WINDOW
    => (regular.run - 1) * regular.gap <= WINDOW

\* The least a list of n gaps with x and y in it deviates is when the others
\* are alike; then it is this, against the limit.
TooUneven(x, y, n) ==
    10000 * (x - y) * (x - y)
        > MAX_CV * MAX_CV * ((x + y) * (x + y) + (n - 2) * (x * x + y * y))

\* Irregular traffic is not: among the gaps an alert was raised for, no two are
\* so unlike that they alone would exceed the limit, however steady the others
\* have been.  With the four gaps of MIN_EVENTS packets and the code's 35 %, none
\* is 3.3 times another (firewall_events.py:107-114, 130-132).
FlaggedIsSteady ==
    \A i, j \in DOMAIN flagged :
        i # j => ~TooUneven(flagged[i], flagged[j], Len(flagged))

=============================================================================
