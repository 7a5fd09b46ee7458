-------------------------- MODULE Containment_proofs --------------------------
(***************************************************************************)
(* Proofs about containment on the gateway, for any number of sources,     *)
(* window, threshold, lag and bounds: what inserting and deleting rules    *)
(* does to the sources on the chain, that a block an armed responder has   *)
(* made is effective and that a dry run contains nobody; and, from the     *)
(* account the responder's memory keeps of the alerts written, that it     *)
(* blocks nobody without cause and misses no offender it could read about. *)
(* With the playbook beside it: that every rule is earned, that its blocks *)
(* stay effective, and that what the playbook appends contains nobody.      *)
(***************************************************************************)
EXTENDS AutoBlock, Lists_proofs

-----------------------------------------------------------------------------
(***************************************************************************)
(* The chain.                                                              *)
(***************************************************************************)

\* A rule in front contains its source and leaves the others as they are.
LEMMA InsertContains ==
    ASSUME chain \in Seq(Rule), NEW s \in Sources, InsertDrop(s)
    PROVE  /\ chain' \in Seq(Rule)
           /\ Contained(s)'
           /\ \A t \in Sources : Contained(t) => Contained(t)'
<1>1. s # Conduits /\ s \in Rule
  BY ConduitsAssumption DEF Rule
<1>2. chain' = <<s>> \o chain /\ chain' \in Seq(Rule) /\ Len(chain') = Len(chain) + 1
  BY <1>1 DEF InsertDrop
<1>3. /\ chain'[1] = s
      /\ \A i \in 1 .. Len(chain) : chain'[i + 1] = chain[i]
  BY <1>1, <1>2
<1>4. \A j \in Positions(Conduits)' : 2 <= j /\ j - 1 \in Positions(Conduits)
  <2> SUFFICES ASSUME NEW j \in 1 .. Len(chain) + 1, chain'[j] = Conduits
               PROVE  2 <= j /\ j - 1 \in Positions(Conduits)
    BY <1>2 DEF Positions
  <2>1. j # 1
    BY <1>1, <1>3
  <2>2. j - 1 \in 1 .. Len(chain) /\ chain[j - 1] = chain'[j]
    BY <1>3, <2>1
  <2> QED BY <2>1, <2>2 DEF Positions
<1>5. Contained(s)'
  <2>1. 1 \in Positions(s)'
    BY <1>2, <1>3 DEF Positions
  <2> QED BY <1>4, <2>1 DEF Contained, Positions
<1>6. ASSUME NEW t \in Sources, Contained(t) PROVE Contained(t)'
  <2>1. PICK i \in Positions(t) : \A j \in Positions(Conduits) : i < j
    BY <1>6 DEF Contained
  <2>2. i \in 1 .. Len(chain) /\ i + 1 \in Positions(t)'
    BY <1>2, <1>3, <2>1 DEF Positions
  <2>3. \A j \in Positions(Conduits)' : i + 1 < j
    BY <1>2, <1>4, <2>1, <2>2 DEF Positions
  <2> QED BY <2>2, <2>3 DEF Contained
<1> QED BY <1>2, <1>5, <1>6

\* Positions and containment on any list of rules.
At(c, r) == { i \in DOMAIN c : c[i] = r }
Ahead(c, s) == \E i \in At(c, s) : \A j \in At(c, Conduits) : i < j

\* From c to q rules of s went, and nothing else changed.
OnlyItsRulesWent(c, q, s) ==
    /\ q \in Seq(Rule)
    /\ \A t \in Sources : Ahead(q, t) => Ahead(c, t)
    /\ \A t \in Sources \ {s} : Ahead(c, t) => Ahead(q, t)
    /\ \A r : At(q, r) # {} => At(c, r) # {}
    /\ \A r : r # s => (At(c, r) # {} => At(q, r) # {})

\* Deleting the rule at k leaves the order of all other rules.
LEMMA RemovedRules ==
    ASSUME NEW c \in Seq(Rule), NEW k \in DOMAIN c
    PROVE  /\ RemoveAt(c, k) \in Seq(Rule) /\ Len(RemoveAt(c, k)) = Len(c) - 1
           /\ \A i \in 1 .. k - 1 : RemoveAt(c, k)[i] = c[i]
           /\ \A i \in k .. Len(c) - 1 : RemoveAt(c, k)[i] = c[i + 1]
<1> DEFINE l == SubSeq(c, 1, k - 1)
           r == SubSeq(c, k + 1, Len(c))
<1>0. PICK q : q = RemoveAt(c, k)
  OBVIOUS
<1>1. k \in 1 .. Len(c) /\ Len(c) \in Nat
  OBVIOUS
<1>2. l \in Seq(Rule) /\ Len(l) = k - 1 /\ \A i \in 1 .. k - 1 : l[i] = c[i]
  BY <1>1
<1>3. /\ r \in Seq(Rule) /\ Len(r) = Len(c) - k
      /\ \A i \in 1 .. Len(c) - k : r[i] = c[k + i]
  BY <1>1
<1>4. q = l \o r
  BY <1>0 DEF RemoveAt
<1> HIDE DEF l, r
<1>5. q \in Seq(Rule) /\ Len(q) = Len(c) - 1
  BY <1>1, <1>2, <1>3, <1>4
<1>6. ASSUME NEW i \in 1 .. k - 1 PROVE q[i] = c[i]
  BY <1>1, <1>2, <1>3, <1>4
<1>7. ASSUME NEW i \in k .. Len(c) - 1 PROVE q[i] = c[i + 1]
  <2>1. q[i] = r[i - (k - 1)] /\ i - (k - 1) \in 1 .. Len(c) - k
    BY SMTT(60), <1>1, <1>2, <1>3, <1>4
  <2>2. k + (i - (k - 1)) = i + 1
    BY <1>1
  <2> QED BY <1>3, <2>1, <2>2
<1> QED BY <1>0, <1>5, <1>6, <1>7

\* Deleting a rule of s contains nobody, and frees nobody else.
LEMMA RemovalTouchesOnlyIts ==
    ASSUME NEW c \in Seq(Rule), NEW k \in DOMAIN c, NEW s \in Sources, c[k] = s
    PROVE  OnlyItsRulesWent(c, RemoveAt(c, k), s)
<1>1. PICK q : q = RemoveAt(c, k)
  OBVIOUS
<1>2. k \in 1 .. Len(c) /\ c[k] = s /\ s # Conduits
  BY ConduitsAssumption
<1>3. /\ q \in Seq(Rule) /\ Len(q) = Len(c) - 1
      /\ \A i \in 1 .. k - 1 : q[i] = c[i]
      /\ \A i \in k .. Len(c) - 1 : q[i] = c[i + 1]
  BY <1>1, RemovedRules
<1> DEFINE Old(i) == IF i < k THEN i ELSE i + 1
           New(i) == IF i < k THEN i ELSE i - 1
<1>4. ASSUME NEW r, NEW i \in At(q, r) PROVE i \in Int /\ Old(i) \in At(c, r)
  <2>1. i \in 1 .. Len(c) - 1 /\ q[i] = r
    BY <1>3 DEF At
  <2>2. CASE i < k
    BY <1>2, <1>3, <2>1, <2>2 DEF At
  <2>3. CASE ~(i < k)
    BY SMTT(60), <1>2, <1>3, <2>1, <2>3 DEF At
  <2> QED BY <2>1, <2>2, <2>3
<1>5. ASSUME NEW r, r # s, NEW i \in At(c, r)
      PROVE  i \in Int /\ i # k /\ New(i) \in At(q, r)
  <2>1. i \in 1 .. Len(c) /\ c[i] = r /\ i # k
    BY <1>2, <1>5 DEF At
  <2>2. CASE i < k
    BY <1>2, <1>3, <2>1, <2>2 DEF At
  <2>3. CASE ~(i < k)
    <3>1. i - 1 \in k .. Len(c) - 1
      BY <1>2, <2>1, <2>3
    <3>2. i - 1 + 1 = i
      BY <2>1
    <3>3. q[i - 1] = r
      BY <1>3, <2>1, <3>1, <3>2
    <3> QED BY <1>2, <1>3, <2>1, <2>3, <3>1, <3>3 DEF At
  <2> QED BY <2>1, <2>2, <2>3
<1>6. ASSUME NEW t \in Sources, Ahead(q, t) PROVE Ahead(c, t)
  <2>1. PICK i \in At(q, t) : \A j \in At(q, Conduits) : i < j
    BY <1>6 DEF Ahead
  <2>2. Old(i) \in At(c, t) /\ i \in Int
    BY <1>4
  <2>3. ASSUME NEW j \in At(c, Conduits) PROVE Old(i) < j
    <3>1. j \in Int /\ j # k /\ New(j) \in At(q, Conduits)
      BY <1>2, <1>5
    <3>2. i < New(j)
      BY <2>1, <3>1
    <3> QED BY <1>2, <2>2, <3>1, <3>2
  <2> QED BY <2>2, <2>3 DEF Ahead
<1>7. ASSUME NEW t \in Sources \ {s}, Ahead(c, t) PROVE Ahead(q, t)
  <2>1. PICK i \in At(c, t) : \A j \in At(c, Conduits) : i < j
    BY <1>7 DEF Ahead
  <2>2. New(i) \in At(q, t) /\ i \in Int /\ i # k
    BY <1>5
  <2>3. ASSUME NEW j \in At(q, Conduits) PROVE New(i) < j
    <3>1. j \in Int /\ Old(j) \in At(c, Conduits)
      BY <1>4
    <3>2. i < Old(j)
      BY <2>1, <3>1
    <3> QED BY <1>2, <2>2, <3>1, <3>2
  <2> QED BY <2>2, <2>3 DEF Ahead
<1>8. \A r : At(q, r) # {} => At(c, r) # {}
  BY <1>4
<1>9. \A r : r # s => (At(c, r) # {} => At(q, r) # {})
  BY <1>5
<1> HIDE DEF Old, New
<1> QED BY <1>1, <1>3, <1>6, <1>7, <1>8, <1>9 DEF OnlyItsRulesWent

\* Deleting a rule of s contains nobody, and frees nobody else.
LEMMA DeleteFreesOnlyIts ==
    ASSUME chain \in Seq(Rule), NEW s \in Sources, DeleteDrop(s)
    PROVE  /\ chain' \in Seq(Rule)
           /\ \A t \in Sources : Contained(t)' => Contained(t)
           /\ \A t \in Sources \ {s} : Contained(t) => Contained(t)'
           /\ \A r : Positions(r)' # {} => Positions(r) # {}
           /\ Positions(Conduits) # {} => Positions(Conduits)' # {}
<1>1. PICK k \in Positions(s) : chain' = RemoveAt(chain, k)
  BY DEF DeleteDrop
<1>2. k \in DOMAIN chain /\ chain[k] = s /\ s # Conduits
  BY ConduitsAssumption DEF Positions
<1>3. OnlyItsRulesWent(chain, chain', s)
  BY <1>1, <1>2, RemovalTouchesOnlyIts
<1> QED BY <1>2, <1>3 DEF OnlyItsRulesWent, Contained, Positions, Ahead, At

-----------------------------------------------------------------------------
\* What the chain and the open handle hold, and the promise itself.
ContainInv ==
    /\ chain \in Seq(Rule)
    /\ now \in 0 .. MaxTime
    /\ tail \in Seq(Line)
    /\ blocked \subseteq Sources
    /\ BlockedIsContained

\* Writing alerts touches neither the chain nor the responder's memory.
LEMMA AppendKeepsInv ==
    ASSUME ContainInv, NEW s \in Sources, NEW watched \in BOOLEAN, NEW n \in {1, 2},
           AppendLines(s, watched, n)
    PROVE  ContainInv'
<1> DEFINE new == [i \in 1 .. n |->
                      [source |-> s, watched |-> watched, written |-> now]]
<1>1. new \in Seq(Line)
  BY DEF ContainInv, Line
<1> HIDE DEF new
<1>2. tail' \in Seq(Line)
  <2>1. tail \in Seq(Line) /\ tail \o new \in Seq(Line)
    BY <1>1 DEF ContainInv
  <2>2. tail' = IF attached = "live" THEN tail \o new ELSE tail
    BY DEF AppendLines, new
  <2> QED BY <2>1, <2>2
<1> QED BY <1>2 DEF AppendLines, respVars, ContainInv, BlockedIsContained,
       Contained, Positions

\* Reading a line: only Block changes the chain, and for the line's source.
LEMMA ProcessKeepsInv == ContainInv /\ ProcessLine => ContainInv'
<1> SUFFICES ASSUME ContainInv, ProcessLine PROVE ContainInv'
  OBVIOUS
<1>1. tail' \in Seq(Line) /\ Head(tail).source \in Sources
      /\ UNCHANGED <<now, enforce>>
  <2>1. tail \in Seq(Line) /\ tail # << >>
    BY DEF ProcessLine, ContainInv
  <2>2. Head(tail) \in Line /\ Tail(tail) \in Seq(Line)
    BY <2>1
  <2> QED BY <2>2 DEF ProcessLine, Line
<1> PICK s \in Sources : s = Head(tail).source
  BY <1>1
<1>0. \/ UNCHANGED <<chain, blocked, excused>>
      \/ s \notin blocked /\ Block(s)
  BY DEF ProcessLine
<1>2. CASE UNCHANGED <<chain, blocked, excused>>
  BY <1>1, <1>2 DEF ContainInv, BlockedIsContained, Contained, Positions
<1>3. CASE s \notin blocked /\ Block(s)
  <2>1. CASE enforce /\ InsertDrop(s) /\ UNCHANGED excused
    <3>1. /\ chain' \in Seq(Rule) /\ Contained(s)'
          /\ \A t \in Sources : Contained(t) => Contained(t)'
      BY <1>1, <2>1, InsertContains DEF ContainInv
    <3> QED BY <1>1, <1>3, <2>1, <3>1 DEF Block, ContainInv, BlockedIsContained
  <2>2. CASE UNCHANGED chain /\ (excused' = excused \cup {s} \/ ~enforce)
    <3>1. \A t \in Sources : Contained(t) => Contained(t)'
      BY <2>2 DEF Contained, Positions
    <3>2. CASE ~enforce
      BY <1>1, <1>3, <2>2, <3>2 DEF Block, ContainInv, BlockedIsContained
    <3>3. CASE excused' = excused \cup {s}
      BY <1>1, <1>3, <2>2, <3>1, <3>3 DEF Block, ContainInv, BlockedIsContained
    <3> QED BY <2>2, <3>2, <3>3
  <2> QED BY <1>3, <2>1, <2>2 DEF Block
<1> QED BY <1>0, <1>2, <1>3

\* A step of the responder and of those around it keeps the promise.
LEMMA ContainStep == ContainInv /\ [Next]_vars => ContainInv'
<1> SUFFICES ASSUME ContainInv, [Next]_vars PROVE ContainInv'
  OBVIOUS
<1>0. ASSUME UNCHANGED <<chain, enforce, blocked, excused>>,
             now' \in 0 .. MaxTime, tail' \in Seq(Line)
      PROVE  ContainInv'
  BY <1>0 DEF ContainInv, BlockedIsContained, Contained, Positions
<1>1. ASSUME blocked' = {}, chain' \in Seq(Rule), tail' = << >>, now' = now
      PROVE  ContainInv'
  BY <1>1 DEF ContainInv, BlockedIsContained
<1>2. ASSUME NEW s \in Sources, UnauthorizedWrite(s) \/ OtherAlert(s)
      PROVE  ContainInv'
  BY <1>2, AppendKeepsInv DEF UnauthorizedWrite, OtherAlert
<1>3. ASSUME NEW s \in Sources, Unblock(s) PROVE ContainInv'
  <2>1. /\ chain' \in Seq(Rule)
        /\ \A t \in Sources \ {s} : Contained(t) => Contained(t)'
    BY <1>3, DeleteFreesOnlyIts DEF Unblock, ContainInv
  <2> QED BY <1>3, <2>1
         DEF Unblock, respVars, logVars, ContainInv, BlockedIsContained
<1>4. CASE OpenLog \/ ArchiveLog
  <2>1. tail' \in Seq(Line) /\ now' \in 0 .. MaxTime
    <3>1. << >> \in Seq(Line)
      OBVIOUS
    <3>2. (tail' = << >> \/ tail' = tail) /\ now' = now
      BY <1>4 DEF OpenLog, ArchiveLog
    <3> QED BY <3>1, <3>2 DEF ContainInv
  <2>2. UNCHANGED <<chain, enforce, blocked, excused>>
    BY <1>4 DEF OpenLog, ArchiveLog, respVars, histVars
  <2> QED BY <1>0, <2>1, <2>2
<1>5. CASE ProcessLine
  BY <1>5, ProcessKeepsInv
<1>6. CASE Tick
  BY <1>0, <1>6, ContainmentAssumption
     DEF Tick, respVars, logVars, histVars, ContainInv
<1>7. CASE ResponderCrash \/ StartResponder
  BY <1>1, <1>7 DEF ResponderCrash, StartResponder, NewResponder, Fresh, ContainInv
<1>8. CASE GatewayRestart
  BY <1>1, <1>8 DEF GatewayRestart, LoadRules, NewResponder, Fresh, Rule
<1>9. CASE UNCHANGED vars
  BY <1>0, <1>9 DEF vars, respVars, logVars, histVars, ContainInv
<1> QED BY <1>2, <1>3, <1>4, <1>5, <1>6, <1>7, <1>8, <1>9 DEF Next

\* The invariant of containment.
LEMMA ContainInvariant == Spec => []ContainInv
<1>1. Init => ContainInv
  BY ContainmentAssumption
     DEF Init, ChainInit, ContainInv, BlockedIsContained, Rule
<1> QED BY <1>1, ContainStep, PTL DEF Spec

-----------------------------------------------------------------------------
\* An armed responder's block stays effective, through archives, other sources'
\* rules and deletions, unless iptables refused it or somebody removed it
\* (responder.py:42-77).
THEOREM BlocksAreEffective == Spec => []BlockedIsContained
<1>1. ContainInv => BlockedIsContained
  BY DEF ContainInv
<1> QED BY <1>1, ContainInvariant, PTL

\* Beside a dry-running responder nobody gets contained (responder.py:44-45).
THEOREM DryRunContainsNobody == Spec => DryRunIsPassive
<1>1. ContainInv /\ [Next]_vars =>
        [~enforce => \A s \in Sources : Contained(s)' => Contained(s)]_vars
  <2> SUFFICES ASSUME ContainInv, Next, ~enforce, NEW s \in Sources, Contained(s)'
               PROVE  Contained(s)
    OBVIOUS
  <2>1. CASE UNCHANGED chain
    BY <2>1 DEF Contained, Positions
  <2>2. ASSUME NEW t \in Sources, Unblock(t) PROVE Contained(s)
    BY <2>2, DeleteFreesOnlyIts DEF Unblock, ContainInv
  <2>3. CASE GatewayRestart
    <3>1. chain' = <<Conduits>> /\ s # Conduits
      BY <2>3, ConduitsAssumption DEF GatewayRestart, LoadRules
    <3>2. Positions(s)' = {}
      BY <3>1 DEF Positions
    <3> QED BY <3>2 DEF Contained
  <2>4. CASE ProcessLine
    BY <2>1, <2>4 DEF ProcessLine, Block
  <2> QED BY <2>1, <2>2, <2>3, <2>4
         DEF Next, UnauthorizedWrite, OtherAlert, AppendLines, OpenLog, Tick,
             ArchiveLog, ResponderCrash, StartResponder
<1> QED BY <1>1, ContainInvariant, PTL DEF Spec, DryRunIsPassive

-----------------------------------------------------------------------------
(***************************************************************************)
(* What the responder remembers, traced back to the alerts that were       *)
(* written.  `since` is what an innocent and an offender are told apart    *)
(* by; the responder only sees the lines its handle returns and only keeps *)
(* when it read them.  The invariant says how the two lists belong         *)
(* together for a source that is not blocked.                              *)
(***************************************************************************)
\* The lines about s that are still to be read and that count.
Pending(s) == { j \in DOMAIN tail : tail[j].source = s /\ tail[j].watched }

\* e and g give the alerts in since[s] behind the offences and behind the
\* pending lines of s.  Different ones stand for different alerts, in order:
\* no alert is counted twice.
Traced(s, e, g) ==
    /\ e \in [DOMAIN state[s] -> DOMAIN since[s]]
    /\ g \in [Pending(s) -> DOMAIN since[s]]
    /\ \A i \in DOMAIN state[s] : since[s][e[i]] = state[s][i].written
    /\ \A j \in Pending(s) : since[s][g[j]] = tail[j].written
    /\ \A i, j \in DOMAIN state[s] : i <= j => e[j] - e[i] >= j - i
    /\ \A i \in DOMAIN state[s], j \in Pending(s) : e[i] < g[j]
    /\ \A i, j \in Pending(s) : i < j => g[i] < g[j]

\* Nothing is missing between them: the d oldest alerts have been read and
\* have left the window, the others are remembered or pending, and among the
\* alerts read so far there was no burst.
Complete(s, d, g) ==
    /\ d + Len(state[s]) <= Len(since[s])
    /\ \A p \in 1 .. d : since[s][p] + WINDOW <= now
    /\ \A j \in Pending(s) : g[j] > d + Len(state[s])
    /\ \A p \in d + Len(state[s]) + 1 .. Len(since[s]) : \E j \in Pending(s) : g[j] = p
    /\ \A p \in THRESHOLD .. d + Len(state[s]) :
          since[s][p] + Lag >= since[s][p - THRESHOLD + 1] + WINDOW

Accounted(s) ==
    /\ Len(state[s]) < THRESHOLD
    /\ \E e, g :
          /\ Traced(s, e, g)
          /\ running /\ s \notin unseen =>
                \E d \in Nat :
                    /\ \A i \in DOMAIN state[s] : e[i] = d + i
                    /\ Complete(s, d, g)

\* Times: alerts are in the order they were written, offences in the order
\* they were read, and nothing is read later than Lag after it was written.
TailInOrder ==
    /\ \A j \in DOMAIN tail : tail[j].written <= now /\ now <= tail[j].written + Lag
    /\ \A i, j \in DOMAIN tail : i <= j => tail[i].written <= tail[j].written

SinceInOrder ==
    \A s \in Sources :
        /\ \A p \in DOMAIN since[s] : since[s][p] <= now
        /\ \A p, q \in DOMAIN since[s] : p <= q => since[s][p] <= since[s][q]

OffencesInOrder ==
    \A s \in Sources :
        /\ \A i \in DOMAIN state[s] :
              /\ state[s][i].written <= state[s][i].read
              /\ state[s][i].read <= state[s][i].written + Lag
              /\ state[s][i].read <= now
        /\ \A i, j \in DOMAIN state[s] : i <= j => state[s][i].read <= state[s][j].read

\* A process that is not running remembers nothing and holds no file open.
HandleInv ==
    /\ attached = "none" => tail = << >>
    /\ ~running => attached = "none" /\ blocked = {} /\ state = NoOffences

\* Everything but the chain has its type: the responder never looks at it.
MemoryOK ==
    /\ running \in BOOLEAN
    /\ enforce \in BOOLEAN
    /\ state \in [Sources -> Seq(Offence)]
    /\ blocked \subseteq Sources
    /\ now \in 0 .. MaxTime
    /\ exists \in BOOLEAN
    /\ attached \in {"none", "live", "archived"}
    /\ tail \in Seq(Line)
    /\ since \in [Sources -> Seq(0 .. MaxTime)]
    /\ unseen \subseteq Sources
    /\ excused \subseteq Sources
    /\ alerts \in 0 .. MaxAlerts
    /\ mishaps \in 0 .. MaxMishaps

ResponderInv ==
    /\ MemoryOK
    /\ HandleInv
    /\ TailInOrder
    /\ SinceInOrder
    /\ OffencesInOrder
    /\ \A s \in Sources \ blocked : Accounted(s)
    /\ NoInnocentBlocked

-----------------------------------------------------------------------------
(***************************************************************************)
(* How one source's account changes.                                       *)
(***************************************************************************)

\* record() keeps the offences of the window, and only them.
LEMMA KeptIsRest ==
    ASSUME MemoryOK, OffencesInOrder, NEW s \in Sources
    PROVE  \E c \in 0 .. Len(state[s]) :
              /\ \A i \in 1 .. c : state[s][i].read + WINDOW <= now
              /\ \A i \in c + 1 .. Len(state[s]) : state[s][i].read + WINDOW > now
              /\ Kept(s, now) \in Seq(Offence)
              /\ Len(Kept(s, now)) = Len(state[s]) - c
              /\ \A i \in 1 .. Len(state[s]) - c : Kept(s, now)[i] = state[s][c + i]
<1> DEFINE X == Expired(s, now, WINDOW)
<1>1. /\ state[s] \in Seq(Offence) /\ DOMAIN state[s] = 1 .. Len(state[s])
      /\ Len(state[s]) \in Nat
  BY DEF MemoryOK
<1>2. now \in Nat /\ WINDOW \in Nat /\ \A i \in DOMAIN state[s] : state[s][i].read \in Nat
  <2>1. now \in Nat /\ WINDOW \in Nat
    BY ContainmentAssumption, ResponderAssumption DEF MemoryOK
  <2>2. \A i \in DOMAIN state[s] : state[s][i] \in Offence
    BY <1>1
  <2> QED BY <2>1, <2>2, ContainmentAssumption DEF Offence
<1>3. X = { i \in DOMAIN state[s] : state[s][i].read + WINDOW <= now }
  BY DEF Expired
<1>4. \A i, j \in DOMAIN state[s] : i <= j /\ j \in X => i \in X
  <2> SUFFICES ASSUME NEW i \in DOMAIN state[s], NEW j \in DOMAIN state[s],
                      i <= j, j \in X
               PROVE  i \in X
    OBVIOUS
  <2>1. state[s][i].read <= state[s][j].read
    BY DEF OffencesInOrder
  <2> QED BY <1>2, <1>3, <2>1
<1> HIDE DEF X
<1>5. X \subseteq DOMAIN state[s]
  BY <1>3
<1>6. PICK c \in 0 .. Len(state[s]) :
          /\ X = 1 .. c
          /\ Pruned(state[s], X) \in Seq(Offence)
          /\ RestBehind(Pruned(state[s], X), state[s], c)
  <2>1. PICK list : list = state[s]
    OBVIOUS
  <2>2. list \in Seq(Offence) /\ X \subseteq DOMAIN list
    BY <1>1, <1>5, <2>1
  <2>3. \A i, j \in DOMAIN list : i <= j /\ j \in X => i \in X
    BY <1>4, <2>1
  <2>4. \E c \in 0 .. Len(list) :
          /\ X = 1 .. c
          /\ Pruned(list, X) \in Seq(Offence)
          /\ RestBehind(Pruned(list, X), list, c)
    BY ONLY <2>2, <2>3, PrunedIsRest
  <2> QED BY <2>1, <2>4
<1>7. Kept(s, now) = Pruned(state[s], X)
  BY DEF Kept, X
<1>8. \A i \in 1 .. c : state[s][i].read + WINDOW <= now
  BY <1>3, <1>6
<1>9. ASSUME NEW i \in c + 1 .. Len(state[s]) PROVE state[s][i].read + WINDOW > now
  <2>1. i \in DOMAIN state[s] /\ i \notin X
    BY <1>1, <1>6
  <2>2. ~(state[s][i].read + WINDOW <= now)
    BY <1>3, <2>1
  <2> QED BY <1>2, <2>1, <2>2
<1> QED BY <1>6, <1>7, <1>8, <1>9 DEF RestBehind

\* The list with the new offence at its end.
LEMMA RecordedIsRestAndNew ==
    ASSUME MemoryOK, OffencesInOrder, NEW s \in Sources, NEW w \in 0 .. MaxTime
    PROVE  \E c \in 0 .. Len(state[s]) :
              /\ \A i \in 1 .. c : state[s][i].read + WINDOW <= now
              /\ \A i \in c + 1 .. Len(state[s]) : state[s][i].read + WINDOW > now
              /\ Len(Kept(s, now)) = Len(state[s]) - c
              /\ Recorded(s, now, w) \in Seq(Offence)
              /\ Len(Recorded(s, now, w)) = Len(state[s]) - c + 1
              /\ \A i \in 1 .. Len(state[s]) - c :
                    Recorded(s, now, w)[i] = state[s][c + i]
              /\ Recorded(s, now, w)[Len(state[s]) - c + 1] = [read |-> now, written |-> w]
<1> DEFINE k == Kept(s, now)
           new == [read |-> now, written |-> w]
<1>1. PICK c \in 0 .. Len(state[s]) :
          /\ \A i \in 1 .. c : state[s][i].read + WINDOW <= now
          /\ \A i \in c + 1 .. Len(state[s]) : state[s][i].read + WINDOW > now
          /\ k \in Seq(Offence)
          /\ Len(k) = Len(state[s]) - c
          /\ \A i \in 1 .. Len(state[s]) - c : k[i] = state[s][c + i]
  BY KeptIsRest
<1>2. new \in Offence
  BY DEF MemoryOK, Offence
<1>3. Recorded(s, now, w) = Append(k, new) /\ new = [read |-> now, written |-> w]
  BY DEF Recorded
<1>4. Len(state[s]) \in Nat
  BY DEF MemoryOK
<1> HIDE DEF k, new
<1>5. /\ Append(k, new) \in Seq(Offence)
      /\ Len(Append(k, new)) = Len(k) + 1
      /\ Append(k, new)[Len(k) + 1] = new
      /\ \A i \in 1 .. Len(k) : Append(k, new)[i] = k[i]
  <2>1. k \in Seq(Offence)
    BY <1>1
  <2> QED BY ONLY <1>2, <2>1
<1> QED BY ZenonT(60), <1>1, <1>3, <1>4, <1>5 DEF k

\* One line less is pending, and every other one is a position further up.
Shifted(s) == { j \in Nat \ {0} : j + 1 \in Pending(s) }

LEMMA PendingShifts ==
    ASSUME MemoryOK, NEW s \in Sources, tail # << >>, tail' = Tail(tail)
    PROVE  /\ Pending(s)' = Shifted(s)
           /\ \A j \in Shifted(s) : tail'[j] = tail[j + 1]
           /\ \A j \in Pending(s) \ {1} : j - 1 \in Shifted(s) /\ (j - 1) + 1 = j
           /\ \A j \in Pending(s) : j \in Nat /\ 1 <= j
<1>1. tail \in Seq(Line) /\ Len(tail) \in Nat /\ DOMAIN tail = 1 .. Len(tail)
      /\ DOMAIN tail' = 1 .. Len(tail) - 1
      /\ \A j \in 1 .. Len(tail) - 1 : tail'[j] = tail[j + 1]
  BY DEF MemoryOK
<1>2. ASSUME NEW j \in Shifted(s)
      PROVE  j \in 1 .. Len(tail) - 1 /\ j \in Pending(s)'
  <2>1. j \in Nat \ {0} /\ j + 1 \in 1 .. Len(tail)
    BY <1>1 DEF Pending, Shifted
  <2>2. j \in 1 .. Len(tail) - 1
    BY <1>1, <2>1
  <2> QED BY <1>1, <2>2 DEF Pending, Shifted
<1>3. ASSUME NEW j \in Pending(s)' PROVE j \in Shifted(s)
  BY <1>1, <1>3 DEF Pending, Shifted
<1>4. ASSUME NEW j \in Pending(s) \ {1} PROVE j - 1 \in Shifted(s) /\ (j - 1) + 1 = j
  <2>1. j \in 2 .. Len(tail)
    BY <1>1 DEF Pending
  <2> QED BY <2>1 DEF Shifted
<1>5. \A j \in Pending(s) : j \in Nat /\ 1 <= j
  BY <1>1 DEF Pending
<1> QED BY <1>1, <1>2, <1>3, <1>4, <1>5

\* The first line of the handle is read and not counted for s.
LEMMA AccountedSkips ==
    ASSUME MemoryOK, NEW s \in Sources, Accounted(s), tail # << >>, 1 \notin Pending(s),
           tail' = Tail(tail), state'[s] = state[s], since'[s] = since[s],
           UNCHANGED <<running, unseen, now>>
    PROVE  Accounted(s)'
<1> DEFINE P == Shifted(s)
<1>1. /\ Pending(s)' = P
      /\ \A j \in P : tail'[j] = tail[j + 1] /\ j \in Nat /\ j + 1 \in Pending(s)
      /\ \A j \in Pending(s) : j - 1 \in P /\ (j - 1) + 1 = j /\ j \in Nat
  BY PendingShifts DEF Shifted
<1>2. PICK e, g :
          /\ Traced(s, e, g)
          /\ running /\ s \notin unseen =>
                \E d \in Nat :
                    /\ \A i \in DOMAIN state[s] : e[i] = d + i
                    /\ Complete(s, d, g)
  BY DEF Accounted
<1> HIDE DEF P
<1>3. PICK g2 : g2 = [j \in P |-> g[j + 1]]
  OBVIOUS
<1>4. Traced(s, e, g2)'
  <2>1. g2 \in [P -> DOMAIN since[s]]
    BY <1>1, <1>2, <1>3 DEF Traced
  <2>2. \A j \in P : since[s][g2[j]] = tail'[j].written
    BY ZenonT(60), <1>1, <1>2, <1>3 DEF Traced
  <2>3. \A i \in DOMAIN state[s], j \in P : e[i] < g2[j]
    BY <1>1, <1>2, <1>3 DEF Traced
  <2>4. \A i, j \in P : i < j => g2[i] < g2[j]
    BY <1>1, <1>2, <1>3 DEF Traced
  <2> QED BY <1>1, <1>2, <2>1, <2>2, <2>3, <2>4 DEF Traced
<1>5. ASSUME NEW d \in Nat, Complete(s, d, g) PROVE Complete(s, d, g2)'
  <2>1. ASSUME NEW p \in d + Len(state[s]) + 1 .. Len(since[s])
        PROVE  \E j \in P : g2[j] = p
    <3>1. PICK j \in Pending(s) : g[j] = p
      BY <1>5 DEF Complete
    <3> QED BY <1>1, <1>3, <3>1
  <2>2. \A j \in P : g2[j] > d + Len(state[s])
    BY <1>1, <1>3, <1>5 DEF Complete
  <2> QED BY <1>1, <1>5, <2>1, <2>2 DEF Complete
<1> QED BY <1>2, <1>4, <1>5 DEF Accounted

\* Nothing happens to s, except that time passes or that less is said of it.
LEMMA AccountedStays ==
    ASSUME MemoryOK, NEW s \in Sources, Accounted(s), now' \in Nat, now <= now',
           Pending(s)' = Pending(s), \A j \in Pending(s) : tail'[j] = tail[j],
           state'[s] = state[s], since'[s] = since[s],
           running' /\ s \notin unseen' => running /\ s \notin unseen
    PROVE  Accounted(s)'
<1>1. PICK e, g :
          /\ Traced(s, e, g)
          /\ running /\ s \notin unseen =>
                \E d \in Nat :
                    /\ \A i \in DOMAIN state[s] : e[i] = d + i
                    /\ Complete(s, d, g)
  BY DEF Accounted
<1>2. Traced(s, e, g)'
  BY <1>1 DEF Traced
<1>3. ASSUME NEW d \in Nat, Complete(s, d, g) PROVE Complete(s, d, g)'
  <2>1. now \in Nat /\ WINDOW \in Nat /\ \A p \in DOMAIN since[s] : since[s][p] \in Nat
    BY ContainmentAssumption, ResponderAssumption DEF MemoryOK
  <2>2. ASSUME NEW p \in 1 .. d PROVE since[s][p] + WINDOW <= now'
    <3>1. Len(state[s]) \in Nat /\ Len(since[s]) \in Nat /\ DOMAIN since[s] = 1 .. Len(since[s])
      BY DEF MemoryOK
    <3>2. p \in DOMAIN since[s] /\ since[s][p] + WINDOW <= now
      BY <1>3, <3>1 DEF Complete
    <3> QED BY <2>1, <3>2
  <2> QED BY <1>3, <2>2 DEF Complete
<1> QED BY <1>1, <1>2, <1>3 DEF Accounted

\* Alerts about s are written: they are in since[s] and, if a live handle is
\* open, pending; if not, some of them will never be read.
LEMMA AccountedGrows ==
    ASSUME MemoryOK, HandleInv, NEW s \in Sources, Accounted(s), NEW n \in {1, 2},
           AppendLines(s, TRUE, n)
    PROVE  Accounted(s)'
<1> DEFINE times == [i \in 1 .. n |-> now]
           lines == [i \in 1 .. n |-> [source |-> s, watched |-> TRUE, written |-> now]]
           L == Len(since[s])
           T == Len(tail)
<1>1. /\ L \in Nat /\ DOMAIN since[s] = 1 .. L /\ since[s] \in Seq(0 .. MaxTime)
      /\ T \in Nat /\ DOMAIN tail = 1 .. T /\ tail \in Seq(Line)
      /\ Len(state[s]) \in Nat /\ DOMAIN state[s] = 1 .. Len(state[s])
      /\ L = Len(since[s]) /\ T = Len(tail)
  BY DEF MemoryOK
<1> HIDE DEF L, T
<1>2. n \in Nat /\ now \in 0 .. MaxTime /\ now \in Nat
  BY ContainmentAssumption DEF MemoryOK
<1>3. UNCHANGED <<running, state, now>>
  BY DEF AppendLines, respVars
<1>4. times \in Seq(0 .. MaxTime) /\ Len(times) = n /\ \A i \in 1 .. n : times[i] = now
  BY <1>2
<1>5. /\ lines \in Seq(Line) /\ Len(lines) = n
      /\ \A i \in 1 .. n : lines[i].source = s /\ lines[i].watched
                           /\ lines[i].written = now
  BY <1>2 DEF Line
<1>6. PICK e, g :
          /\ Traced(s, e, g)
          /\ running /\ s \notin unseen =>
                \E d \in Nat :
                    /\ \A i \in DOMAIN state[s] : e[i] = d + i
                    /\ Complete(s, d, g)
  BY DEF Accounted
<1>7. CASE ~running
  <2>1. since' = since /\ tail' = tail
    BY <1>7 DEF AppendLines, HandleInv
  <2>2. Pending(s)' = Pending(s) /\ \A j \in Pending(s) : tail'[j] = tail[j]
    BY <2>1 DEF Pending
  <2> QED BY <1>2, <1>3, <1>7, <2>1, <2>2, AccountedStays
<1>8. CASE running
  <2>0. L \in Nat /\ T \in Nat /\ n \in Nat
    BY <1>1
  <2>1. since'[s] = since[s] \o times
    BY <1>8 DEF AppendLines, MemoryOK
  <2> HIDE DEF times, lines
  <2>2. /\ Len(since'[s]) = L + n /\ DOMAIN since'[s] = 1 .. L + n
        /\ \A p \in 1 .. L : since'[s][p] = since[s][p]
        /\ \A p \in L + 1 .. L + n : since'[s][p] = now
    BY <1>1, <1>2, <1>4, <2>1
  <2>3. DOMAIN since[s] \subseteq DOMAIN since'[s]
    BY <1>1, <1>2, <2>2
  <2>4. CASE attached # "live"
    <3>1. tail' = tail /\ s \in unseen'
      BY <1>8, <2>4 DEF AppendLines
    <3>2. Pending(s)' = Pending(s)
      BY <3>1 DEF Pending
    <3>3. Traced(s, e, g)'
      <4>1. e \in [DOMAIN state'[s] -> DOMAIN since'[s]]
        BY <1>3, <1>6, <2>3 DEF Traced
      <4>2. g \in [Pending(s)' -> DOMAIN since'[s]]
        BY <1>6, <2>3, <3>2 DEF Traced
      <4>3. \A i \in DOMAIN state[s] : e[i] \in 1 .. L
        BY <1>1, <1>6 DEF Traced
      <4>4. \A j \in Pending(s) : g[j] \in 1 .. L
        BY <1>1, <1>6 DEF Traced
      <4> QED BY <1>3, <1>6, <2>2, <3>1, <3>2, <4>1, <4>2, <4>3, <4>4 DEF Traced
    <3> QED BY <1>3, <3>1, <3>3 DEF Accounted
  <2>5. CASE attached = "live"
    <3>1. tail' = tail \o lines /\ unseen' = unseen
      BY <2>5 DEF AppendLines, lines
    <3>2. /\ DOMAIN tail' = 1 .. T + n
          /\ \A j \in 1 .. T : tail'[j] = tail[j]
          /\ \A j \in T + 1 .. T + n : tail'[j].source = s /\ tail'[j].watched
                                       /\ tail'[j].written = now
      <4>1. \A j \in T + 1 .. T + n : tail'[j] = lines[j - T] /\ j - T \in 1 .. n
        BY <1>1, <1>2, <1>5, <3>1
      <4> QED BY <1>1, <1>2, <1>5, <3>1, <4>1
    <3>3. Pending(s) \subseteq 1 .. T
      BY <1>1 DEF Pending
    <3>4. Pending(s)' = Pending(s) \cup (T + 1 .. T + n)
      BY <1>1, <1>2, <3>2 DEF Pending
    <3>5. PICK g2 : g2 = [j \in Pending(s) \cup (T + 1 .. T + n) |->
                             IF j <= T THEN g[j] ELSE L + (j - T)]
      OBVIOUS
    <3>6. \A j \in Pending(s) : g2[j] = g[j] /\ g[j] \in 1 .. L
      BY <1>1, <1>6, <3>3, <3>5 DEF Traced
    <3>7. \A j \in T + 1 .. T + n : g2[j] = L + (j - T) /\ g2[j] \in L + 1 .. L + n
      BY <1>1, <1>2, <3>5
    <3>8. Traced(s, e, g2)'
      <4>1. g2 \in [Pending(s)' -> DOMAIN since'[s]]
        <5>1. \A j \in Pending(s)' : g2[j] \in DOMAIN since'[s]
          <6>1. \A j \in Pending(s) : g2[j] \in 1 .. L + n
            BY <1>1, <1>2, <3>6
          <6>2. \A j \in T + 1 .. T + n : g2[j] \in 1 .. L + n
            <7> SUFFICES ASSUME NEW j \in T + 1 .. T + n PROVE g2[j] \in 1 .. L + n
              OBVIOUS
            <7>1. g2[j] \in L + 1 .. L + n
              BY <3>7
            <7> QED BY <2>0, <7>1
          <6> QED BY <2>2, <3>4, <6>1, <6>2
        <5> QED BY <3>4, <3>5, <5>1
      <4>2. \A j \in Pending(s)' : since'[s][g2[j]] = tail'[j].written
        <5>1. \A j \in Pending(s) : since'[s][g2[j]] = tail'[j].written
          BY <1>6, <2>2, <3>2, <3>3, <3>6 DEF Traced
        <5>2. \A j \in T + 1 .. T + n : since'[s][g2[j]] = tail'[j].written
          BY <2>2, <3>2, <3>7
        <5> QED BY <3>4, <5>1, <5>2
      <4>3. ASSUME NEW i \in DOMAIN state[s] PROVE e[i] \in 1 .. L
        BY <1>1, <1>6 DEF Traced
      <4>4. \A i \in DOMAIN state[s], j \in Pending(s)' : e[i] < g2[j]
        BY SMTT(60), <1>1, <1>2, <1>6, <3>4, <3>6, <3>7, <4>3 DEF Traced
      <4>5. \A i, j \in Pending(s)' : i < j => g2[i] < g2[j]
        <5> SUFFICES ASSUME NEW i \in Pending(s)', NEW j \in Pending(s)', i < j
                     PROVE  g2[i] < g2[j]
          OBVIOUS
        <5>1. CASE j \in Pending(s)
          BY <1>1, <1>2, <1>6, <3>3, <3>4, <3>6, <5>1 DEF Traced
        <5>2. CASE j \in T + 1 .. T + n
          BY <1>1, <1>2, <3>4, <3>6, <3>7, <5>2
        <5> QED BY <3>4, <5>1, <5>2
      <4>6. e \in [DOMAIN state'[s] -> DOMAIN since'[s]]
        BY <1>3, <1>6, <2>3 DEF Traced
      <4>7. \A i \in DOMAIN state'[s] : since'[s][e[i]] = state'[s][i].written
        BY <1>3, <1>6, <2>2, <4>3 DEF Traced
      <4> QED BY <1>3, <1>6, <4>1, <4>2, <4>4, <4>5, <4>6, <4>7 DEF Traced
    <3>9. ASSUME NEW d \in Nat, Complete(s, d, g) PROVE Complete(s, d, g2)'
      <4>1. d + Len(state[s]) <= L /\ THRESHOLD \in Nat \ {0}
        BY <1>1, <3>9, ResponderAssumption DEF Complete
      <4>2. \A p \in 1 .. d : since'[s][p] + WINDOW <= now
        <5> SUFFICES ASSUME NEW p \in 1 .. d PROVE since'[s][p] + WINDOW <= now
          OBVIOUS
        <5>1. p \in 1 .. L
          BY <1>1, <4>1
        <5> QED BY <2>2, <3>9, <5>1 DEF Complete
      <4>3. ASSUME NEW p \in d + Len(state[s]) + 1 .. L + n
            PROVE  \E j \in Pending(s)' : g2[j] = p
        <5>1. CASE p <= L
          <6>1. PICK j \in Pending(s) : g[j] = p
            BY <1>1, <3>9, <5>1 DEF Complete
          <6> QED BY <3>4, <3>6, <6>1
        <5>2. CASE p > L
          <6>1. PICK j \in Nat : j = T + (p - L)
            <7>1. p \in Int
              BY <1>1
            <7> QED BY <2>0, <5>2, <7>1
          <6>2. j \in T + 1 .. T + n /\ L + (j - T) = p
            <7>1. p \in Int /\ p <= L + n
              BY <1>1, <2>0
            <7> QED BY <2>0, <5>2, <6>1, <7>1
          <6> QED BY <3>4, <3>7, <6>2
        <5> QED BY <1>1, <5>1, <5>2
      <4>4. \A p \in THRESHOLD .. d + Len(state[s]) :
                since'[s][p] + Lag >= since'[s][p - THRESHOLD + 1] + WINDOW
        <5> SUFFICES ASSUME NEW p \in THRESHOLD .. d + Len(state[s])
                     PROVE  since'[s][p] + Lag >= since'[s][p - THRESHOLD + 1] + WINDOW
          OBVIOUS
        <5>1. p \in 1 .. L /\ p - THRESHOLD + 1 \in 1 .. L
          BY <1>1, <4>1
        <5> QED BY <2>2, <3>9, <5>1 DEF Complete
      <4>5. d + Len(state[s]) <= L + n
        BY <1>1, <1>2, <4>1
      <4>6. \A j \in Pending(s)' : g2[j] > d + Len(state[s])
        <5>1. \A j \in Pending(s) : g2[j] > d + Len(state[s])
          BY <3>6, <3>9 DEF Complete
        <5>2. ASSUME NEW j \in T + 1 .. T + n PROVE g2[j] > d + Len(state[s])
          <6>1. g2[j] \in L + 1 .. L + n
            BY <3>7
          <6> QED BY <1>1, <2>0, <4>1, <6>1
        <5> QED BY <3>4, <5>1, <5>2
      <4> QED BY <1>3, <2>2, <4>2, <4>3, <4>4, <4>5, <4>6 DEF Complete
    <3> QED BY <1>3, <1>6, <3>1, <3>8, <3>9 DEF Accounted
  <2> QED BY <2>4, <2>5
<1> QED BY <1>7, <1>8

\* A line about s is read and recorded: it takes its place behind the offences
\* that are kept, and without a crossing it completes no burst.
LEMMA AccountedRecords ==
    ASSUME MemoryOK, TailInOrder, OffencesInOrder, NEW s \in Sources, Accounted(s),
           tail # << >>, 1 \in Pending(s), ~Crosses(s, now), tail' = Tail(tail),
           state'[s] = Recorded(s, now, tail[1].written), since'[s] = since[s],
           UNCHANGED <<running, unseen, now>>
    PROVE  Accounted(s)'
<1> DEFINE P == Shifted(s)
           k == Len(state[s])
<1>1. /\ Pending(s)' = P
      /\ \A j \in P : tail'[j] = tail[j + 1] /\ j \in Nat /\ 1 <= j /\ j + 1 \in Pending(s)
      /\ \A j \in Pending(s) \ {1} : j - 1 \in P /\ (j - 1) + 1 = j
      /\ \A j \in Pending(s) : j \in Nat /\ 1 <= j
  <2>1. \A j \in P : j \in Nat /\ 1 <= j /\ j + 1 \in Pending(s)
    BY DEF Shifted
  <2> HIDE DEF P
  <2> QED BY <2>1, PendingShifts DEF P
<1>2. /\ k \in Nat /\ now \in Nat /\ WINDOW \in Nat /\ Lag \in Nat
      /\ THRESHOLD \in Nat /\ THRESHOLD >= 1
  BY ResponderAssumption, ContainmentAssumption DEF MemoryOK
<1>13. DOMAIN state[s] = 1 .. k /\ k = Len(state[s])
  BY DEF MemoryOK
<1>14. /\ Len(since[s]) \in Nat /\ DOMAIN since[s] = 1 .. Len(since[s])
       /\ \A p \in DOMAIN since[s] : since[s][p] \in Nat
  BY ContainmentAssumption DEF MemoryOK
<1>3. /\ tail[1].written \in 0 .. MaxTime /\ tail[1].written \in Nat
      /\ tail[1].written <= now /\ now <= tail[1].written + Lag
  <2>1. 1 \in DOMAIN tail /\ tail[1] \in Line
    BY DEF MemoryOK
  <2> QED BY <2>1, ContainmentAssumption DEF TailInOrder, Line
<1>4. PICK e, g :
          /\ Traced(s, e, g)
          /\ running /\ s \notin unseen =>
                \E d \in Nat :
                    /\ \A i \in DOMAIN state[s] : e[i] = d + i
                    /\ Complete(s, d, g)
  BY DEF Accounted
<1> HIDE DEF P, k
<1>5. PICK c \in Nat, m \in Nat :
          /\ k = c + m
          /\ \A i \in 1 .. c : state[s][i].read + WINDOW <= now
          /\ Len(Kept(s, now)) = m
          /\ Len(state'[s]) = m + 1 /\ DOMAIN state'[s] = 1 .. m + 1
          /\ \A i \in 1 .. m : state'[s][i] = state[s][c + i]
          /\ state'[s][m + 1].written = tail[1].written
  <2>1. PICK w \in 0 .. MaxTime : w = tail[1].written
    BY <1>3
  <2>2. PICK c \in 0 .. Len(state[s]) :
          /\ \A i \in 1 .. c : state[s][i].read + WINDOW <= now
          /\ Len(Kept(s, now)) = Len(state[s]) - c
          /\ Recorded(s, now, w) \in Seq(Offence)
          /\ Len(Recorded(s, now, w)) = Len(state[s]) - c + 1
          /\ \A i \in 1 .. Len(state[s]) - c : Recorded(s, now, w)[i] = state[s][c + i]
          /\ Recorded(s, now, w)[Len(state[s]) - c + 1] = [read |-> now, written |-> w]
    BY RecordedIsRestAndNew
  <2>3. state'[s] = Recorded(s, now, w)
    BY <2>1
  <2>4. PICK m \in Nat : m = k - c
    BY <1>2, <1>13
  <2>5. k = c + m /\ c \in Nat
    BY <1>2, <1>13, <2>4
  <2>6. /\ Len(state'[s]) = m + 1 /\ state'[s] \in Seq(Offence)
        /\ Len(Kept(s, now)) = m
        /\ \A i \in 1 .. m : state'[s][i] = state[s][c + i]
        /\ state'[s][m + 1] = [read |-> now, written |-> w]
    BY <1>2, <1>13, <2>2, <2>3, <2>4
  <2>7. DOMAIN state'[s] = 1 .. m + 1
    BY <2>6
  <2>8. \A i \in 1 .. c : state[s][i].read + WINDOW <= now
    BY <1>13, <2>2, <2>4, <2>5
  <2>9. state'[s][m + 1].written = tail[1].written
    BY <2>1, <2>6
  <2> QED BY <2>5, <2>6, <2>7, <2>8, <2>9
<1>6. k = c + m /\ m + 1 < THRESHOLD
  BY <1>2, <1>13, <1>14, <1>5 DEF Crosses
<1>7. PICK e2, g2 : /\ e2 = [i \in 1 .. m + 1 |-> IF i <= m THEN e[c + i] ELSE g[1]]
                    /\ g2 = [j \in P |-> g[j + 1]]
  OBVIOUS
<1>8. /\ \A i \in 1 .. m : c + i \in 1 .. k /\ e2[i] = e[c + i]
      /\ e2[m + 1] = g[1]
      /\ \A j \in P : g2[j] = g[j + 1]
  BY <1>2, <1>6, <1>7
<1>9. /\ \A i \in 1 .. k : e[i] \in DOMAIN since[s] /\ e[i] \in Nat /\ e[i] < g[1]
      /\ \A j \in Pending(s) : g[j] \in DOMAIN since[s] /\ g[j] \in Nat
      /\ \A j \in P : g[1] < g[j + 1]
  <2>1. ASSUME NEW i \in 1 .. k PROVE e[i] \in DOMAIN since[s] /\ e[i] < g[1]
    BY <1>4, <1>13 DEF Traced
  <2>2. ASSUME NEW j \in Pending(s) PROVE g[j] \in DOMAIN since[s]
    BY <1>4 DEF Traced
  <2>3. ASSUME NEW j \in P PROVE g[1] < g[j + 1]
    <3>1. j + 1 \in Pending(s) /\ 1 < j + 1
      BY <1>1
    <3> QED BY <1>4, <3>1 DEF Traced
  <2>4. DOMAIN since[s] \subseteq Nat
    BY <1>14
  <2> QED BY <2>1, <2>2, <2>3, <2>4
<1>10. Traced(s, e2, g2)'
  <2>1. e2 \in [1 .. m + 1 -> DOMAIN since[s]]
    BY <1>6, <1>7, <1>8, <1>9
  <2>2. g2 \in [P -> DOMAIN since[s]]
    BY <1>1, <1>7, <1>9
  <2>3. ASSUME NEW i \in 1 .. m + 1 PROVE since[s][e2[i]] = state'[s][i].written
    <3>1. CASE i \in 1 .. m
      <4>1. c + i \in DOMAIN state[s] /\ e2[i] = e[c + i] /\ state'[s][i] = state[s][c + i]
        BY <1>5, <1>8, <1>13, <3>1
      <4> QED BY <1>4, <4>1 DEF Traced
    <3>2. CASE i = m + 1
      BY <1>4, <1>5, <1>8, <3>2 DEF Traced
    <3> QED BY <1>6, <3>1, <3>2
  <2>4. \A j \in P : since[s][g2[j]] = tail'[j].written
    BY ZenonT(60), <1>1, <1>4, <1>8 DEF Traced
  <2>5. ASSUME NEW i \in 1 .. m + 1, NEW j \in 1 .. m + 1, i <= j
        PROVE  e2[j] - e2[i] >= j - i
    <3>1. CASE j \in 1 .. m
      <4>1. i \in 1 .. m /\ c + i <= c + j
        BY <1>6, <2>5, <3>1
      <4>2. e[c + j] - e[c + i] >= (c + j) - (c + i)
        BY <1>2, <1>13, <1>14, <1>4, <1>8, <3>1, <4>1 DEF Traced
      <4> QED BY <1>6, <1>8, <3>1, <4>1, <4>2
    <3>2. CASE j = m + 1 /\ i \in 1 .. m
      <4>1. e[k] - e[c + i] >= k - (c + i)
        <5>1. k \in DOMAIN state[s] /\ c + i \in DOMAIN state[s] /\ c + i <= k
          BY <1>2, <1>6, <1>8, <1>13, <3>2
        <5> QED BY <1>4, <5>1 DEF Traced
      <4>2. e[k] < g[1] /\ e[k] \in Nat /\ g[1] \in Nat /\ e[c + i] \in Nat
        BY <1>2, <1>6, <1>8, <1>9, <3>2
      <4> QED BY SMTT(60), <1>2, <1>6, <1>8, <3>2, <4>1, <4>2
    <3>3. CASE j = m + 1 /\ i = m + 1
      BY <1>6, <1>8, <1>9, <3>3
    <3> QED BY <1>6, <3>1, <3>2, <3>3
  <2>6. \A i \in 1 .. m + 1, j \in P : e2[i] < g2[j]
    <3> SUFFICES ASSUME NEW i \in 1 .. m + 1, NEW j \in P PROVE e2[i] < g2[j]
      OBVIOUS
    <3>1. CASE i \in 1 .. m
      BY SMTT(60), <1>1, <1>2, <1>13, <1>14, <1>4, <1>8, <3>1 DEF Traced
    <3>2. CASE i = m + 1
      BY <1>8, <1>9, <3>2
    <3> QED BY <1>6, <3>1, <3>2
  <2>7. \A i, j \in P : i < j => g2[i] < g2[j]
    BY <1>1, <1>4, <1>8 DEF Traced
  <2> QED BY <1>1, <1>5, <2>1, <2>2, <2>3, <2>4, <2>5, <2>6, <2>7 DEF Traced
<1>11. ASSUME NEW d \in Nat, \A i \in 1 .. k : e[i] = d + i, Complete(s, d, g)
       PROVE  /\ \A i \in 1 .. m + 1 : e2[i] = (d + c) + i
              /\ Complete(s, d + c, g2)'
  <2>1. g[1] = d + k + 1 /\ d + k + 1 <= Len(since[s])
    <3>1. g[1] > d + k /\ g[1] \in Nat /\ g[1] <= Len(since[s])
      BY <1>2, <1>13, <1>14, <1>9, <1>11 DEF Complete
    <3>2. PICK j \in Pending(s) : g[j] = d + k + 1
      <4>1. d + k + 1 \in d + k + 1 .. Len(since[s])
        BY <1>2, <3>1
      <4> QED BY <1>2, <1>13, <1>14, <1>11, <4>1 DEF Complete
    <3>3. j = 1 \/ g[1] < g[j]
      BY <1>1, <1>4 DEF Traced
    <3> QED BY <1>2, <3>1, <3>2, <3>3
  <2>2. \A i \in 1 .. m + 1 : e2[i] = (d + c) + i
    <3> SUFFICES ASSUME NEW i \in 1 .. m + 1 PROVE e2[i] = (d + c) + i
      OBVIOUS
    <3>1. CASE i \in 1 .. m
      BY <1>2, <1>6, <1>8, <1>11, <3>1
    <3>2. CASE i = m + 1
      BY <1>2, <1>6, <1>8, <2>1, <3>2
    <3> QED BY <1>6, <3>1, <3>2
  <2>3. (d + c) + (m + 1) = d + k + 1
    BY <1>2, <1>6
  <2>4. \A j \in P : g2[j] > d + k + 1
    BY <1>8, <1>9, <2>1
  <2>5. ASSUME NEW p \in d + k + 2 .. Len(since[s]) PROVE \E j \in P : g2[j] = p
    <3>1. p \in d + k + 1 .. Len(since[s]) /\ p # d + k + 1
      BY <1>2
    <3>2. PICK j \in Pending(s) : g[j] = p
      BY <1>2, <1>13, <1>14, <1>11, <3>1 DEF Complete
    <3>3. j # 1
      BY <2>1, <3>1, <3>2
    <3> QED BY <1>1, <1>8, <3>2, <3>3
  <2>6. ASSUME NEW p \in 1 .. d + c PROVE since[s][p] + WINDOW <= now
    <3>1. CASE p <= d
      BY <1>11, <3>1 DEF Complete
    <3>2. CASE p > d
      <4>1. PICK i \in 1 .. c : p = d + i
        <5>1. p - d \in 1 .. c /\ p = d + (p - d)
          BY <1>6, <3>2
        <5> QED BY <5>1
      <4>2. i \in 1 .. k /\ e[i] = p
        BY <1>2, <1>6, <1>11, <4>1
      <4>3. since[s][p] = state[s][i].written /\ state[s][i].read + WINDOW <= now
        BY <1>2, <1>13, <1>14, <1>4, <1>5, <4>2 DEF Traced
      <4>4. /\ state[s][i].written <= state[s][i].read
            /\ state[s][i].written \in Nat /\ state[s][i].read \in Nat
        <5>1. state[s][i] \in Offence
          BY <1>13, <4>2 DEF MemoryOK
        <5> QED BY <1>2, <1>13, <1>14, <4>2, <5>1, ContainmentAssumption DEF OffencesInOrder, Offence
      <4>5. since[s][p] \in Nat /\ since[s][p] <= state[s][i].read
        BY <4>3, <4>4
      <4> QED BY SMTT(60), <1>2, <4>3, <4>4, <4>5
    <3> QED BY <1>6, <3>1, <3>2
  <2>7. ASSUME NEW p \in THRESHOLD .. d + k + 1
        PROVE  since[s][p] + Lag >= since[s][p - THRESHOLD + 1] + WINDOW
    <3>1. CASE p \in THRESHOLD .. d + k
      BY <1>2, <1>13, <1>14, <1>11, <3>1 DEF Complete
    <3>2. CASE p = d + k + 1
      <4>1. since[s][p] = tail[1].written
        BY <1>4, <2>1, <3>2 DEF Traced
      <4>2. p - THRESHOLD + 1 \in 1 .. d + c
        BY <1>2, <1>6, <3>2
      <4>3. since[s][p - THRESHOLD + 1] + WINDOW <= now
        BY <2>6, <4>2
      <4>4. p - THRESHOLD + 1 \in DOMAIN since[s]
        <5>1. DOMAIN since[s] = 1 .. Len(since[s]) /\ Len(since[s]) \in Nat
          BY <1>14
        <5>2. d + c \in Nat /\ d + c <= Len(since[s])
          BY <1>2, <1>6, <2>1, <5>1
        <5> QED BY <4>2, <5>1, <5>2
      <4>5. since[s][p - THRESHOLD + 1] \in Nat
        BY <1>14, <4>4
      <4>6. now \in Nat /\ Lag \in Nat /\ WINDOW \in Nat
        BY <1>2
      <4> QED BY SMTT(60), <1>3, <4>1, <4>3, <4>5, <4>6
    <3>3. p \in THRESHOLD .. d + k \/ p = d + k + 1
      BY <1>2
    <3> QED BY <3>1, <3>2, <3>3
  <2>8. Len(state'[s]) = m + 1 /\ since'[s] = since[s] /\ now' = now
    BY <1>5
  <2>9. PICK q \in Nat : q = d + c /\ q + (m + 1) = d + k + 1 /\ d + k + 2 = q + (m + 1) + 1
    BY <1>2, <1>6, <2>3
  <2>10. Complete(s, q, g2)'
    <3>1. /\ q + Len(state'[s]) <= Len(since'[s])
          /\ \A p \in 1 .. q : since'[s][p] + WINDOW <= now'
          /\ \A j \in P : g2[j] > q + Len(state'[s])
      BY <2>1, <2>4, <2>6, <2>8, <2>9
    <3>2. \A p \in q + Len(state'[s]) + 1 .. Len(since'[s]) : \E j \in P : g2[j] = p
      BY <2>5, <2>8, <2>9
    <3>3. \A p \in THRESHOLD .. q + Len(state'[s]) :
             since'[s][p] + Lag >= since'[s][p - THRESHOLD + 1] + WINDOW
      BY <2>7, <2>8, <2>9
    <3> QED BY <1>1, <3>1, <3>2, <3>3 DEF Complete
  <2> QED BY <2>2, <2>9, <2>10
<1>12. running' /\ s \notin unseen' =>
          \E d \in Nat :
              /\ \A i \in DOMAIN state'[s] : e2[i] = d + i
              /\ Complete(s, d, g2)'
  <2> SUFFICES ASSUME running, s \notin unseen
               PROVE  \E d \in Nat :
                        /\ \A i \in DOMAIN state'[s] : e2[i] = d + i
                        /\ Complete(s, d, g2)'
    OBVIOUS
  <2>1. PICK d \in Nat : (\A i \in 1 .. k : e[i] = d + i) /\ Complete(s, d, g)
    BY <1>4, <1>13
  <2>2. PICK d2 \in Nat : d2 = d + c
    BY <1>6
  <2>3. (\A i \in 1 .. m + 1 : e2[i] = d2 + i) /\ Complete(s, d2, g2)'
    BY <1>11, <2>1, <2>2
  <2> QED BY <1>5, <2>3
<1> QED BY <1>5, <1>6, <1>10, <1>12 DEF Accounted

\* A crossing is a burst: nothing has left the window, and with the new line
\* there are THRESHOLD different alerts, the first read less than WINDOW ago.
LEMMA CrossingIsBurst ==
    ASSUME MemoryOK, TailInOrder, SinceInOrder, OffencesInOrder, NEW s \in Sources,
           Accounted(s), tail # << >>, 1 \in Pending(s), Crosses(s, now)
    PROVE  Burst(s, WINDOW + Lag)
<1> DEFINE k == Len(state[s])
<1>1. /\ k \in Nat /\ now \in Nat /\ WINDOW \in Nat /\ WINDOW > 0 /\ Lag \in Nat
      /\ THRESHOLD \in Nat /\ THRESHOLD >= 1
  BY ResponderAssumption, ContainmentAssumption DEF MemoryOK
<1>11. DOMAIN state[s] = 1 .. k /\ k = Len(state[s])
  BY DEF MemoryOK
<1>12. /\ Len(since[s]) \in Nat /\ DOMAIN since[s] = 1 .. Len(since[s])
       /\ \A p \in DOMAIN since[s] : p \in Nat /\ since[s][p] \in Nat
  BY ContainmentAssumption DEF MemoryOK
<1>2. tail[1].written \in Nat /\ tail[1].written <= now
  <2>1. 1 \in DOMAIN tail /\ tail[1] \in Line
    BY DEF MemoryOK
  <2> QED BY <2>1, ContainmentAssumption DEF TailInOrder, Line
<1> HIDE DEF k
<1>3. PICK c \in 0 .. k :
          /\ \A i \in c + 1 .. k : state[s][i].read + WINDOW > now
          /\ Len(Kept(s, now)) = k - c
  BY <1>11, KeptIsRest
<1>4. k = THRESHOLD - 1 /\ c = 0
  <2>1. k < THRESHOLD /\ k - c + 1 >= THRESHOLD
    BY <1>11, <1>3 DEF Accounted, Crosses
  <2> QED BY <1>1, <2>1
<1>5. PICK e, g : Traced(s, e, g)
  BY DEF Accounted
<1>6. g[1] \in DOMAIN since[s] /\ since[s][g[1]] <= now
  BY <1>2, <1>5 DEF Traced
<1>7. PICK i \in DOMAIN since[s] :
          i + THRESHOLD - 1 <= g[1] /\ now < since[s][i] + WINDOW + Lag
  <2>1. CASE k = 0
    <3>1. since[s][g[1]] = tail[1].written /\ now <= tail[1].written + Lag
      <4>1. 1 \in DOMAIN tail
        BY DEF MemoryOK
      <4> QED BY <1>5, <4>1 DEF Traced, TailInOrder
    <3>2. g[1] + THRESHOLD - 1 <= g[1] /\ now < since[s][g[1]] + WINDOW + Lag
      BY <1>1, <1>4, <1>6, <1>12, <2>1, <3>1
    <3> QED BY <1>6, <3>2
  <2>2. CASE k > 0
    <3>1. 1 \in 1 .. k /\ k \in 1 .. k
      BY <1>1, <2>2
    <3>2. /\ e[1] \in DOMAIN since[s] /\ e[k] \in DOMAIN since[s]
          /\ since[s][e[1]] = state[s][1].written
          /\ e[k] - e[1] >= k - 1 /\ e[k] < g[1]
      BY <1>5, <1>11, <3>1 DEF Traced
    <3>3. state[s][1].read + WINDOW > now
      BY <1>1, <1>3, <1>4, <3>1
    <3>4. /\ state[s][1].read <= state[s][1].written + Lag
          /\ state[s][1].read \in Nat /\ state[s][1].written \in Nat
      <4>1. state[s][1] \in Offence
        BY <1>11, <3>1 DEF MemoryOK
      <4> QED BY <1>11, <3>1, <4>1, ContainmentAssumption DEF OffencesInOrder, Offence
    <3>5. e[1] + THRESHOLD - 1 <= g[1]
      BY SMTT(60), <1>1, <1>4, <1>6, <1>12, <3>2
    <3>6. now < since[s][e[1]] + WINDOW + Lag
      <4>1. PICK w \in Nat, r \in Nat : w = state[s][1].written /\ r = state[s][1].read
        BY <3>4
      <4>2. r + WINDOW > now /\ r <= w + Lag /\ since[s][e[1]] = w
        BY <3>2, <3>3, <3>4, <4>1
      <4>3. now < w + WINDOW + Lag
        BY <1>1, <4>2
      <4> QED BY <4>2, <4>3
    <3> QED BY <3>2, <3>5, <3>6
  <2> QED BY <1>1, <2>1, <2>2
<1>8. i + THRESHOLD - 1 \in DOMAIN since[s] /\ i + THRESHOLD - 1 <= Len(since[s])
  <2>1. i \in Nat /\ i >= 1 /\ g[1] \in Nat /\ g[1] <= Len(since[s])
    BY <1>6, <1>12
  <2>2. PICK p \in Nat : p = i + THRESHOLD - 1 /\ 1 <= p /\ p <= g[1]
    BY <1>1, <1>7, <2>1
  <2>3. p \in DOMAIN since[s] /\ p <= Len(since[s])
    BY <1>12, <2>1, <2>2
  <2> QED BY <2>2, <2>3
<1>9. since[s][i + THRESHOLD - 1] <= since[s][g[1]]
  BY <1>6, <1>7, <1>8 DEF SinceInOrder
<1>10. since[s][i + THRESHOLD - 1] < since[s][i] + (WINDOW + Lag)
  <2>1. PICK x \in Nat, y \in Nat, z \in Nat :
            x = since[s][i] /\ y = since[s][i + THRESHOLD - 1] /\ z = since[s][g[1]]
    BY <1>6, <1>8, <1>12
  <2>2. y <= z /\ z <= now /\ now < x + WINDOW + Lag
    BY <1>6, <1>7, <1>9, <2>1
  <2>3. y < x + (WINDOW + Lag)
    BY <1>1, <2>2
  <2> QED BY <2>1, <2>3
<1> QED BY <1>7, <1>8, <1>10 DEF Burst

-----------------------------------------------------------------------------
(***************************************************************************)
(* Every step keeps the account.                                           *)
(***************************************************************************)

\* A burst stays a burst while alerts are added.
LEMMA BurstStays ==
    ASSUME NEW s \in Sources, NEW w \in Nat, MemoryOK, Len(since'[s]) \in Nat,
           DOMAIN since[s] \subseteq DOMAIN since'[s], Len(since[s]) <= Len(since'[s]),
           \A p \in DOMAIN since[s] : since'[s][p] = since[s][p], Burst(s, w)
    PROVE  Burst(s, w)'
<1>1. PICK i \in DOMAIN since[s] :
          /\ i + THRESHOLD - 1 <= Len(since[s])
          /\ since[s][i + THRESHOLD - 1] < since[s][i] + w
  BY DEF Burst
<1>2. /\ DOMAIN since[s] = 1 .. Len(since[s]) /\ Len(since[s]) \in Nat
      /\ THRESHOLD \in Nat \ {0}
  BY ResponderAssumption DEF MemoryOK
<1>3. i + THRESHOLD - 1 \in DOMAIN since[s]
  BY <1>1, <1>2
<1>4. i + THRESHOLD - 1 <= Len(since'[s])
  BY <1>1, <1>2
<1>5. since'[s][i + THRESHOLD - 1] < since'[s][i] + w
  BY <1>1, <1>3
<1> QED BY <1>1, <1>4, <1>5 DEF Burst

\* What writing alerts does to the two lists.
LEMMA AppendedLists ==
    ASSUME MemoryOK, HandleInv, NEW s \in Sources, NEW watched \in BOOLEAN,
           NEW n \in {1, 2}, AppendLines(s, watched, n)
    PROVE  /\ since' \in [Sources -> Seq(0 .. MaxTime)]
           /\ \A t \in Sources :
                 /\ Len(since[t]) \in Nat /\ Len(since'[t]) \in Nat
                 /\ DOMAIN since[t] = 1 .. Len(since[t])
                 /\ DOMAIN since'[t] = 1 .. Len(since'[t])
                 /\ Len(since[t]) <= Len(since'[t]) /\ Len(since'[t]) <= Len(since[t]) + n
                 /\ \A p \in 1 .. Len(since[t]) : since'[t][p] = since[t][p]
                 /\ \A p \in Len(since[t]) + 1 .. Len(since'[t]) : since'[t][p] = now
           /\ \A t \in Sources : t # s \/ ~watched => since'[t] = since[t]
           /\ tail' \in Seq(Line)
           /\ Len(tail) \in Nat /\ Len(tail') \in Nat /\ Len(tail) <= Len(tail')
           /\ DOMAIN tail = 1 .. Len(tail) /\ DOMAIN tail' = 1 .. Len(tail')
           /\ \A j \in 1 .. Len(tail) : tail'[j] = tail[j]
           /\ \A j \in Len(tail) + 1 .. Len(tail') :
                 tail'[j] = [source |-> s, watched |-> watched, written |-> now]
<1> DEFINE times == [i \in 1 .. n |-> now]
           line == [source |-> s, watched |-> watched, written |-> now]
           lines == [i \in 1 .. n |-> line]
<1>1. n \in Nat /\ now \in 0 .. MaxTime
  BY DEF MemoryOK
<1>2. times \in Seq(0 .. MaxTime) /\ Len(times) = n /\ \A i \in 1 .. n : times[i] = now
  BY <1>1
<1>3. lines \in Seq(Line) /\ Len(lines) = n /\ \A i \in 1 .. n : lines[i] = line
  BY <1>1 DEF Line
<1>4. \/ since' = since
      \/ watched /\ since' = [since EXCEPT ![s] = @ \o times]
  BY DEF AppendLines
<1>5. tail' = tail \/ tail' = tail \o lines
  BY DEF AppendLines
<1>6. tail \in Seq(Line) /\ since \in [Sources -> Seq(0 .. MaxTime)]
  BY DEF MemoryOK
<1> HIDE DEF times, line, lines
<1>7. ASSUME NEW t \in Sources, NEW q \in Seq(0 .. MaxTime), q = since[t],
             since'[t] = q \/ since'[t] = q \o times
      PROVE  /\ Len(since[t]) \in Nat /\ Len(since'[t]) \in Nat
             /\ since'[t] \in Seq(0 .. MaxTime)
             /\ DOMAIN since[t] = 1 .. Len(since[t])
             /\ DOMAIN since'[t] = 1 .. Len(since'[t])
             /\ Len(since[t]) <= Len(since'[t]) /\ Len(since'[t]) <= Len(since[t]) + n
             /\ \A p \in 1 .. Len(since[t]) : since'[t][p] = since[t][p]
             /\ \A p \in Len(since[t]) + 1 .. Len(since'[t]) : since'[t][p] = now
  <2>1. CASE since'[t] = q
    BY <1>1, <1>7, <2>1
  <2>2. CASE since'[t] = q \o times
    <3>1. \A p \in Len(q) + 1 .. Len(q) + n :
              p - Len(q) \in 1 .. n /\ (q \o times)[p] = times[p - Len(q)]
      BY <1>1, <1>2
    <3> QED BY <1>1, <1>2, <1>7, <2>2, <3>1
  <2> QED BY <1>7, <2>1, <2>2
<1>8. /\ tail' \in Seq(Line)
      /\ Len(tail) \in Nat /\ Len(tail') \in Nat /\ Len(tail) <= Len(tail')
      /\ DOMAIN tail = 1 .. Len(tail) /\ DOMAIN tail' = 1 .. Len(tail')
      /\ \A j \in 1 .. Len(tail) : tail'[j] = tail[j]
      /\ \A j \in Len(tail) + 1 .. Len(tail') : tail'[j] = line
  <2>1. CASE tail' = tail
    BY <1>6, <2>1
  <2>2. CASE tail' = tail \o lines
    <3>1. \A p \in Len(tail) + 1 .. Len(tail) + n :
              p - Len(tail) \in 1 .. n /\ (tail \o lines)[p] = lines[p - Len(tail)]
      BY <1>1, <1>3, <1>6
    <3> QED BY <1>1, <1>3, <1>6, <2>2, <3>1
  <2> QED BY <1>5, <2>1, <2>2
<1>9. \A t \in Sources : since[t] \in Seq(0 .. MaxTime) /\
          (since'[t] = since[t] \/ since'[t] = since[t] \o times)
  BY <1>4, <1>6
<1>10. \A t \in Sources : since'[t] \in Seq(0 .. MaxTime)
  BY <1>7, <1>9
<1>11. since' \in [Sources -> Seq(0 .. MaxTime)]
  BY <1>4, <1>6, <1>10
<1>12. \A t \in Sources : t # s \/ ~watched => since'[t] = since[t]
  BY <1>4, <1>6
<1> QED BY <1>7, <1>8, <1>9, <1>11, <1>12 DEF line

\* Alerts about s are written.
LEMMA AppendKeepsAccount ==
    ASSUME ResponderInv, NEW s \in Sources, NEW watched \in BOOLEAN, NEW n \in {1, 2},
           AppendLines(s, watched, n)
    PROVE  ResponderInv'
<1>0. MemoryOK /\ HandleInv /\ TailInOrder /\ SinceInOrder /\ OffencesInOrder
  BY DEF ResponderInv
<1>1. /\ since' \in [Sources -> Seq(0 .. MaxTime)]
      /\ \A t \in Sources :
            /\ Len(since[t]) \in Nat /\ Len(since'[t]) \in Nat
            /\ DOMAIN since[t] = 1 .. Len(since[t])
            /\ DOMAIN since'[t] = 1 .. Len(since'[t])
            /\ Len(since[t]) <= Len(since'[t])
            /\ \A p \in 1 .. Len(since[t]) : since'[t][p] = since[t][p]
            /\ \A p \in Len(since[t]) + 1 .. Len(since'[t]) : since'[t][p] = now
      /\ \A t \in Sources : t # s \/ ~watched => since'[t] = since[t]
  BY ZenonT(60), <1>0, AppendedLists
<1>2. /\ tail' \in Seq(Line)
      /\ Len(tail) \in Nat /\ Len(tail') \in Nat /\ Len(tail) <= Len(tail')
      /\ DOMAIN tail = 1 .. Len(tail) /\ DOMAIN tail' = 1 .. Len(tail')
      /\ \A j \in 1 .. Len(tail) : tail'[j] = tail[j]
      /\ \A j \in Len(tail) + 1 .. Len(tail') :
            tail'[j] = [source |-> s, watched |-> watched, written |-> now]
  BY <1>0, AppendedLists
<1>3. now \in Nat /\ Lag \in Nat
  BY <1>0, ContainmentAssumption DEF MemoryOK
<1>4. UNCHANGED <<running, enforce, state, blocked, now, attached, excused, mishaps>>
  BY DEF AppendLines, respVars
<1>5. MemoryOK'
  <2>1. alerts' \in 0 .. MaxAlerts /\ exists' \in BOOLEAN /\ unseen' \subseteq Sources
    BY <1>0, ContainmentAssumption DEF AppendLines, MemoryOK
  <2> QED BY <1>0, <1>1, <1>2, <1>4, <2>1 DEF MemoryOK
<1>6. HandleInv'
  BY <1>0, <1>4 DEF AppendLines, HandleInv
<1>7. TailInOrder'
  <2>1. \A j \in DOMAIN tail' : j \in 1 .. Len(tail) \/ j \in Len(tail) + 1 .. Len(tail')
    BY <1>2
  <2>2. ASSUME NEW j \in DOMAIN tail'
        PROVE  tail'[j].written <= now /\ now <= tail'[j].written + Lag
    <3>1. CASE j \in 1 .. Len(tail)
      BY <1>0, <1>2, <3>1 DEF TailInOrder
    <3>2. CASE j \in Len(tail) + 1 .. Len(tail')
      <4>1. tail'[j].written = now
        BY <1>2, <3>2
      <4> QED BY <1>3, <4>1
    <3> QED BY <2>1, <3>1, <3>2
  <2>3. ASSUME NEW i \in DOMAIN tail', NEW j \in DOMAIN tail', i <= j
        PROVE  tail'[i].written <= tail'[j].written
    <3>1. CASE j \in 1 .. Len(tail)
      <4>1. i \in 1 .. Len(tail)
        BY <1>2, <2>3, <3>1
      <4> QED BY <1>0, <1>2, <2>3, <3>1, <4>1 DEF TailInOrder
    <3>2. CASE j \in Len(tail) + 1 .. Len(tail')
      <4>1. tail'[j].written = now
        BY <1>2, <3>2
      <4> QED BY <2>2, <4>1
    <3> QED BY <2>1, <3>1, <3>2
  <2> QED BY <1>4, <2>2, <2>3 DEF TailInOrder
<1>8. SinceInOrder'
  <2> SUFFICES ASSUME NEW t \in Sources
               PROVE  /\ \A p \in DOMAIN since'[t] : since'[t][p] <= now
                      /\ \A p, q \in DOMAIN since'[t] :
                            p <= q => since'[t][p] <= since'[t][q]
    BY <1>4 DEF SinceInOrder
  <2>1. \A p \in DOMAIN since'[t] :
            p \in 1 .. Len(since[t]) \/ p \in Len(since[t]) + 1 .. Len(since'[t])
    BY <1>1
  <2>2. ASSUME NEW p \in DOMAIN since'[t] PROVE since'[t][p] <= now
    <3>1. CASE p \in 1 .. Len(since[t])
      BY <1>0, <1>1, <3>1 DEF SinceInOrder
    <3>2. CASE p \in Len(since[t]) + 1 .. Len(since'[t])
      BY <1>1, <1>3, <3>2
    <3> QED BY <2>1, <3>1, <3>2
  <2>3. ASSUME NEW p \in DOMAIN since'[t], NEW q \in DOMAIN since'[t], p <= q
        PROVE  since'[t][p] <= since'[t][q]
    <3>1. CASE q \in 1 .. Len(since[t])
      <4>1. p \in 1 .. Len(since[t])
        BY <1>1, <2>3, <3>1
      <4> QED BY <1>0, <1>1, <2>3, <3>1, <4>1 DEF SinceInOrder
    <3>2. CASE q \in Len(since[t]) + 1 .. Len(since'[t])
      BY <1>1, <2>2, <3>2
    <3> QED BY <2>1, <3>1, <3>2
  <2> QED BY <2>2, <2>3
<1>9. OffencesInOrder'
  BY <1>0, <1>4 DEF OffencesInOrder
<1>10. ASSUME NEW t \in Sources \ blocked PROVE Accounted(t)'
  <2>1. Accounted(t)
    BY DEF ResponderInv
  <2>2. CASE t = s /\ watched
    BY <1>0, <2>1, <2>2, AccountedGrows
  <2>3. CASE t # s \/ ~watched
    <3>1. Pending(t)' = Pending(t)
      <4>1. \A j \in Len(tail) + 1 .. Len(tail') : ~(tail'[j].source = t /\ tail'[j].watched)
        BY <1>2, <2>3
      <4>2. \A j \in DOMAIN tail' : j \in 1 .. Len(tail) \/ j \in Len(tail) + 1 .. Len(tail')
        BY <1>2
      <4>3. DOMAIN tail \subseteq DOMAIN tail'
        BY <1>2
      <4> QED BY <1>2, <4>1, <4>2, <4>3 DEF Pending
    <3>2. \A j \in Pending(t) : tail'[j] = tail[j]
      BY <1>2 DEF Pending
    <3>3. since'[t] = since[t] /\ state'[t] = state[t] /\ now' \in Nat /\ now <= now'
      BY <1>1, <1>3, <1>4, <2>3
    <3>4. running' /\ t \notin unseen' => running /\ t \notin unseen
      BY <1>4 DEF AppendLines
    <3> QED BY <1>0, <2>1, <3>1, <3>2, <3>3, <3>4, AccountedStays
  <2> QED BY <2>2, <2>3
<1>11. NoInnocentBlocked'
  <2>1. ASSUME NEW t \in Sources, Burst(t, WINDOW + Lag) PROVE Burst(t, WINDOW + Lag)'
    <3>1. WINDOW + Lag \in Nat
      BY ContainmentAssumption, ResponderAssumption
    <3>2. DOMAIN since[t] \subseteq DOMAIN since'[t]
      BY <1>1
    <3> QED BY <1>0, <1>1, <2>1, <3>1, <3>2, BurstStays
  <2>2. blocked \subseteq Sources
    BY <1>0 DEF MemoryOK
  <2> QED BY <1>4, <2>1, <2>2 DEF ResponderInv, NoInnocentBlocked
<1> QED BY <1>4, <1>5, <1>6, <1>7, <1>8, <1>9, <1>10, <1>11 DEF ResponderInv

\* A line is read.
LEMMA ProcessKeepsAccount == ResponderInv /\ ProcessLine => ResponderInv'
<1> SUFFICES ASSUME ResponderInv, ProcessLine PROVE ResponderInv'
  OBVIOUS
<1>0. MemoryOK /\ HandleInv /\ TailInOrder /\ SinceInOrder /\ OffencesInOrder
  BY DEF ResponderInv
<1>1. /\ tail \in Seq(Line) /\ tail # << >> /\ tail' = Tail(tail)
      /\ running /\ UNCHANGED <<running, enforce, now, exists, attached, since, unseen,
                                alerts, mishaps>>
  BY <1>0 DEF ProcessLine, boundVars, MemoryOK
<1>2. /\ Head(tail) = tail[1] /\ 1 \in DOMAIN tail /\ tail[1] \in Line
      /\ tail' \in Seq(Line)
      /\ \A j \in DOMAIN tail' : j \in Nat /\ j + 1 \in DOMAIN tail /\ tail'[j] = tail[j + 1]
  BY <1>1
<1> PICK s \in Sources : s = tail[1].source
  BY <1>2 DEF Line
<1>3. now \in Nat /\ tail[1].written \in 0 .. MaxTime /\ now \in 0 .. MaxTime
      /\ tail[1].written \in Nat /\ Lag \in Nat
      /\ tail[1].written <= now /\ now <= tail[1].written + Lag
  BY <1>0, <1>2, ContainmentAssumption DEF Line, MemoryOK, TailInOrder
<1>4. TailInOrder'
  <2>1. \A j \in DOMAIN tail' :
            tail'[j].written <= now' /\ now' <= tail'[j].written + Lag
    BY <1>0, <1>1, <1>2 DEF TailInOrder
  <2>2. ASSUME NEW i \in DOMAIN tail', NEW j \in DOMAIN tail', i <= j
        PROVE  tail'[i].written <= tail'[j].written
    <3>1. i + 1 \in DOMAIN tail /\ j + 1 \in DOMAIN tail /\ i + 1 <= j + 1
      BY <1>2, <2>2
    <3> QED BY <1>0, <1>2, <3>1 DEF TailInOrder
  <2> QED BY <2>1, <2>2 DEF TailInOrder
<1>5. SinceInOrder' /\ HandleInv'
  <2>1. attached # "none"
    BY DEF ProcessLine
  <2> QED BY <1>0, <1>1, <2>1 DEF SinceInOrder, HandleInv
<1>6. 1 \in Pending(s) <=> tail[1].watched
  BY <1>2 DEF Pending
<1>7. \A t \in Sources \ {s} : 1 \notin Pending(t)
  BY DEF Pending
<1>8. CASE ~tail[1].watched \/ s \in blocked
  <2>1. UNCHANGED <<chain, state, blocked, excused>>
    BY <1>2, <1>8 DEF ProcessLine
  <2>2. MemoryOK'
    BY <1>0, <1>1, <1>2, <2>1 DEF MemoryOK
  <2>3. OffencesInOrder'
    BY <1>0, <1>1, <2>1 DEF OffencesInOrder
  <2>4. ASSUME NEW t \in Sources \ blocked PROVE Accounted(t)'
    <3>1. 1 \notin Pending(t) /\ Accounted(t)
      BY <1>6, <1>7, <1>8 DEF ResponderInv
    <3> QED BY <1>0, <1>1, <2>1, <3>1, AccountedSkips
  <2>5. NoInnocentBlocked'
    BY <1>1, <2>1 DEF ResponderInv, NoInnocentBlocked, Burst
  <2> QED BY <1>4, <1>5, <2>1, <2>2, <2>3, <2>4, <2>5 DEF ResponderInv
<1>9. CASE tail[1].watched /\ s \notin blocked
  <2>0. PICK w \in 0 .. MaxTime : w = tail[1].written
    BY <1>3
  <2>1. state' = [state EXCEPT ![s] = Recorded(s, now, w)]
    BY <1>2, <1>9, <2>0 DEF ProcessLine
  <2>2. Accounted(s) /\ 1 \in Pending(s)
    BY <1>6, <1>9 DEF ResponderInv
  <2>3. /\ \/ Crosses(s, now) /\ blocked' = blocked \cup {s}
           \/ ~Crosses(s, now) /\ blocked' = blocked
        /\ excused \subseteq excused' /\ excused' \subseteq excused \cup {s}
    BY <1>2, <1>9 DEF ProcessLine, Block
  <2>4. PICK c \in 0 .. Len(state[s]) :
            /\ \A i \in 1 .. c : state[s][i].read + WINDOW <= now
            /\ \A i \in c + 1 .. Len(state[s]) : state[s][i].read + WINDOW > now
            /\ Len(Kept(s, now)) = Len(state[s]) - c
            /\ Recorded(s, now, w) \in Seq(Offence)
            /\ Len(Recorded(s, now, w)) = Len(state[s]) - c + 1
            /\ \A i \in 1 .. Len(state[s]) - c : Recorded(s, now, w)[i] = state[s][c + i]
            /\ Recorded(s, now, w)[Len(state[s]) - c + 1] = [read |-> now, written |-> w]
    BY <1>0, RecordedIsRestAndNew
  <2>5. /\ state'[s] = Recorded(s, now, w)
        /\ \A t \in Sources \ {s} : state'[t] = state[t]
    BY <1>0, <2>1 DEF MemoryOK
  <2>6. MemoryOK'
    <3>1. state' \in [Sources -> Seq(Offence)]
      BY <1>0, <2>1, <2>4 DEF MemoryOK
    <3>2. blocked' \subseteq Sources /\ excused' \subseteq Sources
      BY <1>0, <2>3 DEF MemoryOK
    <3> QED BY <1>0, <1>1, <1>2, <3>1, <3>2 DEF MemoryOK
  <2>7. OffencesInOrder'
    <3> SUFFICES ASSUME NEW t \in Sources
                 PROVE  /\ \A i \in DOMAIN state'[t] :
                              /\ state'[t][i].written <= state'[t][i].read
                              /\ state'[t][i].read <= state'[t][i].written + Lag
                              /\ state'[t][i].read <= now
                        /\ \A i, j \in DOMAIN state'[t] :
                              i <= j => state'[t][i].read <= state'[t][j].read
      BY <1>1 DEF OffencesInOrder
    <3>1. CASE t # s
      BY <1>0, <2>5, <3>1 DEF OffencesInOrder
    <3>2. CASE t = s
      <4>1. PICK m \in Nat : m = Len(state[s]) - c
        <5>1. Len(state[s]) \in Nat
          BY <1>0 DEF MemoryOK
        <5>2. Len(state[s]) - c \in Nat
          BY <5>1
        <5> QED BY <5>2
      <4>2. /\ DOMAIN state'[s] = 1 .. m + 1
            /\ \A i \in 1 .. m : state'[s][i] = state[s][c + i]
            /\ state'[s][m + 1] = [read |-> now, written |-> w]
        <5>1. Len(state'[s]) = m + 1 /\ state'[s] \in Seq(Offence)
          BY <2>4, <2>5, <4>1
        <5>2. DOMAIN state'[s] = 1 .. m + 1
          BY <5>1
        <5> QED BY <2>4, <2>5, <4>1, <5>2
      <4>3. \A i \in 1 .. m : c + i \in DOMAIN state[s] /\ c \in Nat
        BY <1>0, <4>1 DEF MemoryOK
      <4>4. ASSUME NEW i \in 1 .. m
            PROVE  /\ state'[s][i].written <= state'[s][i].read
                   /\ state'[s][i].read <= state'[s][i].written + Lag
                   /\ state'[s][i].read <= now
        BY <1>0, <4>2, <4>3 DEF OffencesInOrder
      <4>5. /\ state'[s][m + 1].written <= state'[s][m + 1].read
            /\ state'[s][m + 1].read <= state'[s][m + 1].written + Lag
            /\ state'[s][m + 1].read = now
        BY <1>3, <2>0, <4>2
      <4>6. ASSUME NEW i \in 1 .. m + 1, NEW j \in 1 .. m + 1, i <= j
            PROVE  state'[s][i].read <= state'[s][j].read
        <5>1. CASE j \in 1 .. m
          <6>1. i \in 1 .. m /\ c + i <= c + j
            BY <4>3, <4>6, <5>1
          <6>2. state[s][c + i].read <= state[s][c + j].read
            BY <1>0, <4>3, <5>1, <6>1 DEF OffencesInOrder
          <6> QED BY <4>2, <5>1, <6>1, <6>2
        <5>2. CASE j = m + 1 /\ i \in 1 .. m
          BY <4>4, <4>5, <5>2
        <5>3. CASE j = m + 1 /\ i = m + 1
          BY <1>3, <4>5, <5>3
        <5> QED BY <4>6, <5>1, <5>2, <5>3
      <4>7. \A i \in DOMAIN state'[s] : i \in 1 .. m \/ i = m + 1
        BY <4>2
      <4>8. now <= now
        BY <1>3
      <4> QED BY <3>2, <4>2, <4>4, <4>5, <4>6, <4>7, <4>8
    <3> QED BY <3>1, <3>2
  <2>8. ASSUME NEW t \in Sources \ blocked' PROVE Accounted(t)'
    <3>1. CASE t # s
      <4>1. 1 \notin Pending(t) /\ Accounted(t)
        BY <1>7, <2>3, <3>1 DEF ResponderInv
      <4> QED BY <1>0, <1>1, <2>5, <3>1, <4>1, AccountedSkips
    <3>2. CASE t = s
      <4>1. ~Crosses(s, now) /\ state'[s] = Recorded(s, now, tail[1].written)
        BY <2>0, <2>3, <2>5, <3>2
      <4> QED BY <1>0, <1>1, <2>2, <3>2, <4>1, AccountedRecords
    <3> QED BY <3>1, <3>2
  <2>9. NoInnocentBlocked'
    <3>1. \A t \in Sources : Burst(t, WINDOW + Lag) => Burst(t, WINDOW + Lag)'
      BY <1>1 DEF Burst
    <3>2. \A t \in blocked : t \in excused' \/ Burst(t, WINDOW + Lag)'
      BY <1>0, <2>3, <3>1 DEF ResponderInv, NoInnocentBlocked, MemoryOK
    <3>3. Crosses(s, now) => Burst(s, WINDOW + Lag)'
      BY <1>0, <1>1, <2>2, <3>1, CrossingIsBurst
    <3> QED BY <2>3, <3>2, <3>3 DEF NoInnocentBlocked
  <2> QED BY <1>4, <1>5, <2>6, <2>7, <2>8, <2>9 DEF ResponderInv
<1> QED BY <1>8, <1>9

\* A responder that starts, or has died, remembers nothing and owes nothing.
LEMMA EmptyAccount ==
    ASSUME NEW s \in Sources, state'[s] = << >>, tail' = << >>,
           ~running' \/ since'[s] = << >>
    PROVE  Accounted(s)'
<1>1. Pending(s)' = {} /\ DOMAIN state'[s] = {} /\ Len(state'[s]) = 0
  BY DEF Pending
<1>2. THRESHOLD \in Nat /\ 0 < THRESHOLD
  BY ResponderAssumption
<1>3. PICK e, g : e = [i \in {} |-> 0] /\ g = [i \in {} |-> 0]
  OBVIOUS
<1>4. Traced(s, e, g)'
  BY <1>1, <1>3 DEF Traced
<1>5. ASSUME running' PROVE Complete(s, 0, g)'
  <2>1. Len(since'[s]) = 0
    BY <1>5
  <2> QED BY <1>1, <1>2, <2>1 DEF Complete
<1>6. \A i \in DOMAIN state'[s] : e[i] = 0 + i
  BY <1>1
<1> QED BY <1>1, <1>2, <1>4, <1>5, <1>6 DEF Accounted

LEMMA NothingRemembered ==
    ASSUME Fresh
    PROVE  state' \in [Sources -> Seq(Offence)] /\ blocked' \subseteq Sources
<1>1. << >> \in Seq(Offence)
  OBVIOUS
<1> QED BY <1>1 DEF Fresh, NoOffences

\* Starting and losing the process.
LEMMA RestartKeepsAccount ==
    ASSUME ResponderInv, tail' = << >>, attached' = "none", Fresh, MemoryOK',
           UNCHANGED now,
           \/ ~running' /\ UNCHANGED since
           \/ since' = [s \in Sources |-> << >>]
    PROVE  ResponderInv'
<1>1. state' = NoOffences /\ blocked' = {}
  BY DEF Fresh
<1>2. \A s \in Sources : state'[s] = << >>
  BY <1>1 DEF NoOffences
<1>3. HandleInv' /\ TailInOrder' /\ OffencesInOrder' /\ NoInnocentBlocked'
  BY <1>1, <1>2 DEF HandleInv, TailInOrder, OffencesInOrder, NoInnocentBlocked, NoOffences
<1>4. SinceInOrder'
  BY DEF SinceInOrder, ResponderInv
<1>5. ASSUME NEW s \in Sources PROVE Accounted(s)'
  BY <1>2, EmptyAccount
<1> QED BY <1>3, <1>4, <1>5 DEF ResponderInv

\* Steps that touch neither the lists nor the handle's file.
LEMMA IdleKeepsAccount ==
    ASSUME ResponderInv, MemoryOK', HandleInv', TailInOrder', now <= now',
           UNCHANGED <<running, state, blocked, tail, unseen>>,
           \A s \in Sources \ blocked : since'[s] = since[s],
           \A s \in blocked : since'[s] = since[s] \/ (since'[s] = << >> /\ s \in excused'),
           excused \subseteq excused'
    PROVE  ResponderInv'
<1>1. now \in Nat /\ now' \in Nat /\ blocked \subseteq Sources
  BY ContainmentAssumption DEF ResponderInv, MemoryOK
<1>2. SinceInOrder'
  <2> SUFFICES ASSUME NEW s \in Sources
               PROVE  /\ \A p \in DOMAIN since'[s] : since'[s][p] <= now'
                      /\ \A p, q \in DOMAIN since'[s] :
                            p <= q => since'[s][p] <= since'[s][q]
    BY DEF SinceInOrder
  <2>1. CASE since'[s] = since[s]
    <3>1. \A p \in DOMAIN since[s] : since[s][p] \in Nat
      BY ContainmentAssumption DEF ResponderInv, MemoryOK
    <3> QED BY <1>1, <2>1, <3>1 DEF ResponderInv, SinceInOrder
  <2>2. CASE since'[s] = << >>
    BY <2>2
  <2> QED BY <2>1, <2>2
<1>3. OffencesInOrder'
  <2> SUFFICES ASSUME NEW s \in Sources, NEW i \in DOMAIN state[s]
               PROVE  state[s][i].read <= now'
    BY DEF ResponderInv, OffencesInOrder
  <2>1. state[s][i] \in Offence
    BY DEF ResponderInv, MemoryOK
  <2>2. state[s][i].read <= now /\ state[s][i].read \in Nat
    BY <2>1, ContainmentAssumption DEF ResponderInv, OffencesInOrder, Offence
  <2> QED BY <1>1, <2>2
<1>4. ASSUME NEW s \in Sources \ blocked PROVE Accounted(s)'
  <2>1. Pending(s)' = Pending(s)
    BY DEF Pending
  <2>2. MemoryOK /\ Accounted(s)
    BY DEF ResponderInv
  <2> QED BY <1>1, <2>1, <2>2, AccountedStays
<1>5. NoInnocentBlocked'
  BY <1>1 DEF ResponderInv, NoInnocentBlocked, Burst
<1> QED BY <1>2, <1>3, <1>4, <1>5 DEF ResponderInv

\* The steps of the clock, the operator and the files.
LEMMA OtherStepsKeepAccount ==
    ASSUME ResponderInv,
           \/ OpenLog \/ Tick \/ ArchiveLog \/ ResponderCrash
           \/ StartResponder \/ GatewayRestart \/ \E s \in Sources : Unblock(s)
    PROVE  ResponderInv'
<1>0. MemoryOK /\ HandleInv /\ TailInOrder
  BY DEF ResponderInv
<1>1. ASSUME Mishap PROVE mishaps' \in 0 .. MaxMishaps
  BY <1>0, <1>1, ContainmentAssumption DEF Mishap, MemoryOK
<1>2. CASE OpenLog
  <2>1. UNCHANGED <<running, state, blocked, tail, unseen, since, excused, now, enforce,
                    exists, alerts, mishaps>> /\ attached' = "live"
    BY <1>0, <1>2 DEF OpenLog, respVars, histVars, boundVars, HandleInv
  <2>2. MemoryOK' /\ HandleInv' /\ TailInOrder'
    BY <1>0, <1>2, <2>1 DEF MemoryOK, HandleInv, TailInOrder, OpenLog
  <2>3. now <= now'
    BY <1>0, <2>1, ContainmentAssumption DEF MemoryOK
  <2>4. /\ \A s \in Sources \ blocked : since'[s] = since[s]
        /\ \A s \in blocked : since'[s] = since[s] \/ (since'[s] = << >> /\ s \in excused')
        /\ excused \subseteq excused'
    BY <2>1
  <2> QED BY <2>1, <2>2, <2>3, <2>4, IdleKeepsAccount
<1>3. CASE Tick
  <2>1. UNCHANGED <<running, state, blocked, tail, unseen, since, excused, enforce,
                    exists, attached, alerts, mishaps>>
    BY <1>3 DEF Tick, respVars, logVars, histVars, boundVars
  <2>2. now' = now + 1 /\ now \in Nat /\ now' \in 0 .. MaxTime /\ Lag \in Nat
    BY <1>0, <1>3, ContainmentAssumption DEF Tick, MemoryOK
  <2>3. MemoryOK' /\ HandleInv'
    BY <1>0, <2>1, <2>2 DEF MemoryOK, HandleInv
  <2>4. TailInOrder'
    <3> SUFFICES ASSUME NEW j \in DOMAIN tail
                 PROVE  tail[j].written <= now' /\ now' <= tail[j].written + Lag
      BY <1>0, <2>1 DEF TailInOrder
    <3>1. tail # << >> /\ 1 \in DOMAIN tail /\ 1 <= j /\ Head(tail) = tail[1]
      BY <1>0 DEF MemoryOK
    <3>2. running
      BY <1>0, <3>1 DEF HandleInv
    <3>3. now < tail[1].written + Lag
      BY <1>3, <3>1, <3>2 DEF Tick
    <3>4. tail[1].written <= tail[j].written /\ tail[j].written <= now
      BY <1>0, <3>1 DEF TailInOrder
    <3>5. tail[1] \in Line /\ tail[j] \in Line
      BY <1>0, <3>1 DEF MemoryOK
    <3>6. tail[1].written \in Nat /\ tail[j].written \in Nat
      BY <3>5, ContainmentAssumption DEF Line
    <3> QED BY <2>2, <3>3, <3>4, <3>6
  <2>5. now <= now'
    BY <2>2
  <2>6. /\ \A s \in Sources \ blocked : since'[s] = since[s]
        /\ \A s \in blocked : since'[s] = since[s] \/ (since'[s] = << >> /\ s \in excused')
        /\ excused \subseteq excused'
    BY <2>1
  <2> QED BY <2>1, <2>3, <2>4, <2>5, <2>6, IdleKeepsAccount
<1>4. CASE ArchiveLog
  <2>1. UNCHANGED <<running, state, blocked, tail, unseen, since, excused, now, enforce,
                    alerts>>
    BY <1>4 DEF ArchiveLog, respVars, histVars
  <2>2. MemoryOK' /\ HandleInv' /\ TailInOrder'
    BY <1>0, <1>1, <1>4, <2>1 DEF MemoryOK, HandleInv, TailInOrder, ArchiveLog
  <2>3. now <= now'
    BY <1>0, <2>1, ContainmentAssumption DEF MemoryOK
  <2>4. /\ \A s \in Sources \ blocked : since'[s] = since[s]
        /\ \A s \in blocked : since'[s] = since[s] \/ (since'[s] = << >> /\ s \in excused')
        /\ excused \subseteq excused'
    BY <2>1
  <2> QED BY <2>1, <2>2, <2>3, <2>4, IdleKeepsAccount
<1>5. CASE ResponderCrash
  <2>1. /\ tail' = << >> /\ attached' = "none" /\ ~running' /\ Fresh
        /\ UNCHANGED <<enforce, now, exists, since, unseen, excused, alerts>>
    BY <1>5 DEF ResponderCrash, histVars
  <2>2. MemoryOK'
    <3>1. state' \in [Sources -> Seq(Offence)] /\ blocked' \subseteq Sources
      BY <2>1, NothingRemembered
    <3>2. running' \in BOOLEAN /\ mishaps' \in 0 .. MaxMishaps /\ tail' \in Seq(Line)
      <4>1. << >> \in Seq(Line)
        OBVIOUS
      <4> QED BY <1>1, <1>5, <2>1, <4>1 DEF ResponderCrash
    <3> QED BY <1>0, <2>1, <3>1, <3>2 DEF MemoryOK
  <2> QED BY <2>1, <2>2, RestartKeepsAccount
<1>6. CASE StartResponder \/ GatewayRestart
  <2>1. /\ tail' = << >> /\ attached' = "none" /\ Fresh
        /\ since' = [s \in Sources |-> << >>]
        /\ UNCHANGED <<now, exists, alerts>>
    BY <1>6 DEF StartResponder, GatewayRestart, NewResponder
  <2>2. MemoryOK'
    <3>1. state' \in [Sources -> Seq(Offence)] /\ blocked' \subseteq Sources
      BY <2>1, NothingRemembered
    <3>2. since' \in [Sources -> Seq(0 .. MaxTime)] /\ tail' \in Seq(Line)
      <4>1. << >> \in Seq(0 .. MaxTime) /\ << >> \in Seq(Line)
        OBVIOUS
      <4> QED BY <2>1, <4>1
    <3>3. /\ running' \in BOOLEAN /\ enforce' \in BOOLEAN /\ mishaps' \in 0 .. MaxMishaps
          /\ unseen' = {} /\ excused' = {}
      BY <1>1, <1>6 DEF StartResponder, GatewayRestart, NewResponder
    <3> QED BY <1>0, <2>1, <3>1, <3>2, <3>3 DEF MemoryOK
  <2> QED BY <2>1, <2>2, RestartKeepsAccount
<1>7. ASSUME NEW s \in Sources, Unblock(s) PROVE ResponderInv'
  <2>1. UNCHANGED <<running, state, blocked, tail, unseen, now, enforce, exists, attached,
                    alerts>>
    BY <1>7 DEF Unblock, respVars, logVars
  <2>2. since' \in [Sources -> Seq(0 .. MaxTime)] /\ excused' \subseteq Sources
    <3>1. << >> \in Seq(0 .. MaxTime) /\ since \in [Sources -> Seq(0 .. MaxTime)]
      BY <1>0 DEF MemoryOK
    <3>2. since' = [since EXCEPT ![s] = << >>] \/ since' = since
      BY <1>7 DEF Unblock
    <3>3. since' \in [Sources -> Seq(0 .. MaxTime)]
      BY <3>1, <3>2
    <3> QED BY <1>0, <1>7, <3>3 DEF Unblock, MemoryOK
  <2>3. MemoryOK' /\ HandleInv' /\ TailInOrder'
    BY <1>0, <1>1, <1>7, <2>1, <2>2 DEF MemoryOK, HandleInv, TailInOrder, Unblock
  <2>4. \A t \in Sources \ blocked : since'[t] = since[t]
    BY <1>0, <1>7 DEF Unblock, MemoryOK
  <2>5. \A t \in blocked : since'[t] = since[t] \/ (since'[t] = << >> /\ t \in excused')
    <3>1. CASE s \in blocked
      <4>1. since' = [since EXCEPT ![s] = << >>] /\ s \in excused'
        BY <1>7, <3>1 DEF Unblock
      <4>2. blocked \subseteq Sources /\ DOMAIN since = Sources
        BY <1>0 DEF MemoryOK
      <4> QED BY <4>1, <4>2
    <3>2. CASE s \notin blocked
      BY <1>7, <3>2 DEF Unblock
    <3> QED BY <3>1, <3>2
  <2>6. excused \subseteq excused' /\ now <= now'
    BY <1>0, <1>7, <2>1, ContainmentAssumption DEF Unblock, MemoryOK
  <2> QED BY <2>1, <2>3, <2>4, <2>5, <2>6, IdleKeepsAccount
<1> QED BY <1>2, <1>3, <1>4, <1>5, <1>6, <1>7

\* The account is an invariant of the responder, whatever happens around it.
LEMMA ResponderStep == ResponderInv /\ [Next]_vars => ResponderInv'
<1> SUFFICES ASSUME ResponderInv, [Next]_vars PROVE ResponderInv'
  OBVIOUS
<1>1. ASSUME NEW s \in Sources, UnauthorizedWrite(s) \/ OtherAlert(s)
      PROVE  ResponderInv'
  BY <1>1, AppendKeepsAccount DEF UnauthorizedWrite, OtherAlert
<1>2. CASE ProcessLine
  BY <1>2, ProcessKeepsAccount
<1>3. CASE UNCHANGED vars
  <2>1. UNCHANGED <<running, enforce, state, blocked, now, exists, attached, tail, since,
                    unseen, excused, alerts, mishaps>>
    BY <1>3 DEF vars, respVars, logVars, histVars, boundVars
  <2>2. MemoryOK' /\ HandleInv' /\ TailInOrder'
    BY <2>1 DEF ResponderInv, MemoryOK, HandleInv, TailInOrder
  <2>3. now <= now'
    BY <2>1, ContainmentAssumption DEF ResponderInv, MemoryOK
  <2>4. /\ \A s \in Sources \ blocked : since'[s] = since[s]
        /\ \A s \in blocked : since'[s] = since[s] \/ (since'[s] = << >> /\ s \in excused')
        /\ excused \subseteq excused'
    BY <2>1
  <2> QED BY <2>1, <2>2, <2>3, <2>4, IdleKeepsAccount
<1> QED BY <1>1, <1>2, <1>3, OtherStepsKeepAccount DEF Next

LEMMA ResponderInit == Init => ResponderInv
<1> SUFFICES ASSUME Init PROVE ResponderInv
  OBVIOUS
<1>1. /\ state = NoOffences /\ \A s \in Sources : state[s] = << >> /\ since[s] = << >>
      /\ tail = << >> /\ blocked = {} /\ now = 0 /\ attached = "none"
  BY DEF Init, NoOffences
<1>2. MemoryOK
  BY <1>1, ContainmentAssumption DEF Init, MemoryOK, NoOffences
<1>3. HandleInv /\ TailInOrder /\ SinceInOrder /\ OffencesInOrder /\ NoInnocentBlocked
  BY <1>1 DEF HandleInv, TailInOrder, SinceInOrder, OffencesInOrder, NoInnocentBlocked, Init
<1>4. ASSUME NEW s \in Sources PROVE Accounted(s)
  <2>1. Pending(s) = {} /\ DOMAIN state[s] = {} /\ Len(state[s]) = 0 /\ Len(since[s]) = 0
    BY <1>1 DEF Pending
  <2>2. THRESHOLD \in Nat /\ 0 < THRESHOLD
    BY ResponderAssumption
  <2>3. PICK e, g : e = [i \in {} |-> 0] /\ g = [i \in {} |-> 0]
    OBVIOUS
  <2>4. Traced(s, e, g) /\ Complete(s, 0, g) /\ \A i \in DOMAIN state[s] : e[i] = 0 + i
    BY <2>1, <2>2, <2>3 DEF Traced, Complete
  <2> QED BY <2>1, <2>2, <2>4 DEF Accounted
<1> QED BY <1>2, <1>3, <1>4 DEF ResponderInv

LEMMA ResponderInvariant == Spec => []ResponderInv
  BY ResponderInit, ResponderStep, PTL DEF Spec

\* With the chain, this is the type of every variable.
THEOREM ContainmentTypes == Spec => []TypeOK
<1>1. ContainInv /\ ResponderInv => TypeOK
  BY DEF ContainInv, ResponderInv, MemoryOK, TypeOK
<1> QED BY <1>1, ContainInvariant, ResponderInvariant, PTL

\* No source is blocked without THRESHOLD alerts of its own within the window
\* and the reading lag, whatever was archived, restarted or blocked before
\* (responder.py:34-39, 73).
THEOREM NobodyBlockedWithoutCause == Spec => []NoInnocentBlocked
<1>1. ResponderInv => NoInnocentBlocked
  BY DEF ResponderInv
<1> QED BY <1>1, ResponderInvariant, PTL

\* An account with nothing pending leaves no burst that fits the window.
LEMMA AccountHasNoBurst ==
    ASSUME ResponderInv, NEW s \in Sources \ blocked, running, s \notin unseen, AllRead(s)
    PROVE  ~Burst(s, WINDOW - Lag)
<1> SUFFICES ASSUME NEW i \in DOMAIN since[s], i + THRESHOLD - 1 <= Len(since[s]),
                    since[s][i + THRESHOLD - 1] < since[s][i] + (WINDOW - Lag)
             PROVE  FALSE
  BY DEF Burst
<1>1. Pending(s) = {}
  BY DEF Pending, AllRead
<1>0. Accounted(s)
  BY DEF ResponderInv
<1>2. PICK g : \E d \in Nat : Complete(s, d, g)
  BY <1>0 DEF Accounted
<1>12. PICK d \in Nat : Complete(s, d, g)
  BY <1>2
<1>3. /\ Len(since[s]) \in Nat /\ DOMAIN since[s] = 1 .. Len(since[s])
      /\ \A p \in DOMAIN since[s] : since[s][p] \in Nat
      /\ Len(state[s]) \in Nat
  BY ContainmentAssumption DEF ResponderInv, MemoryOK
<1>4. d + Len(state[s]) >= Len(since[s])
  <2> SUFFICES ASSUME d + Len(state[s]) < Len(since[s]) PROVE FALSE
    BY <1>3
  <2>1. Len(since[s]) \in d + Len(state[s]) + 1 .. Len(since[s])
    BY <1>3
  <2> QED BY <1>1, <1>12, <2>1 DEF Complete
<1>5. THRESHOLD \in Nat \ {0} /\ WINDOW \in Nat /\ Lag \in Nat
  BY ResponderAssumption, ContainmentAssumption
<1>6. PICK p \in Nat : p = i + THRESHOLD - 1
  BY <1>3, <1>5
<1>7. p \in THRESHOLD .. d + Len(state[s]) /\ p - THRESHOLD + 1 = i
  BY <1>3, <1>4, <1>5, <1>6
<1>8. since[s][p] + Lag >= since[s][i] + WINDOW
  BY <1>12, <1>7 DEF Complete
<1>9. p \in DOMAIN since[s]
  BY <1>3, <1>5, <1>6
<1>10. PICK x \in Nat, y \in Nat : x = since[s][i] /\ y = since[s][p]
  BY <1>3, <1>9
<1>11. y + Lag >= x + WINDOW /\ y < x + (WINDOW - Lag)
  BY <1>6, <1>8, <1>10
<1> QED BY <1>5, <1>11

\* No offender is missed whose alerts the open handle returns: once they are
\* read, a burst that fits the window in spite of the lag has blocked it, for
\* every interleaving of writing, reading and pruning (responder.py:59-77).
THEOREM NoOffenderMissed == Spec => []OffenderBlocked
<1>1. ResponderInv => OffenderBlocked
  <2> SUFFICES ASSUME ResponderInv, NEW s \in Sources, running, s \notin unseen,
                      AllRead(s), Burst(s, WINDOW - Lag)
               PROVE  s \in blocked
    BY DEF OffenderBlocked
  <2> QED BY AccountHasNoBurst
<1> QED BY <1>1, ResponderInvariant, PTL

-----------------------------------------------------------------------------
(***************************************************************************)
(* The playbook beside the responder.  Every step of the composition is a  *)
(* step of the gateway or of the playbook, which changes nothing but the   *)
(* chain, its own list and, taking a rule away, who is excused.            *)
(***************************************************************************)

\* What block_ip appends: a rule behind the conduits, which changes nobody's
\* containment.
LEMMA PlaybookAppends ==
    ASSUME chain \in Seq(Rule), Positions(Conduits) # {}, NEW s \in Sources, AppendDrop(s)
    PROVE  /\ chain' \in Seq(Rule)
           /\ \A t \in Sources : Contained(t)' = Contained(t)
           /\ \A t \in Sources : Positions(t)' # {} => Positions(t) # {} \/ t = s
           /\ Positions(Conduits)' # {}
<1>1. s \in Rule /\ s # Conduits
  BY ConduitsAssumption DEF Rule
<1>2. /\ Len(chain) \in Nat /\ DOMAIN chain = 1 .. Len(chain) /\ chain' \in Seq(Rule)
      /\ DOMAIN chain' = 1 .. Len(chain) + 1 /\ chain'[Len(chain) + 1] = s
      /\ \A i \in 1 .. Len(chain) : chain'[i] = chain[i]
  <2>1. chain' = Append(chain, s) /\ Len(chain) \in Nat
    BY DEF AppendDrop
  <2>2. chain' \in Seq(Rule) /\ Len(chain') = Len(chain) + 1
    BY <1>1, <2>1
  <2>3. /\ chain'[Len(chain) + 1] = s
        /\ \A i \in 1 .. Len(chain) : chain'[i] = chain[i]
    BY <1>1, <2>1
  <2> QED BY <2>1, <2>2, <2>3
<1>3. ASSUME NEW r, NEW i \in Positions(r)'
      PROVE  i \in Nat /\ (i \in Positions(r) \/ (i > Len(chain) /\ r = s))
  <2>1. i \in 1 .. Len(chain) + 1 /\ chain'[i] = r
    BY <1>2 DEF Positions
  <2>2. CASE i = Len(chain) + 1
    BY <1>2, <2>1, <2>2
  <2>3. CASE i # Len(chain) + 1
    <3>1. i \in 1 .. Len(chain) /\ chain[i] = r
      BY <1>2, <2>1, <2>3
    <3> QED BY <1>2, <3>1 DEF Positions
  <2> QED BY <2>2, <2>3
<1>4. \A r : Positions(r) \subseteq Positions(r)'
  BY <1>2 DEF Positions
<1>5. Positions(Conduits)' = Positions(Conduits)
  <2>1. Positions(Conduits) \subseteq Positions(Conduits)'
    BY <1>4
  <2>2. ASSUME NEW i \in Positions(Conduits)' PROVE i \in Positions(Conduits)
    BY <1>1, <1>3
  <2> QED BY <2>1, <2>2
<1>6. ASSUME NEW t \in Sources PROVE Contained(t)' = Contained(t)
  <2>1. ASSUME Contained(t) PROVE Contained(t)'
    BY <1>4, <1>5, <2>1 DEF Contained
  <2>2. ASSUME Contained(t)' PROVE Contained(t)
    <3>1. PICK i \in Positions(t)' : \A j \in Positions(Conduits) : i < j
      BY <1>5, <2>2 DEF Contained
    <3>2. PICK j \in Positions(Conduits) : i < j
      BY <3>1
    <3>3. j \in 1 .. Len(chain) /\ i \in Nat
      BY <1>2, <1>3 DEF Positions
    <3>4. i \in Positions(t)
      BY <1>2, <1>3, <3>2, <3>3
    <3> QED BY <3>1, <3>4 DEF Contained
  <2>3. Contained(t) \in BOOLEAN /\ Contained(t)' \in BOOLEAN
    BY DEF Contained
  <2> QED BY <2>1, <2>2, <2>3
<1> QED BY <1>2, <1>3, <1>5, <1>6

\* A rule in front is one more rule of its source.
LEMMA InsertAdds ==
    ASSUME chain \in Seq(Rule), NEW s \in Sources, InsertDrop(s)
    PROVE  /\ Positions(Conduits) # {} => Positions(Conduits)' # {}
           /\ \A t \in Sources : Positions(t)' # {} => Positions(t) # {} \/ t = s
<1>1. s \in Rule
  BY DEF Rule
<1>2. /\ Len(chain) \in Nat /\ DOMAIN chain = 1 .. Len(chain)
      /\ DOMAIN chain' = 1 .. Len(chain) + 1 /\ chain'[1] = s
      /\ \A i \in 1 .. Len(chain) : chain'[i + 1] = chain[i]
  BY <1>1 DEF InsertDrop
<1>3. ASSUME NEW i \in Positions(Conduits) PROVE i + 1 \in Positions(Conduits)'
  BY <1>2 DEF Positions
<1>4. ASSUME NEW t \in Sources, NEW i \in Positions(t)', t # s
      PROVE  Positions(t) # {}
  <2>1. i \in 1 .. Len(chain) + 1 /\ chain'[i] = t /\ i # 1
    BY <1>2, <1>4 DEF Positions
  <2>2. i - 1 \in 1 .. Len(chain) /\ i - 1 + 1 = i
    BY <1>2, <2>1
  <2>3. i - 1 \in Positions(t)
    BY <1>2, <2>1, <2>2 DEF Positions
  <2> QED BY <2>3
<1> QED BY <1>3, <1>4

\* When the responder touches the chain, it is armed, and the source whose rule
\* it inserts has a threshold of alerts in the history.
LEMMA InsertedIsEarned ==
    ASSUME ResponderInv, ProcessLine, ~UNCHANGED chain
    PROVE  \E s \in Sources : enforce /\ InsertDrop(s) /\ Len(since[s]) >= THRESHOLD
<1> PICK s : s = Head(tail).source
  OBVIOUS
<1>1. MemoryOK /\ TailInOrder /\ SinceInOrder /\ OffencesInOrder
  BY DEF ResponderInv
<1>2. tail # << >> /\ tail \in Seq(Line)
  BY <1>1 DEF ProcessLine, MemoryOK
<1>3. s \in Sources /\ Head(tail) = tail[1] /\ 1 \in DOMAIN tail
  <2>1. Head(tail) \in Line /\ Head(tail) = tail[1] /\ 1 \in DOMAIN tail
    BY <1>2
  <2> QED BY <2>1 DEF Line
<1>4. Head(tail).watched /\ s \notin blocked /\ Crosses(s, now) /\ Block(s)
  BY DEF ProcessLine
<1>5. Accounted(s) /\ 1 \in Pending(s)
  BY <1>3, <1>4 DEF ResponderInv, Pending
<1>6. Burst(s, WINDOW + Lag)
  BY <1>1, <1>2, <1>3, <1>4, <1>5, CrossingIsBurst
<1>7. Len(since[s]) >= THRESHOLD
  <2>1. PICK i \in DOMAIN since[s] : i + THRESHOLD - 1 <= Len(since[s])
    BY <1>6 DEF Burst
  <2>2. i \in Nat /\ i >= 1 /\ Len(since[s]) \in Nat
    <3>1. since[s] \in Seq(0 .. MaxTime)
      BY <1>1, <1>3 DEF MemoryOK
    <3> QED BY <3>1
  <2> QED BY <2>1, <2>2, ResponderAssumption
<1>8. enforce /\ InsertDrop(s)
  BY <1>4 DEF Block
<1> QED BY <1>3, <1>7, <1>8

\* A rule the responder inserts stands for THRESHOLD alerts of its source.
LEMMA GatewayStepEarns ==
    ASSUME ResponderInv, chain \in Seq(Rule), Positions(Conduits) # {}, [Next]_vars
    PROVE  /\ Positions(Conduits)' # {}
           /\ \A t \in Sources :
                 Positions(t)' # {} => Positions(t) # {} \/ Len(since[t]) >= THRESHOLD
<1>1. CASE UNCHANGED chain
  BY <1>1 DEF Positions
<1>2. CASE chain' = <<Conduits>>
  <2>1. /\ DOMAIN chain' = {1} /\ chain'[1] = Conduits
    BY <1>2
  <2>2. 1 \in Positions(Conduits)'
    BY <2>1 DEF Positions
  <2>3. \A t \in Sources : Positions(t)' = {}
    BY <2>1, ConduitsAssumption DEF Positions
  <2> QED BY <2>2, <2>3
<1>3. ASSUME NEW s \in Sources, Unblock(s)
      PROVE  /\ Positions(Conduits)' # {}
             /\ \A t \in Sources : Positions(t)' # {} => Positions(t) # {}
  BY <1>3, DeleteFreesOnlyIts DEF Unblock
<1>4. CASE ProcessLine
  BY <1>1, <1>4, InsertedIsEarned, InsertAdds
<1>5. ASSUME NEW s \in Sources, UnauthorizedWrite(s) \/ OtherAlert(s) PROVE UNCHANGED chain
  BY <1>5 DEF UnauthorizedWrite, OtherAlert, AppendLines
<1>6. OpenLog \/ Tick \/ ArchiveLog \/ ResponderCrash \/ StartResponder => UNCHANGED chain
  BY DEF OpenLog, Tick, ArchiveLog, ResponderCrash, StartResponder
<1>7. GatewayRestart => chain' = <<Conduits>>
  BY DEF GatewayRestart, LoadRules
<1>8. UNCHANGED vars => UNCHANGED chain
  BY DEF vars
<1> QED BY <1>1, <1>2, <1>3, <1>4, <1>5, <1>6, <1>7, <1>8 DEF Next

\* Beyond the invariants of the two: the conduits stay on the chain, what the
\* file and the history hold is part of what was written, and every rule on the
\* chain is earned, as is every rule that the playbook's run has yet to append.
PlaybookInv ==
    /\ ResponderInv
    /\ ContainInv
    /\ Positions(Conduits) # {}
    /\ logged \in [Sources -> Nat]
    /\ written \in [Sources -> Nat]
    /\ todo \in SUBSET Sources
    /\ \A s \in Sources : logged[s] <= written[s] /\ Len(since[s]) <= written[s]
    /\ \A s \in todo : written[s] >= TRIGGER_COUNT
    /\ \A s \in Sources :
          Positions(s) # {} => written[s] >= THRESHOLD \/ written[s] >= TRIGGER_COUNT

\* Where no alert of an unauthorized write is written, the history does not grow.
LEMMA SinceKeepsWithin ==
    ASSUME ResponderInv,
           \/ \E s \in Sources : OtherAlert(s) \/ Unblock(s)
           \/ OpenLog \/ ProcessLine \/ Tick \/ ArchiveLog
           \/ ResponderCrash \/ StartResponder \/ GatewayRestart
           \/ UNCHANGED vars
    PROVE  \A t \in Sources : Len(since'[t]) \in Nat /\ Len(since'[t]) <= Len(since[t])
<1>1. \A t \in Sources : Len(since[t]) \in Nat
  <2>1. \A t \in Sources : since[t] \in Seq(0 .. MaxTime)
    BY DEF ResponderInv, MemoryOK
  <2> QED BY <2>1
<1>2. CASE UNCHANGED since
  BY <1>1, <1>2
<1>3. ASSUME NEW s \in Sources, OtherAlert(s) PROVE UNCHANGED since
  BY <1>3 DEF OtherAlert, AppendLines
<1>4. ASSUME NEW s \in Sources, Unblock(s)
      PROVE  \A t \in Sources : since'[t] = since[t] \/ since'[t] = << >>
  <2>1. since' = since \/ since' = [since EXCEPT ![s] = << >>]
    BY <1>4 DEF Unblock
  <2>2. since \in [Sources -> Seq(0 .. MaxTime)]
    BY DEF ResponderInv, MemoryOK
  <2> QED BY <2>1, <2>2
<1>5. OpenLog \/ ProcessLine \/ Tick \/ ArchiveLog \/ ResponderCrash => UNCHANGED since
  BY DEF OpenLog, ProcessLine, Tick, ArchiveLog, ResponderCrash, histVars
<1>6. StartResponder \/ GatewayRestart => \A t \in Sources : since'[t] = << >>
  BY DEF StartResponder, GatewayRestart, NewResponder
<1>7. UNCHANGED vars => UNCHANGED since
  BY DEF vars, histVars
<1>8. Len(<< >>) = 0
  OBVIOUS
<1> QED BY <1>1, <1>2, <1>3, <1>4, <1>5, <1>6, <1>7, <1>8

\* A step of the gateway, with or without an alert in the file.
LEMMA GatewayStepKeepsPlaybookInv ==
    ASSUME PlaybookInv, [Next]_vars, UNCHANGED todo,
           \/ /\ \A t \in Sources :
                    Len(since'[t]) \in Nat /\ Len(since'[t]) <= Len(since[t])
              /\ written' = written
              /\ logged' = logged \/ logged' = [s \in Sources |-> 0]
           \/ \E s \in Sources, modbus \in BOOLEAN : LoggedWrite(s, modbus)
    PROVE  PlaybookInv'
<1>1. ResponderInv' /\ ContainInv'
  BY ResponderStep, ContainStep DEF PlaybookInv
<1>2. /\ Positions(Conduits)' # {}
      /\ \A t \in Sources :
            Positions(t)' # {} => Positions(t) # {} \/ Len(since[t]) >= THRESHOLD
  BY GatewayStepEarns DEF PlaybookInv, ContainInv
<1>3. ASSUME NEW t \in Sources
      PROVE  /\ logged[t] \in Nat /\ written[t] \in Nat /\ Len(since[t]) \in Nat
             /\ logged[t] <= written[t] /\ Len(since[t]) <= written[t]
  <2>1. since[t] \in Seq(0 .. MaxTime)
    BY DEF PlaybookInv, ResponderInv, MemoryOK
  <2> QED BY <2>1 DEF PlaybookInv
<1>4. /\ logged' \in [Sources -> Nat] /\ written' \in [Sources -> Nat]
      /\ \A t \in Sources : /\ written[t] <= written'[t] /\ logged'[t] <= written'[t]
                            /\ Len(since'[t]) <= written'[t]
  <2>1. CASE /\ \A t \in Sources :
                   Len(since'[t]) \in Nat /\ Len(since'[t]) <= Len(since[t])
             /\ written' = written
             /\ logged' = logged \/ logged' = [s \in Sources |-> 0]
    BY <1>3, <2>1 DEF PlaybookInv
  <2>2. ASSUME NEW s \in Sources, NEW modbus \in BOOLEAN, LoggedWrite(s, modbus)
        PROVE  /\ logged' \in [Sources -> Nat] /\ written' \in [Sources -> Nat]
               /\ \A t \in Sources : /\ written[t] <= written'[t] /\ logged'[t] <= written'[t]
                                     /\ Len(since'[t]) <= written'[t]
    <3>1. PICK n \in {1, 2} : AppendLines(s, TRUE, n)
      BY <2>2 DEF LoggedWrite, UnauthorizedWrite
    <3>2. alerts' - alerts = n
      BY <3>1, ContainmentAssumption DEF AppendLines, PlaybookInv, ResponderInv, MemoryOK
    <3>3. /\ logged' = [logged EXCEPT ![s] = @ + n] \/ logged' = logged
          /\ written' = [written EXCEPT ![s] = @ + n]
      BY <2>2, <3>2 DEF LoggedWrite
    <3>4. /\ \A t \in Sources : Len(since'[t]) \in Nat /\ Len(since'[t]) <= Len(since[t]) + n
          /\ \A t \in Sources : t # s => since'[t] = since[t]
      <4>1. MemoryOK /\ HandleInv /\ TRUE \in BOOLEAN
        BY DEF PlaybookInv, ResponderInv
      <4>2. /\ \A t \in Sources :
                  /\ Len(since[t]) \in Nat /\ Len(since'[t]) \in Nat
                  /\ Len(since[t]) <= Len(since'[t]) /\ Len(since'[t]) <= Len(since[t]) + n
            /\ \A t \in Sources : t # s \/ ~TRUE => since'[t] = since[t]
        BY ZenonT(60), <3>1, <4>1, AppendedLists
      <4> QED BY <4>2
    <3>5. logged \in [Sources -> Nat] /\ written \in [Sources -> Nat]
      BY DEF PlaybookInv
    <3>6. logged' \in [Sources -> Nat] /\ written' \in [Sources -> Nat]
      BY <3>3, <3>5
    <3>7. ASSUME NEW t \in Sources
          PROVE  /\ written[t] <= written'[t] /\ logged'[t] <= written'[t]
                 /\ Len(since'[t]) <= written'[t]
      <4>1. CASE t = s
        <5>1. /\ logged'[t] = logged[t] + n \/ logged'[t] = logged[t]
              /\ written'[t] = written[t] + n
          BY <3>3, <3>5, <4>1
        <5> QED BY <1>3, <3>4, <5>1
      <4>2. CASE t # s
        <5>1. logged'[t] = logged[t] /\ written'[t] = written[t] /\ since'[t] = since[t]
          BY <3>3, <3>4, <3>5, <4>2
        <5> QED BY <1>3, <5>1
      <4> QED BY <4>1, <4>2
    <3> QED BY <3>6, <3>7
  <2> QED BY <2>1, <2>2
<1>5. ASSUME NEW t \in Sources, Positions(t)' # {}
      PROVE  written'[t] >= THRESHOLD \/ written'[t] >= TRIGGER_COUNT
  <2>1. \/ written[t] >= THRESHOLD \/ written[t] >= TRIGGER_COUNT
        \/ Len(since[t]) >= THRESHOLD
    BY <1>2, <1>5 DEF PlaybookInv
  <2>2. THRESHOLD \in Nat /\ TRIGGER_COUNT \in Nat /\ written'[t] \in Nat
    BY <1>4, ResponderAssumption, PlaybookAssumption
  <2> QED BY <1>3, <1>4, <2>1, <2>2
<1>6. ASSUME NEW t \in todo' PROVE t \in Sources /\ written'[t] >= TRIGGER_COUNT
  <2>1. t \in Sources /\ written[t] >= TRIGGER_COUNT
    BY DEF PlaybookInv
  <2> QED BY <1>3, <1>4, <2>1, PlaybookAssumption
<1> QED BY <1>1, <1>2, <1>4, <1>5, <1>6 DEF PlaybookInv

\* A step of the playbook leaves the responder's account as it is.
LEMMA PlaybookLeavesAccount ==
    ASSUME ResponderInv, Mishap \/ UNCHANGED mishaps,
           UNCHANGED <<respVars, now, logVars, since, unseen, alerts>>,
           excused \subseteq excused', excused' \subseteq Sources
    PROVE  ResponderInv'
<1>1. UNCHANGED <<running, enforce, state, blocked, now, exists, attached, tail, since,
                  unseen, alerts>>
  BY DEF respVars, logVars
<1>2. mishaps' \in 0 .. MaxMishaps
  BY ContainmentAssumption DEF Mishap, ResponderInv, MemoryOK
<1>3. MemoryOK' /\ HandleInv' /\ TailInOrder'
  BY <1>1, <1>2 DEF ResponderInv, MemoryOK, HandleInv, TailInOrder
<1>4. now <= now'
  BY <1>1, ContainmentAssumption DEF ResponderInv, MemoryOK
<1>5. /\ \A s \in Sources \ blocked : since'[s] = since[s]
      /\ \A s \in blocked : since'[s] = since[s] \/ (since'[s] = << >> /\ s \in excused')
  BY <1>1
<1> QED BY <1>1, <1>3, <1>4, <1>5, IdleKeepsAccount

\* A run that starts has a list of sources that wrote enough.
LEMMA PlaybookStarts ==
    ASSUME PlaybookInv, NEW m \in {"block", "unblock"}, RunPlaybook(m)
    PROVE  PlaybookInv'
<1>1. /\ UNCHANGED <<chain, running, enforce, blocked, tail, now, since, excused, logged, written>>
      /\ todo' = FindOffenders(logged)
  BY DEF RunPlaybook, respVars, logVars, histVars
<1>2. ResponderInv'
  <2>1. excused \subseteq Sources
    BY DEF PlaybookInv, ResponderInv, MemoryOK
  <2> QED BY <1>1, <2>1, PlaybookLeavesAccount DEF RunPlaybook, histVars, PlaybookInv
<1>3. ContainInv' /\ Positions(Conduits)' = Positions(Conduits)
      /\ \A t \in Sources : Positions(t)' = Positions(t)
  BY <1>1 DEF PlaybookInv, ContainInv, BlockedIsContained, Contained, Positions
<1>4. ASSUME NEW t \in todo' PROVE t \in Sources /\ written[t] >= TRIGGER_COUNT
  <2>1. t \in Sources /\ logged[t] >= TRIGGER_COUNT /\ logged[t] <= written[t]
    BY <1>1 DEF FindOffenders, PlaybookInv
  <2> QED BY <2>1, PlaybookAssumption DEF PlaybookInv
<1> QED BY <1>1, <1>2, <1>3, <1>4 DEF PlaybookInv

\* A rule that the playbook appends or deletes.
LEMMA PlaybookEdits ==
    ASSUME PlaybookInv, NEW s \in Sources, BlockIp(s) \/ UnblockIp(s) PROVE PlaybookInv'
<1>1. /\ UNCHANGED <<running, enforce, blocked, tail, now, since, logged, written>>
      /\ s \in todo /\ todo' = todo \ {s}
  BY DEF BlockIp, UnblockIp, Handles, respVars, logVars
<1>2. /\ chain \in Seq(Rule) /\ Positions(Conduits) # {} /\ excused \subseteq Sources
      /\ written[s] >= TRIGGER_COUNT
  BY <1>1 DEF PlaybookInv, ContainInv, ResponderInv, MemoryOK
<1>3. ResponderInv'
  <2>1. excused \subseteq excused' /\ excused' \subseteq Sources
    BY <1>2 DEF BlockIp, UnblockIp
  <2> QED BY <2>1, PlaybookLeavesAccount
         DEF BlockIp, UnblockIp, Handles, boundVars, PlaybookInv
<1>4. /\ chain' \in Seq(Rule) /\ Positions(Conduits)' # {}
      /\ \A t \in Sources : Positions(t)' # {} => Positions(t) # {} \/ t = s
      /\ \A t \in Sources : Contained(t) /\ t \in blocked \ excused' => Contained(t)'
  <2>1. CASE UNCHANGED chain
    BY <1>2, <2>1 DEF Positions, Contained
  <2>2. CASE AppendDrop(s)
    BY <1>2, <2>2, PlaybookAppends
  <2>3. CASE DeleteDrop(s) /\ excused' = IF s \in blocked THEN excused \cup {s} ELSE excused
    BY <1>2, <2>3, DeleteFreesOnlyIts
  <2> QED BY <2>1, <2>2, <2>3 DEF BlockIp, UnblockIp
<1>5. ContainInv'
  <2>1. excused \subseteq excused'
    BY DEF BlockIp, UnblockIp
  <2>2. \A t \in blocked : t \in Sources
    BY DEF PlaybookInv, ContainInv
  <2> QED BY <1>1, <1>4, <2>1, <2>2 DEF PlaybookInv, ContainInv, BlockedIsContained
<1> QED BY <1>1, <1>2, <1>3, <1>4, <1>5 DEF PlaybookInv

\* The invariant of the composition.
LEMMA PlaybookInvariant == PbSpec => []PlaybookInv
<1>1. PbInit => PlaybookInv
  <2> SUFFICES ASSUME PbInit PROVE PlaybookInv
    OBVIOUS
  <2>1. Init /\ logged = [s \in Sources |-> 0] /\ written = [s \in Sources |-> 0]
        /\ todo = {}
    BY DEF PbInit
  <2>2. chain = <<Conduits>> /\ blocked = {} /\ tail = << >> /\ now = 0
        /\ \A s \in Sources : Len(since[s]) = 0
    BY <2>1 DEF Init, ChainInit
  <2>3. ContainInv
    BY <2>2, ContainmentAssumption DEF ContainInv, BlockedIsContained, Rule
  <2>4. 1 \in Positions(Conduits) /\ \A s \in Sources : Positions(s) = {}
    BY <2>2, ConduitsAssumption DEF Positions
  <2> QED BY <2>1, <2>2, <2>3, <2>4, ResponderInit DEF PlaybookInv
<1>2. PlaybookInv /\ [PbNext]_pbVars => PlaybookInv'
  <2> SUFFICES ASSUME PlaybookInv, [PbNext]_pbVars PROVE PlaybookInv'
    OBVIOUS
  <2>1. ASSUME NEW m \in {"block", "unblock"}, RunPlaybook(m) PROVE PlaybookInv'
    BY <2>1, PlaybookStarts
  <2>2. ASSUME NEW s \in Sources, BlockIp(s) \/ UnblockIp(s) PROVE PlaybookInv'
    BY <2>2, PlaybookEdits
  <2>3. ASSUME NEW s \in Sources, NEW modbus \in BOOLEAN, LoggedWrite(s, modbus)
        PROVE  PlaybookInv'
    <3>1. [Next]_vars /\ UNCHANGED todo
      BY <2>3 DEF LoggedWrite, playbookVars, Next
    <3> QED BY <2>3, <3>1, GatewayStepKeepsPlaybookInv
  <2>4. CASE LoggedArchive
    <3>1. ArchiveLog /\ written' = written /\ logged' = [s \in Sources |-> 0] /\ UNCHANGED todo
      BY <2>4 DEF LoggedArchive, playbookVars
    <3>2. \A t \in Sources : Len(since'[t]) \in Nat /\ Len(since'[t]) <= Len(since[t])
      BY <3>1, SinceKeepsWithin DEF PlaybookInv
    <3> QED BY <3>1, <3>2, GatewayStepKeepsPlaybookInv DEF Next
  <2>5. CASE OtherStep
    <3>1. \A t \in Sources : Len(since'[t]) \in Nat /\ Len(since'[t]) <= Len(since[t])
      BY <2>5, SinceKeepsWithin DEF OtherStep, PlaybookInv
    <3>2. [Next]_vars /\ UNCHANGED <<logged, written, todo>>
      BY <2>5 DEF OtherStep, playbookVars, Next
    <3> QED BY <3>1, <3>2, GatewayStepKeepsPlaybookInv
  <2>6. CASE UNCHANGED pbVars
    <3>1. UNCHANGED vars /\ UNCHANGED <<logged, written, todo>>
      BY <2>6 DEF pbVars, playbookVars
    <3>2. \A t \in Sources : Len(since'[t]) \in Nat /\ Len(since'[t]) <= Len(since[t])
      BY <3>1, SinceKeepsWithin DEF PlaybookInv
    <3> QED BY <3>1, <3>2, GatewayStepKeepsPlaybookInv
  <2> QED BY <2>1, <2>2, <2>3, <2>4, <2>5, <2>6 DEF PbNext
<1> QED BY <1>1, <1>2, PTL DEF PbSpec

\* Every rule on the chain is earned, whichever of the two put it there
\* (auto_block_ip.py:43-53, responder.py:34-39, 73-75).
THEOREM RulesAreEarned == PbSpec => []DropsAreEarned
<1>1. PlaybookInv => DropsAreEarned
  <2> SUFFICES ASSUME PlaybookInv, NEW s \in Sources, Rules(s) > 0
               PROVE  written[s] >= THRESHOLD \/ written[s] >= TRIGGER_COUNT
    BY DEF DropsAreEarned
  <2>1. Positions(s) # {}
    BY FS_EmptySet DEF Rules
  <2> QED BY <2>1 DEF PlaybookInv
<1> QED BY <1>1, PlaybookInvariant, PTL

\* The playbook beside it does not take back what an armed responder's block
\* promises (responder.py:42-47, auto_block_ip.py:71-83).
THEOREM BlocksStayEffective == PbSpec => []BlockedIsContained
<1>1. PlaybookInv => BlockedIsContained
  BY DEF PlaybookInv, ContainInv
<1> QED BY <1>1, PlaybookInvariant, PTL

\* A step of block_ip contains nobody and frees nobody, whatever crashes, archives
\* and rules of either came before: its DROP stands behind the conduits
\* (auto_block_ip.py:56).
PlaybookContainsNobody ==
    [][ \A s \in Sources :
          BlockIp(s) => \A t \in Sources : Contained(t)' = Contained(t) ]_pbVars

THEOREM PlaybookBlocksInVain == PbSpec => PlaybookContainsNobody
<1>1. PlaybookInv /\ [PbNext]_pbVars
          => [ \A s \in Sources :
                 BlockIp(s) => \A t \in Sources : Contained(t)' = Contained(t) ]_pbVars
  <2> SUFFICES ASSUME PlaybookInv, NEW s \in Sources, BlockIp(s)
               PROVE  \A t \in Sources : Contained(t)' = Contained(t)
    OBVIOUS
  <2>1. chain \in Seq(Rule) /\ Positions(Conduits) # {}
    BY DEF PlaybookInv, ContainInv
  <2>2. CASE AppendDrop(s)
    BY <2>1, <2>2, PlaybookAppends
  <2>3. CASE UNCHANGED chain
    BY <2>3 DEF Contained, Positions
  <2> QED BY <2>2, <2>3 DEF BlockIp
<1> QED BY <1>1, PlaybookInvariant, PTL DEF PbSpec, PlaybookContainsNobody

\* What the abstract specification is about, as state functions.
Convicted == { s \in Sources : written[s] >= THRESHOLD }
Dropped == { s \in Sources : Contained(s) }

\* Where the chain stays, nobody's containment changes.
LEMMA SameChainDropsSame == UNCHANGED chain => UNCHANGED Dropped
  BY DEF Dropped, Contained, Positions

\* A rule in front drops its source and nobody else.
LEMMA InsertDropsOne ==
    ASSUME chain \in Seq(Rule), NEW s \in Sources, InsertDrop(s)
    PROVE  Dropped' = Dropped \cup {s}
<1>1. s \in Rule /\ s # Conduits
  BY ConduitsAssumption DEF Rule
<1>2. /\ Len(chain) \in Nat /\ DOMAIN chain = 1 .. Len(chain)
      /\ DOMAIN chain' = 1 .. Len(chain) + 1 /\ chain'[1] = s
      /\ \A i \in 1 .. Len(chain) : chain'[i + 1] = chain[i]
  BY <1>1 DEF InsertDrop
<1>3. ASSUME NEW t \in Sources \ {s}, Contained(t)' PROVE Contained(t)
  <2>1. PICK k \in Positions(t)' : \A j \in Positions(Conduits)' : k < j
    BY <1>3 DEF Contained
  <2>2. PICK i : i = k - 1
    OBVIOUS
  <2>3. k \in 1 .. Len(chain) + 1 /\ chain'[k] = t /\ k # 1
    BY <1>2, <2>1 DEF Positions
  <2>4. i \in 1 .. Len(chain) /\ i + 1 = k
    BY <1>2, <2>2, <2>3
  <2>5. i \in Positions(t)
    BY <1>2, <2>3, <2>4 DEF Positions
  <2>6. ASSUME NEW j \in Positions(Conduits) PROVE i < j
    <3>1. j \in 1 .. Len(chain) /\ j + 1 \in Positions(Conduits)'
      BY <1>2 DEF Positions
    <3> QED BY <2>1, <2>4, <3>1
  <2> QED BY <2>5, <2>6 DEF Contained
<1> QED BY <1>3, InsertContains DEF Dropped

\* The gateway's steps that write no alert.
LEMMA GatewayIsQuarantine ==
    ASSUME PlaybookInv, UNCHANGED written,
           \/ \E s \in Sources : OtherAlert(s) \/ Unblock(s)
           \/ OpenLog \/ ProcessLine \/ Tick \/ ArchiveLog
           \/ ResponderCrash \/ StartResponder \/ GatewayRestart
    PROVE  [QU!QuarantineNext]_(QU!quarantineVars)
<1>1. chain \in Seq(Rule) /\ UNCHANGED Convicted
  BY DEF PlaybookInv, ContainInv, Convicted
<1>2. ASSUME UNCHANGED <<chain, running, enforce>> PROVE UNCHANGED QU!quarantineVars
  BY <1>1, <1>2, SameChainDropsSame DEF QU!quarantineVars, Convicted, Dropped
<1>3. ASSUME NEW s \in Sources, Unblock(s) PROVE QU!QuarantineNext
  <2>1. UNCHANGED <<running, enforce>> /\ Dropped' \subseteq Dropped
    BY <1>1, <1>3, DeleteFreesOnlyIts DEF Unblock, respVars, Dropped
  <2>2. Dropped' = Dropped \ (Dropped \ Dropped')
    BY <2>1
  <2>3. QU!LetGo(Dropped \ Dropped')
    BY <1>1, <2>1, <2>2 DEF QU!LetGo, Convicted, Dropped
  <2> QED BY <2>3 DEF QU!QuarantineNext, Dropped
<1>4. CASE ProcessLine
  <2>1. UNCHANGED <<running, enforce>> /\ running
    BY <1>4 DEF ProcessLine
  <2>2. CASE UNCHANGED chain
    BY <1>2, <2>1, <2>2
  <2>3. CASE ~UNCHANGED chain
    <3>1. PICK s \in Sources : enforce /\ InsertDrop(s) /\ Len(since[s]) >= THRESHOLD
      BY <1>4, <2>3, InsertedIsEarned DEF PlaybookInv
    <3>2. s \in Convicted
      <4>1. since[s] \in Seq(0 .. MaxTime) /\ written[s] \in Nat /\ Len(since[s]) <= written[s]
        BY DEF PlaybookInv, ResponderInv, MemoryOK
      <4> QED BY <3>1, <4>1, ResponderAssumption DEF Convicted
    <3>3. Dropped' = Dropped \cup {s}
      BY <1>1, <3>1, InsertDropsOne
    <3>4. QU!Drop(s)
      BY <1>1, <2>1, <3>1, <3>2, <3>3 DEF QU!Drop, Convicted, Dropped
    <3> QED BY <3>4 DEF QU!QuarantineNext
  <2> QED BY <2>2, <2>3
<1>5. CASE ResponderCrash \/ StartResponder
  <2>1. UNCHANGED Dropped
    BY <1>5, SameChainDropsSame DEF ResponderCrash, StartResponder
  <2>2. (running /\ enforce)' \in BOOLEAN
    OBVIOUS
  <2>3. QU!Rearm
    BY <1>1, <2>1, <2>2 DEF QU!Rearm, Convicted, Dropped
  <2> QED BY <2>3 DEF QU!QuarantineNext
<1>6. CASE GatewayRestart
  <2>1. chain' = <<Conduits>>
    BY <1>6 DEF GatewayRestart, LoadRules
  <2>2. \A t \in Sources : Positions(t)' = {}
    BY <2>1, ConduitsAssumption DEF Positions
  <2>3. Dropped' = {}
    BY <2>2 DEF Dropped, Contained
  <2>4. QU!Reload
    BY <1>1, <2>3 DEF QU!Reload, Convicted, Dropped
  <2> QED BY <2>4 DEF QU!QuarantineNext
<1>7. (\E s \in Sources : OtherAlert(s)) \/ OpenLog \/ Tick \/ ArchiveLog
          => UNCHANGED <<chain, running, enforce>>
  BY DEF OtherAlert, AppendLines, OpenLog, Tick, ArchiveLog, respVars
<1> QED BY <1>2, <1>3, <1>4, <1>5, <1>6, <1>7

\* A write can convict its source and drops nobody.
LEMMA WritesAreQuarantine ==
    ASSUME PlaybookInv, NEW s \in Sources, NEW modbus \in BOOLEAN, LoggedWrite(s, modbus)
    PROVE  [QU!QuarantineNext]_(QU!quarantineVars)
<1>1. UNCHANGED <<chain, running, enforce>>
  BY DEF LoggedWrite, UnauthorizedWrite, AppendLines, respVars
<1>2. PICK n \in Nat : written' = [written EXCEPT ![s] = @ + n]
  <2>1. PICK n \in {1, 2} : AppendLines(s, TRUE, n)
    BY DEF LoggedWrite, UnauthorizedWrite
  <2>2. alerts' - alerts = n
    BY <2>1, ContainmentAssumption DEF AppendLines, PlaybookInv, ResponderInv, MemoryOK
  <2> QED BY <2>2 DEF LoggedWrite
<1>3. Convicted' = Convicted \cup {s} \/ Convicted' = Convicted
  <2>1. written \in [Sources -> Nat] /\ THRESHOLD \in Nat
    BY ResponderAssumption DEF PlaybookInv
  <2>2. \A t \in Sources \ {s} : written'[t] = written[t]
    BY <1>2, <2>1
  <2>3. written'[s] = written[s] + n
    BY <1>2, <2>1
  <2>4. \A t \in Sources \ {s} : t \in Convicted' <=> t \in Convicted
    BY <2>2 DEF Convicted
  <2>5. s \in Convicted => s \in Convicted'
    BY <2>1, <2>3 DEF Convicted
  <2>6. Convicted \subseteq Sources /\ Convicted' \subseteq Sources
    BY DEF Convicted
  <2> QED BY <2>4, <2>5, <2>6
<1>4. UNCHANGED Dropped
  BY <1>1, SameChainDropsSame
<1>5. CASE Convicted' = Convicted \cup {s}
  <2>1. QU!Convict(s)
    BY <1>1, <1>4, <1>5 DEF QU!Convict, Convicted, Dropped
  <2> QED BY <2>1 DEF QU!QuarantineNext
<1>6. CASE Convicted' = Convicted
  BY <1>1, <1>4, <1>6 DEF QU!quarantineVars, Convicted, Dropped
<1> QED BY <1>3, <1>5, <1>6

\* The playbook drops nobody and can only let sources go.
LEMMA PlaybookIsQuarantine ==
    ASSUME PlaybookInv, NEW s \in Sources, BlockIp(s) \/ UnblockIp(s)
    PROVE  [QU!QuarantineNext]_(QU!quarantineVars)
<1>1. /\ chain \in Seq(Rule) /\ Positions(Conduits) # {}
      /\ UNCHANGED <<running, enforce, written>> /\ UNCHANGED Convicted
  BY DEF PlaybookInv, ContainInv, BlockIp, UnblockIp, Handles, respVars, Convicted
<1>2. CASE UNCHANGED chain
  BY <1>1, <1>2, SameChainDropsSame DEF QU!quarantineVars, Convicted, Dropped
<1>3. CASE AppendDrop(s)
  <2>1. UNCHANGED Dropped
    BY <1>1, <1>3, PlaybookAppends DEF Dropped
  <2> QED BY <1>1, <2>1 DEF QU!quarantineVars, Convicted, Dropped
<1>4. CASE DeleteDrop(s)
  <2>1. Dropped' \subseteq Dropped
    BY <1>1, <1>4, DeleteFreesOnlyIts DEF Dropped
  <2>2. Dropped' = Dropped \ (Dropped \ Dropped')
    BY <2>1
  <2>3. QU!LetGo(Dropped \ Dropped')
    BY <1>1, <2>2 DEF QU!LetGo, Convicted, Dropped
  <2> QED BY <2>3 DEF QU!QuarantineNext, Dropped
<1> QED BY <1>2, <1>3, <1>4 DEF BlockIp, UnblockIp

\* The responder and the playbook on one chain implement the quarantine: only an
\* armed responder drops, one source at a time and none without its alerts, and
\* nothing else that either does contains anybody (responder.py:34-77,
\* auto_block_ip.py:43-103).
THEOREM ContainmentIsQuarantine == PbSpec => ImplementsQuarantine
<1>1. PbInit => QU!QuarantineInit
  <2> SUFFICES ASSUME PbInit PROVE QU!QuarantineInit
    OBVIOUS
  <2>1. chain = <<Conduits>> /\ written = [s \in Sources |-> 0]
    BY DEF PbInit, Init, ChainInit
  <2>2. \A s \in Sources : Positions(s) = {}
    BY <2>1, ConduitsAssumption DEF Positions
  <2>3. Dropped = {} /\ Convicted = {}
    BY <2>1, <2>2, ResponderAssumption DEF Dropped, Contained, Convicted
  <2> QED BY <2>3 DEF QU!QuarantineInit, Dropped, Convicted
<1>2. PlaybookInv /\ [PbNext]_pbVars => [QU!QuarantineNext]_(QU!quarantineVars)
  <2> SUFFICES ASSUME PlaybookInv, [PbNext]_pbVars
               PROVE  [QU!QuarantineNext]_(QU!quarantineVars)
    OBVIOUS
  <2>1. ASSUME NEW s \in Sources, BlockIp(s) \/ UnblockIp(s)
        PROVE  [QU!QuarantineNext]_(QU!quarantineVars)
    BY <2>1, PlaybookIsQuarantine
  <2>2. ASSUME NEW s \in Sources, NEW modbus \in BOOLEAN, LoggedWrite(s, modbus)
        PROVE  [QU!QuarantineNext]_(QU!quarantineVars)
    BY <2>2, WritesAreQuarantine
  <2>3. CASE \/ \E m \in {"block", "unblock"} : RunPlaybook(m)
             \/ LoggedArchive \/ UNCHANGED pbVars
    <3>1. UNCHANGED <<chain, running, enforce, written>>
      BY <2>3 DEF RunPlaybook, LoggedArchive, ArchiveLog, pbVars, vars, respVars
    <3> QED BY <3>1, SameChainDropsSame DEF QU!quarantineVars, Dropped
  <2>4. CASE OtherStep
    BY <2>4, GatewayIsQuarantine DEF OtherStep
  <2> QED BY <2>1, <2>2, <2>3, <2>4 DEF PbNext
<1> QED BY <1>1, <1>2, PlaybookInvariant, PTL
       DEF PbSpec, ImplementsQuarantine, QU!QuarantineSpec

=============================================================================
