------------------------ MODULE HistorianPoller_proofs ------------------------
(***************************************************************************)
(* Proofs about the historian collector: what a fresh health file vouches  *)
(* for, and how long a cached client is used, for any number of assets.    *)
(***************************************************************************)
EXTENDS HistorianPoller, TLAPS, FunctionTheorems, FiniteSetTheorems

-----------------------------------------------------------------------------
\* The batch has at most one point of an asset.  As long as every read was
\* answered it has one of each asset the loop has left behind, and a refreshed
\* health file means a loop that got to its end like that.
PollInv ==
    /\ TypeOK
    /\ \A p, q \in lines : p[1] = q[1] => p = q
    /\ pc = "poll" /\ ok => Covered = 1 .. turn - 1
    /\ pc = "post" /\ ok => Covered = Assets
    /\ pc \in {"start", "choose"} /\ refreshed => Covered = Assets

\* A client the loop uses is of a kind the batch may name.
LEMMA ClientType == ASSUME TypeOK PROVE ClientFor(turn) \in Client
<1>1. clients[turn] \in Client \cup {None} /\ targets \in Kinds
  BY DEF TypeOK
<1>2. CASE clients[turn] # None /\ clients[turn].connected
  BY <1>1, <1>2 DEF ClientFor
<1>3. CASE ~(clients[turn] # None /\ clients[turn].connected)
  BY <1>1, <1>3 DEF ClientFor, Client
<1> QED BY <1>2, <1>3

\* Reading adds the one point of the asset at hand.
LEMMA ReadKeepsInv == PollInv /\ ReadAsset => PollInv'
<1> SUFFICES ASSUME PollInv, ReadAsset PROVE PollInv'
  OBVIOUS
<1> DEFINE k == ClientFor(turn).kind
<1>1. TypeOK /\ NAssets \in Nat /\ turn \in 1 .. NAssets
  BY NAssetsAssumption DEF PollInv, TypeOK, Assets
<1>2. ClientFor(turn) \in Client /\ k \in Kinds
  BY <1>1, ClientType DEF Client
<1>3. /\ pc = "poll" /\ clients' = [clients EXCEPT ![turn] = ClientFor(turn)]
      /\ lines' = lines \cup {<<turn, k>>} /\ NextAsset
      /\ UNCHANGED <<host, influx, targets, ok, refreshed>>
  BY DEF ReadAsset
<1> HIDE DEF k
<1>4. lines \subseteq Point /\ \A p \in lines : p[1] < turn
  BY <1>1, <1>3 DEF TypeOK
<1>5. \A p, q \in lines' : p[1] = q[1] => p = q
  BY <1>1, <1>3, <1>4 DEF PollInv
<1>6. Covered' = Covered \cup {turn}
  <2>1. \A a : a \in Covered' <=> \E p \in lines' : a = p[1]
    BY DEF Covered
  <2>2. \A a : a \in Covered <=> \E p \in lines : a = p[1]
    BY DEF Covered
  <2>3. <<turn, k>>[1] = turn
    OBVIOUS
  <2> QED BY <1>3, <2>1, <2>2, <2>3
<1>7. ok => Covered' = 1 .. turn
  BY <1>1, <1>3, <1>6 DEF PollInv
<1>8. lines' \subseteq Point /\ \A p \in lines' : p[1] <= turn
  BY <1>1, <1>2, <1>3, <1>4 DEF Point, Assets
<1>9. clients' \in [Assets -> Client \cup {None}]
  BY <1>1, <1>2, <1>3 DEF TypeOK
<1>10. CASE turn = NAssets
  BY <1>1, <1>3, <1>5, <1>7, <1>8, <1>9, <1>10
     DEF NextAsset, PollInv, TypeOK, Assets
<1>11. CASE turn # NAssets
  <2>1. turn' = turn + 1 /\ turn' \in Assets /\ pc' = "poll"
    BY <1>1, <1>3, <1>11 DEF NextAsset, Assets
  <2>2. \A p \in lines' : p[1] < turn'
    BY <1>1, <1>8, <2>1 DEF Point, Assets
  <2>3. ok => Covered' = 1 .. turn' - 1
    BY <1>1, <1>7, <2>1
  <2> QED BY <1>1, <1>3, <1>5, <1>8, <1>9, <2>1, <2>2, <2>3 DEF PollInv, TypeOK
<1> QED BY <1>10, <1>11

\* A failed read spoils the batch and moves on.
LEMMA FailKeepsInv == PollInv /\ ReadFails => PollInv'
<1> SUFFICES ASSUME PollInv, ReadFails PROVE PollInv'
  OBVIOUS
<1>1. TypeOK /\ NAssets \in Nat /\ turn \in 1 .. NAssets
  BY NAssetsAssumption DEF PollInv, TypeOK, Assets
<1>2. /\ pc = "poll" /\ clients' = [clients EXCEPT ![turn] = None] /\ ok' = FALSE
      /\ NextAsset /\ UNCHANGED <<host, influx, targets, lines, refreshed>>
  BY DEF ReadFails
<1>3. lines \subseteq Point /\ \A p \in lines : p[1] < turn
  BY <1>1, <1>2 DEF TypeOK
<1>4. clients' \in [Assets -> Client \cup {None}]
  BY <1>1, <1>2 DEF TypeOK
<1>5. pc' \in {"poll", "post"} /\ turn' \in Assets
      /\ (pc' = "poll" => turn' = turn + 1)
  BY <1>1, <1>2 DEF NextAsset, Assets
<1>6. \A p \in lines : pc' = "poll" => p[1] < turn'
  BY <1>1, <1>3, <1>5 DEF Point, Assets
<1> QED BY <1>1, <1>2, <1>4, <1>5, <1>6 DEF PollInv, TypeOK

\* The invariant of the collector.
LEMMA PollInvariant == Spec => []PollInv
<1>1. Init => PollInv
  <2>1. 1 \in Assets
    BY NAssetsAssumption DEF Assets
  <2> QED BY <2>1 DEF Init, PollInv, TypeOK, Kinds, HostState, Covered
<1>2. PollInv /\ [Next]_vars => PollInv'
  <2> SUFFICES ASSUME PollInv, [Next]_vars PROVE PollInv'
    OBVIOUS
  <2> USE DEF cycleVars
  <2>1. CASE EnsureSchema
    BY <2>1 DEF EnsureSchema, PollInv, TypeOK, Covered
  <2>2. CASE ProbeController
    <3>1. ASSUME NEW kind \in Kinds, StartPolling(kind),
                 UNCHANGED <<host, influx, clients, refreshed>>
          PROVE  PollInv'
      BY <3>1, NAssetsAssumption DEF StartPolling, PollInv, TypeOK, Covered, Assets
    <3>2. CASE turn # NAssets /\ host[<<"primary", turn>>] # "away"
      BY <2>2, <3>2, NAssetsAssumption
         DEF ProbeController, PollInv, TypeOK, Covered, Assets
    <3> QED BY <2>2, <3>1, <3>2 DEF ProbeController, Kinds
  <2>3. CASE ReadAsset
    BY <2>3, ReadKeepsInv
  <2>4. CASE ReadFails
    BY <2>4, FailKeepsInv
  <2>5. CASE PostBatch
    BY <2>5 DEF PostBatch, PollInv, TypeOK, Covered
  <2>6. CASE HostChanges
    <3>1. PICK k \in Kinds, a \in Assets, h \in HostState :
             /\ host' = [host EXCEPT ![<<k, a>>] = h]
             /\ clients' = clients \/ (clients[a] # None
                   /\ clients' = [clients EXCEPT ![a] = [clients[a] EXCEPT !.peer = FALSE]])
      BY <2>6 DEF HostChanges
    <3>2. clients' \in [Assets -> Client \cup {None}]
      <4>1. clients \in [Assets -> Client \cup {None}]
        BY DEF PollInv, TypeOK
      <4>2. clients[a] # None => [clients[a] EXCEPT !.peer = FALSE] \in Client
        BY <4>1 DEF Client
      <4> QED BY <3>1, <4>1, <4>2
    <3> QED BY <2>6, <3>1, <3>2 DEF HostChanges, PollInv, TypeOK, Covered
  <2>7. CASE InfluxChanges
    BY <2>7 DEF InfluxChanges, PollInv, TypeOK, Covered
  <2>8. CASE UNCHANGED vars
    BY <2>8 DEF vars, PollInv, TypeOK, Covered
  <2> QED BY <2>1, <2>2, <2>3, <2>4, <2>5, <2>6, <2>7, <2>8 DEF Next, Cycle
<1> QED BY <1>1, <1>2, PTL DEF Spec

-----------------------------------------------------------------------------
\* Types of the collector's state.
THEOREM PollTypeCorrect == Spec => []TypeOK
<1>1. PollInv => TypeOK
  BY DEF PollInv
<1> QED BY <1>1, PollInvariant, PTL

\* A batch with one point of each asset has as many points as assets.
LEMMA OnePointEach ==
    ASSUME TypeOK, \A p, q \in lines : p[1] = q[1] => p = q, Covered = Assets
    PROVE  Cardinality(lines) = NAssets
<1> DEFINE f == [p \in lines |-> p[1]]
<1>1. f \in Bijection(lines, Assets)
  <2>1. f \in [lines -> Assets]
    BY DEF TypeOK, Point
  <2>2. \A p, q \in lines : f[p] = f[q] => p = q
    OBVIOUS
  <2>3. \A a \in Assets : \E p \in lines : f[p] = a
    BY DEF Covered
  <2> QED BY <2>1, <2>2, <2>3 DEF Bijection, Injection, Surjection, IsInjective
<1>2. IsFiniteSet(Assets) /\ Cardinality(Assets) = NAssets
  BY FS_Interval, NAssetsAssumption DEF Assets
<1>3. ExistsBijection(Assets, lines)
  BY <1>1, Fun_ExistsBijSymmetric DEF ExistsBijection
<1> QED BY <1>2, <1>3, FS_Bijection

\* A fresh health file vouches for a whole batch, whatever hosts and InfluxDB
\* did between the reads (poller.py:77-112).
THEOREM HealthIsHonest == Spec => []HealthMeansComplete
<1>1. PollInv => HealthMeansComplete
  BY OnePointEach DEF PollInv, HealthMeansComplete
<1> QED BY <1>1, PollInvariant, PTL

\* A client is used for as long as its own host answers it, whatever the target
\* of its asset has become (poller.py:81-85).
THEOREM ClientsStick == Spec => WorkingClientIsKept
<1>1. TypeOK /\ [Next]_vars =>
        [\A a \in Assets : /\ clients[a] # None
                           /\ clients[a].connected
                           /\ Answers(clients[a], a)
                           => /\ clients'[a] # None
                              /\ clients'[a].kind = clients[a].kind]_vars
  <2> SUFFICES ASSUME TypeOK, Next, NEW a \in Assets, clients[a] # None,
                      clients[a].connected, Answers(clients[a], a)
               PROVE  clients'[a] # None /\ clients'[a].kind = clients[a].kind
    BY DEF vars
  <2>1. clients \in [Assets -> Client \cup {None}] /\ turn \in Assets
        /\ clients[a] \in Client
    BY DEF TypeOK
  <2>2. CASE ReadAsset
    BY <2>1, <2>2 DEF ReadAsset, ClientFor
  <2>3. CASE ReadFails
    BY <2>1, <2>3 DEF ReadFails, ClientFor
  <2>4. CASE HostChanges
    <3>1. PICK b \in Assets :
             clients' = clients \/ (clients[b] # None
                /\ clients' = [clients EXCEPT ![b] = [clients[b] EXCEPT !.peer = FALSE]])
      BY <2>4 DEF HostChanges
    <3>2. /\ clients'[a] \in Client
          /\ clients'[a].kind = clients[a].kind
      <4>1. \A c \in Client : /\ [c EXCEPT !.peer = FALSE] \in Client
                              /\ [c EXCEPT !.peer = FALSE].kind = c.kind
        BY DEF Client
      <4>2. CASE a = b
        <5>1. clients'[a] = clients[a] \/ clients'[a] = [clients[a] EXCEPT !.peer = FALSE]
          BY <2>1, <3>1, <4>2
        <5> QED BY <2>1, <4>1, <5>1
      <4>3. CASE a # b
        <5>1. clients'[a] = clients[a]
          BY <2>1, <3>1, <4>3
        <5> QED BY <2>1, <5>1
      <4> QED BY <4>2, <4>3
    <3> QED BY <3>2, NoneAssumption
  <2> QED BY <2>2, <2>3, <2>4 DEF Next, Cycle, EnsureSchema, ProbeController, PostBatch,
         InfluxChanges
<1> QED BY <1>1, PollTypeCorrect, PTL DEF Spec, WorkingClientIsKept

=============================================================================
