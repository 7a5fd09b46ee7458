--------------------------- MODULE HistorianPoller ---------------------------
(***************************************************************************)
(* lab-environment/historian-poller: the collector that reads every        *)
(* controller, or its Modbus stand-in, in each cycle and writes one batch  *)
(* of points to InfluxDB.  A cycle probes the controllers one by one,      *)
(* reads the chosen targets one by one, and posts; the network changes     *)
(* between any two of these steps.                                         *)
(*                                                                         *)
(* pymodbus is external.  A client is a socket to the host it was made     *)
(* for: `connected` stays true until the client itself closes, whatever    *)
(* became of the peer, and a read on a closed one connects first.  A host  *)
(* that goes away takes its connections with it: after its return a read   *)
(* over one of them fails, once, and the client is dropped.                *)
(***************************************************************************)
EXTENDS Naturals, FiniteSets

CONSTANTS
    NAssets,  \* the length of OT_POLL_PRIMARY and of OT_POLL_FALLBACK
    None      \* no client

ASSUME NAssetsAssumption == NAssets \in Nat \ {0}

Assets == 1 .. NAssets
Kinds == {"primary", "fallback"}

\* A host is away, serves reads, or takes connections and answers reads with an
\* error.
HostState == {"away", "serving", "refusing"}

VARIABLES
    host,       \* what listens on port 502 of every asset's two endpoints
    influx,     \* what InfluxDB answers: "ok", "rejected" (400) or "away"
    clients,    \* per asset, None or the kind of endpoint, `connected` and whether
                \*   the host still has the other end of the connection
    pc,         \* "start", "choose", "poll", "post"
    turn,       \* the asset that is next in the loop
    targets,    \* the kind choose_targets() returned
    lines,      \* the process points of the batch: asset and kind read
    ok,         \* poll_once()'s ok
    refreshed   \* the last completed cycle touched the health file

cycleVars == <<turn, targets, lines, ok>>
vars == <<host, influx, clients, pc, cycleVars, refreshed>>

Client == [kind : Kinds, connected : BOOLEAN, peer : BOOLEAN]
Point == Assets \X Kinds

ASSUME NoneAssumption == None \notin Client

TypeOK ==
    /\ host \in [Kinds \X Assets -> HostState]
    /\ influx \in {"ok", "rejected", "away"}
    /\ clients \in [Assets -> Client \cup {None}]
    /\ pc \in {"start", "choose", "poll", "post"}
    /\ turn \in Assets
    /\ targets \in Kinds
    /\ lines \subseteq Point
    /\ ok \in BOOLEAN
    /\ refreshed \in BOOLEAN
    \* The loop has read nothing yet of the assets that are left.
    /\ \A p \in lines : pc = "poll" => p[1] < turn

Init ==
    /\ host \in [Kinds \X Assets -> {"away", "serving"}]
    /\ influx \in {"ok", "away"}
    /\ clients = [a \in Assets |-> None]
    /\ pc = "start"
    /\ turn = 1
    /\ targets = "fallback"
    /\ lines = {}
    /\ ok = TRUE
    /\ refreshed = FALSE

-----------------------------------------------------------------------------
\* ensure_schema(), once; nothing that follows depends on its result.
EnsureSchema ==
    /\ pc = "start"
    /\ pc' = "choose"
    /\ UNCHANGED <<host, influx, clients, cycleVars, refreshed>>

\* poll_once() starts with an empty batch on the kind that was chosen.
StartPolling(kind) ==
    /\ targets' = kind
    /\ pc' = "poll"
    /\ turn' = 1
    /\ lines' = {}
    /\ ok' = TRUE

\* choose_targets(): reachable() for one controller after the other, until one
\* does not take the connection.
ProbeController ==
    /\ pc = "choose"
    /\ IF host[<<"primary", turn>>] = "away" THEN StartPolling("fallback")
       ELSE IF turn = NAssets THEN StartPolling("primary")
       ELSE /\ turn' = turn + 1
            /\ UNCHANGED <<targets, pc, lines, ok>>
    /\ UNCHANGED <<host, influx, clients, refreshed>>

NextAsset ==
    IF turn = NAssets
    THEN /\ pc' = "post"
         /\ turn' = 1
    ELSE /\ turn' = turn + 1
         /\ UNCHANGED pc

\* The client poll_once() uses: the one it kept, or a new one for the target.
ClientFor(a) ==
    IF clients[a] # None /\ clients[a].connected
    THEN clients[a]
    ELSE LET there == host[<<targets, a>>] # "away"
         IN  [kind |-> targets, connected |-> there, peer |-> there]

\* A read over this client is answered with the registers.
Answers(client, a) == client.peer /\ host[<<client.kind, a>>] = "serving"

ReadAsset ==
    LET client == ClientFor(turn)
    IN  /\ pc = "poll"
        /\ Answers(client, turn)
        /\ clients' = [clients EXCEPT ![turn] = client]
        /\ lines' = lines \cup {<<turn, client.kind>>}
        /\ NextAsset
        /\ UNCHANGED <<host, influx, targets, ok, refreshed>>

\* Variants of ReadFails: the failed client is kept as it is; the failure does
\* not reach `ok`.
ReadFailsKeptClient ==
    LET client == ClientFor(turn)
    IN  /\ pc = "poll"
        /\ ~Answers(client, turn)
        /\ clients' = [clients EXCEPT ![turn] = client]
        /\ ok' = FALSE
        /\ NextAsset
        /\ UNCHANGED <<host, influx, targets, lines, refreshed>>

ReadFailsSilently ==
    /\ pc = "poll"
    /\ ~Answers(ClientFor(turn), turn)
    /\ clients' = [clients EXCEPT ![turn] = None]
    /\ NextAsset
    /\ UNCHANGED <<host, influx, targets, lines, ok, refreshed>>

\* An exception or an error response: close the client and forget it.
ReadFails ==
    /\ pc = "poll"
    /\ ~Answers(ClientFor(turn), turn)
    /\ clients' = [clients EXCEPT ![turn] = None]
    /\ ok' = FALSE
    /\ NextAsset
    /\ UNCHANGED <<host, influx, targets, lines, refreshed>>

\* write_points(), then the health file, then the sleep.  http_post() takes a
\* 400 for success.
PostBatch ==
    /\ pc = "post"
    /\ refreshed' = (ok /\ influx # "away")
    /\ pc' = "choose"
    /\ UNCHANGED <<host, influx, clients, cycleVars>>

-----------------------------------------------------------------------------
\* The environment: a host comes, goes or changes its mind; so does InfluxDB.
HostChanges ==
    /\ \E k \in Kinds, a \in Assets, h \in HostState :
          /\ host' = [host EXCEPT ![<<k, a>>] = h]
          /\ clients' = IF h = "away" /\ clients[a] # None /\ clients[a].kind = k
                        THEN [clients EXCEPT ![a].peer = FALSE]
                        ELSE clients
    /\ UNCHANGED <<influx, pc, cycleVars, refreshed>>

InfluxChanges ==
    /\ influx' \in {"ok", "rejected", "away"}
    /\ UNCHANGED <<host, clients, pc, cycleVars, refreshed>>

Cycle == EnsureSchema \/ ProbeController \/ ReadAsset \/ ReadFails \/ PostBatch

Next == Cycle \/ HostChanges \/ InfluxChanges

\* Every call the loop makes has a timeout, so it always comes to its next step.
Spec == Init /\ [][Next]_vars /\ WF_vars(Cycle)

-----------------------------------------------------------------------------
Covered == { p[1] : p \in lines }

\* The health file, which the container's health check looks at, is touched
\* only by a cycle that read every asset, each from one endpoint, whatever
\* hosts did between its steps (poller.py:77-112).
HealthMeansComplete ==
    pc \in {"start", "choose"} /\ refreshed =>
        /\ Covered = Assets
        /\ Cardinality(lines) = NAssets

Settled(e) == <>[](host[e] = "serving") \/ <>[](host[e] = "away")

\* Whatever clients a troubled time has left behind, once the stand-ins and
\* InfluxDB are there to stay and every controller is up or away for good,
\* from some cycle on every cycle touches the health file (poller.py:81-99, historian.py:55-61).
PollerRecovers ==
    /\ <>[](influx = "ok" /\ \A a \in Assets : host[<<"fallback", a>>] = "serving")
    /\ \A a \in Assets : Settled(<<"primary", a>>)
    => <>[]refreshed

\* A client whose own host serves it stays in use until its connection breaks: a collector
\* that began on the stand-ins stays there when the controllers come up, though
\* every cycle chooses its source anew (poller.py:81-85; 122-123 calls that an
\* upgrade).  Only a failed read of that client makes it change.
WorkingClientIsKept ==
    [][ \A a \in Assets :
          /\ clients[a] # None
          /\ clients[a].connected
          /\ Answers(clients[a], a)
          => /\ clients'[a] # None
             /\ clients'[a].kind = clients[a].kind ]_vars

=============================================================================
