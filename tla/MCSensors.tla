------------------------------ MODULE MCSensors ------------------------------
(***************************************************************************)
(* The live sensors, the detectors with a window and the watchdog that     *)
(* looks after their processes.  They share no state, so a behaviour of    *)
(* this run follows one of them, chosen in its initial state, while the    *)
(* others stay as they started.                                            *)
(***************************************************************************)
EXTENDS ProtocolSensors, BruteForce, LoginMonitor, Beacon, Watchdog

VARIABLE part

watchVars == vars

mcVars == <<part, sensorVars, bruteVars, loginVars, beaconVars, watchVars>>

Only(p, step, others) == part = p /\ step /\ UNCHANGED <<part, others>>

StreamPart ==
    Only("stream", SensorNext, <<bruteVars, loginVars, beaconVars, watchVars>>)

ScanPart ==
    Only("scan", BruteNext, <<sensorVars, loginVars, beaconVars, watchVars>>)

LoginPart ==
    Only("login", LoginNext, <<sensorVars, bruteVars, beaconVars, watchVars>>)

BeaconPart ==
    Only("beacon", BeaconNext, <<sensorVars, bruteVars, loginVars, watchVars>>)

WatchPart ==
    Only("watchdog", Next, <<sensorVars, bruteVars, loginVars, beaconVars>>)

MCInit ==
    /\ part \in {"stream", "scan", "login", "beacon", "watchdog"}
    /\ SensorInit /\ BruteInit /\ LoginInit /\ BeaconInit /\ Init

MCNext == StreamPart \/ ScanPart \/ LoginPart \/ BeaconPart \/ WatchPart

MCSpec ==
    /\ MCInit /\ [][MCNext]_mcVars
    /\ WF_mcVars(LoginPart /\ OpenLog)
    /\ WF_mcVars(LoginPart /\ ReadFailure)

\* TCP's first two repetitions of a SYN.
MCRetransmit == <<1, 3>>

\* Requests of a client outside the operator hosts to a server, by protocol;
\* the rest of each holds, behind the place of a header, an alarming code.
Rest(code) ==
    [mimics |-> FALSE, direction |-> "request", source |-> 3, code |-> code,
     control |-> 5]

Requests(p, codes, rest) ==
    [proto : {p}, toServer : {TRUE}, operator : {FALSE},
     direction : {"request"}, source : {3}, code : codes, control : {192},
     readable : {TRUE}, long : {FALSE}, body : {Rest(c) : c \in rest}]

Request(p, code, rest) == CHOOSE m \in Requests(p, {code}, {rest}) : TRUE

Long(m) == [m EXCEPT !.long = TRUE]
Mimicking(m) == [m EXCEPT !.body.mimics = TRUE]
Answer(m) == [m EXCEPT !.direction = "response"]
Unreadable(m) == [m EXCEPT !.readable = FALSE]

\* Every function code of the decoders' tables; long, answering, misdirected
\* and unreadable messages, middle fragments, rests that pass for a start.
Dnp3Messages ==
    LET operate == Request("dnp3", 5, 5)
    IN  Requests("dnp3", 1 .. 14 \cup 20 .. 24, {5})
            \cup { Long(m) : m \in Requests("dnp3", {1, 5}, {0, 13}) }
            \cup { Mimicking(m) : m \in Requests("dnp3", {1, 13}, {21}) }
            \cup { [Answer(operate) EXCEPT !.toServer = s] : s \in BOOLEAN }
            \cup { [operate EXCEPT !.source = s, !.operator = TRUE,
                                   !.control = 197] : s \in {1, 2, 5} }
            \cup { [operate EXCEPT !.control = c, !.code = 0] : c \in {5, 10} }

S7Messages ==
    LET stop == Request("s7comm", 41, 40)
    IN  Requests("s7comm", {0, 4, 5, 26, 27, 28, 29, 30, 31, 40, 41, 240}, {40})
            \cup { Long(m) : m \in Requests("s7comm", {4, 26}, {40}) }
            \cup { Long(Mimicking(m)) : m \in Requests("s7comm", {4, 26}, {40}) }
            \cup { Unreadable(stop), Unreadable(Long(Mimicking(stop))),
                   Answer(stop), Answer(Request("s7comm", 26, 41)) }

OpcuaMessages ==
    LET write == Request("opcua", 673, 712)
    IN  Requests("opcua", RequestServices \cup ResponseServices, {673})
            \cup { Long(m) : m \in Requests("opcua", {631, 673}, {425, 712}) }
            \cup { Unreadable(write), Unreadable(Long(write)),
                   Mimicking(write), Long(Mimicking(write)) }

ModbusMessages ==
    LET writes == Requests("modbus", {3, 6, 16}, {0, 6})
    IN  writes \cup { Mimicking(m) : m \in writes }
            \cup { [Mimicking(m) EXCEPT !.operator = TRUE] : m \in writes }

MCMessages == Dnp3Messages \cup S7Messages \cup OpcuaMessages \cup ModbusMessages

=============================================================================
