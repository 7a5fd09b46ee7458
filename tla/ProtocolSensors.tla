--------------------------- MODULE ProtocolSensors ---------------------------
(***************************************************************************)
(* The live protocol producers of detection/rules: the DNP3, S7comm and    *)
(* OPC UA decoders of otdpi with the alerts raised from them, and the two  *)
(* rules that read octets themselves, dnp3_anomaly and modbus_anomaly.     *)
(*                                                                         *)
(* A client sends messages on one connection; TCP cuts them into pieces    *)
(* and packs pieces into segments as it likes.  Every producer looks at a  *)
(* segment on its own and only at what starts it.                          *)
(***************************************************************************)
EXTENDS Integers, Sequences, FiniteSets

CONSTANTS
    Messages,      \* what a client may send, see MCSensors
    MaxMessages    \* bound: messages on the connection

(***************************************************************************)
(* Function codes by position: names of the decoders' tables.              *)
(***************************************************************************)
Dnp3Names == << "Read", "Write", "Select", "Operate", "Direct Operate",
    "Direct Operate No Ack", "Immediate Freeze", "Immediate Freeze No Ack",
    "Freeze Clear", "Freeze Clear No Ack", "Freeze At Time",
    "Freeze At Time No Ack", "Cold Restart", "Warm Restart" >>

Dnp3Function(c) ==
    IF c \in DOMAIN Dnp3Names THEN Dnp3Names[c]
    ELSE CASE c = 20 -> "Enable Unsolicited"  [] c = 21 -> "Disable Unsolicited"
           [] c = 22 -> "Assign Class"        [] c = 23 -> "Delay Measure"
           [] c = 24 -> "Record Current Time" [] OTHER -> "Unknown"

S7Function(c) ==
    CASE c = 0 -> "CPU Services"          [] c = 4 -> "Read Var"
      [] c = 5 -> "Write Var"             [] c = 26 -> "Request Download"
      [] c = 27 -> "Download Block"       [] c = 28 -> "Download Ended"
      [] c = 29 -> "Start Upload"         [] c = 30 -> "Upload"
      [] c = 31 -> "End Upload"           [] c = 40 -> "PLC Control"
      [] c = 41 -> "PLC Stop"             [] c = 240 -> "Setup Communication"
      [] OTHER -> "Unknown"

RequestServices ==
    {422, 446, 452, 461, 473, 487, 527, 533, 554, 631, 673, 712}

ResponseServices == {425, 449, 455, 464, 476, 530, 536, 634, 676, 715}

OpcuaService(id) ==
    CASE id = 527 -> "BrowseRequest" [] id = 533 -> "BrowseNextRequest"
      [] id = 673 -> "WriteRequest"  [] id = 712 -> "CallRequest"
      [] OTHER -> "another"

(***************************************************************************)
(* The alerts raised for what a decoder made of a segment, a record with a *)
(* message's fields (below).                                               *)
(***************************************************************************)
AUTHORIZED_MASTERS == {1, 2}
CONTROL_FUNCTIONS == {3, 4, 5, 6}
RESTART_FUNCTIONS == {13, 14}

Dnp3Alerts(e) ==
    IF e.direction # "request" THEN {}
    ELSE UNION {
        IF e.code \in CONTROL_FUNCTIONS /\ e.source \notin AUTHORIZED_MASTERS
        THEN {"DNP3_UNAUTHORIZED_CONTROL"} ELSE {},
        IF e.code \in RESTART_FUNCTIONS THEN {"DNP3_RESTART_COMMAND"} ELSE {},
        IF e.code = 21 THEN {"DNP3_UNSOLICITED_DISABLED"} ELSE {} }

S7Alerts(e) ==
    IF e.direction # "request" THEN {}
    ELSE IF e.code \in {26, 27, 28} THEN {"S7COMM_PROGRAM_DOWNLOAD"}
    ELSE IF e.code \in {29, 30, 31} THEN {"S7COMM_PROGRAM_UPLOAD"}
    ELSE IF e.code \in {40, 41} THEN {"S7COMM_CHANGE_OPERATING_MODE"}
    ELSE {}

OpcuaAlerts(e) ==
    IF e.code \notin RequestServices THEN {}
    ELSE IF OpcuaService(e.code) \in {"BrowseRequest", "BrowseNextRequest"}
    THEN {"OPCUA_BROWSE_REQUEST"}
    ELSE IF OpcuaService(e.code) = "WriteRequest" THEN {"OPCUA_WRITE_REQUEST"}
    ELSE IF OpcuaService(e.code) = "CallRequest" THEN {"OPCUA_METHOD_CALL"}
    ELSE {}

\* dnp3_anomaly takes payload[11], by otdpi/dnp3.py the application control,
\* for the function code, and judges the sender by its address.
DNP3_WRITE_FC == {3, 4, 5, 6, 7, 8, 9, 23}

AnomalyAlerts(e) ==
    IF ~e.operator /\ e.control \in DNP3_WRITE_FC
    THEN {"DNP3_WRITE_UNAUTHORIZED"} ELSE {}

ModbusAlerts(e) ==
    IF e.code \in {6, 16} /\ ~e.operator THEN {"UNAUTHORIZED_MODBUS_WRITE"} ELSE {}

-----------------------------------------------------------------------------
(***************************************************************************)
(* Messages and pieces.  A message is a record with its protocol, whether  *)
(* it goes to the server's port, whether its sender is the HMI or the EWS, *)
(* its direction flag, link source, function code or service id ("code"),  *)
(* the octet before it ("control"), and whether the code is readable on    *)
(* the wire (plaintext, a data message of the classic protocol).  "body"   *)
(* is what a decoder reads if the rest of the message starts a segment,    *)
(* "mimics" whether that rest passes for the start of a message: it begins *)
(* with the octets the decoder tests, for Modbus it has eight octets.      *)
(*                                                                         *)
(* A long message goes in two frames: DNP3 link frames, S7comm COTP data   *)
(* units, OPC UA chunks.  A piece starts a message and reaches its code    *)
(* ("open"), starts it and ends before ("stub"), is the rest of it         *)
(* ("tail"), or is its second frame ("frame").                             *)
(***************************************************************************)
Octets ==
    [mimics : BOOLEAN, direction : {"request", "response"}, source : Nat,
     code : Nat, control : Nat]

Message ==
    [proto : {"dnp3", "s7comm", "opcua", "modbus"}, toServer : BOOLEAN,
     operator : BOOLEAN, direction : {"request", "response"}, source : Nat,
     code : Nat, control : Nat, readable : BOOLEAN, long : BOOLEAN, body : Octets]

\* An OPC UA message's direction is told by its service alone.
ASSUME MessagesAssumption ==
    \A m \in Messages :
        /\ m \in Message
        /\ m.proto = "opcua" => m.direction = "request" /\ m.body.direction = "request"

Cuts(m) ==
    {<<"open">>, <<"open", "tail">>, <<"stub", "tail">>}
        \cup IF m.long THEN {<<"open", "frame">>, <<"stub", "tail", "frame">>} ELSE {}

\* The second frame of DNP3 and of OPC UA repeats the header a decoder tests;
\* S7comm's header is in the first data unit only.
RepeatsHeader(m, part) == part = "frame" /\ m.proto \in {"dnp3", "opcua"}

\* Variant: the first octets are not checked.
RecognisedAnything(m, part) == part # "stub"

\* What starts like a message, 05 64, 03 00 .. 32 or a known message type, and
\* is long enough for the code.  Neither the FIR bit of DNP3's transport octet
\* nor OPC UA's chunk type is looked at.
Recognised(m, part) ==
    /\ part # "stub"
    /\ IF part = "open" \/ RepeatsHeader(m, part) THEN m.readable ELSE m.body.mimics

\* The fields read from such a piece, as those of a message: the code and the
\* octet before it always stand behind the header.
Taken(m, part) ==
    IF part = "open" THEN m
    ELSE IF RepeatsHeader(m, part)
    THEN [m EXCEPT !.code = m.body.code, !.control = m.body.control]
    ELSE [m EXCEPT !.code = m.body.code, !.control = m.body.control,
                   !.direction = m.body.direction, !.source = m.body.source,
                   !.readable = TRUE]

AlertsOf(e) ==
    IF e.proto = "modbus" THEN ModbusAlerts(e)
    ELSE IF e.proto = "s7comm" THEN S7Alerts(e)
    ELSE IF e.proto = "opcua" THEN OpcuaAlerts(e)
    ELSE Dnp3Alerts(e) \cup AnomalyAlerts(e)

\* What the producers of m's protocol raise for a segment that starts with
\* this piece; all of them look only at segments to the server's port.
Raised(m, part) ==
    IF m.toServer /\ Recognised(m, part) THEN AlertsOf(Taken(m, part)) ELSE {}

-----------------------------------------------------------------------------
VARIABLES
    sent,      \* the messages sent so far, each with its cut
    wire,      \* the pieces not yet in a segment: <<message number, part>>
    alerts,    \* alerts raised: <<message number, part, alert type>>
    unseen     \* messages whose code never started a segment's view (history)

sensorVars == <<sent, wire, alerts, unseen>>

SensorInit == sent = <<>> /\ wire = <<>> /\ alerts = {} /\ unseen = {}

\* The client sends a message of the connection's protocol, cut somehow.
SendMessage(m, cut) ==
    /\ Len(sent) < MaxMessages
    /\ \A i \in DOMAIN sent : sent[i].proto = m.proto
    /\ cut \in Cuts(m)
    /\ sent' = Append(sent, m)
    /\ wire' = wire \o [i \in DOMAIN cut |-> <<Len(sent) + 1, cut[i]>>]
    /\ UNCHANGED <<alerts, unseen>>

\* Variant: the end of a segment is looked at.
ViewedLast(segment) == segment[Len(segment)]

\* The part of a segment a producer reads its fields from.
Viewed(segment) == segment[1]

\* The next k pieces travel in one segment and every producer captures it; a
\* stub is a start the segment's end cut off.
Sniff(k) ==
    LET segment == SubSeq(wire, 1, k)
        n == Viewed(segment)[1]
        part == Viewed(segment)[2]
    IN  /\ k <= Len(wire)
        /\ \A i \in 1 .. k - 1 : wire[i][2] # "stub"
        /\ alerts' = alerts \cup ({n} \X {part} \X Raised(sent[n], part))
        /\ unseen' = unseen \cup
               { segment[i][1] : i \in { j \in 1 .. k :
                     segment[j][2] = "stub" \/ (j > 1 /\ segment[j][2] = "open") } }
        /\ wire' = SubSeq(wire, k + 1, Len(wire))
        /\ UNCHANGED sent

SensorNext ==
    \/ \E m \in Messages : \E cut \in Cuts(m) : SendMessage(m, cut)
    \/ \E k \in 1 .. Len(wire) : Sniff(k)

SensorSpec == SensorInit /\ [][SensorNext]_sensorVars

-----------------------------------------------------------------------------
(***************************************************************************)
(* What a message deserves, by the names of its function and the rules'    *)
(* descriptions, not by how it is decoded.                                 *)
(***************************************************************************)
Dnp3Deserved(m) ==
    IF Dnp3Function(m.code) \in
           {"Select", "Operate", "Direct Operate", "Direct Operate No Ack"}
    THEN IF m.source \in {1, 2} THEN {} ELSE {"DNP3_UNAUTHORIZED_CONTROL"}
    ELSE IF Dnp3Function(m.code) \in {"Cold Restart", "Warm Restart"}
    THEN {"DNP3_RESTART_COMMAND"}
    ELSE IF Dnp3Function(m.code) = "Disable Unsolicited"
    THEN {"DNP3_UNSOLICITED_DISABLED"}
    ELSE {}

S7Deserved(m) ==
    IF S7Function(m.code) \in {"Request Download", "Download Block", "Download Ended"}
    THEN {"S7COMM_PROGRAM_DOWNLOAD"}
    ELSE IF S7Function(m.code) \in {"Start Upload", "Upload", "End Upload"}
    THEN {"S7COMM_PROGRAM_UPLOAD"}
    ELSE IF S7Function(m.code) \in {"PLC Control", "PLC Stop"}
    THEN {"S7COMM_CHANGE_OPERATING_MODE"}
    ELSE {}

OpcuaDeserved(m) ==
    IF m.code \in {527, 533} THEN {"OPCUA_BROWSE_REQUEST"}
    ELSE IF m.code = 673 THEN {"OPCUA_WRITE_REQUEST"}
    ELSE IF m.code = 712 THEN {"OPCUA_METHOD_CALL"}
    ELSE {}

Deserved(m) ==
    IF ~m.toServer \/ ~m.readable THEN {}
    ELSE IF m.proto = "modbus"
    THEN IF m.code \in {6, 16} /\ ~m.operator
         THEN {"UNAUTHORIZED_MODBUS_WRITE"} ELSE {}
    ELSE IF m.direction # "request" THEN {}
    ELSE IF m.proto = "dnp3" THEN Dnp3Deserved(m)
    ELSE IF m.proto = "s7comm" THEN S7Deserved(m)
    ELSE OpcuaDeserved(m)

\* The start of message i has not been in a segment yet.
Waits(i) ==
    \E j \in DOMAIN wire : wire[j] = <<i, "open">> \/ wire[j] = <<i, "stub">>

Reported(i) == {i} \X {"open"} \X Deserved(sent[i]) \subseteq alerts

\* A message whose code started a segment is never missed, whatever came
\* before and after it and however the segments were packed: the producers
\* keep no state a segment could upset (the process_packet functions).
MissedIsUnseen ==
    \A i \in DOMAIN sent : i \in unseen \/ Waits(i) \/ Reported(i)

\* The function-code detections of "every application message" are written to
\* alerts.json (dnp3_dpi.py:4-5), "one normalized event per application
\* message" (otdpi/dnp3.py:5).
EveryMessageIsReported ==
    \A i \in DOMAIN sent : sent[i].proto = "dnp3" => Waits(i) \/ Reported(i)

Earned(m, part, type) ==
    LET octets == IF part = "open" THEN m ELSE Taken(m, part)
    IN  /\ \/ part = "open"
           \/ part = "frame" /\ m.proto \in {"dnp3", "opcua"}
           \/ m.body.mimics
        /\ IF type = "DNP3_WRITE_UNAUTHORIZED"
           THEN m.proto = "dnp3" /\ ~m.operator /\ octets.control < 64
           ELSE type \in Deserved(octets)

\* Every alert is earned by the octets it was read from, whatever pieces start
\* a segment.  These octets are the start of a message, or a second frame that
\* repeats the header (the FIR bit, otdpi/dnp3.py:57, and the chunk type,
\* otdpi/opcua.py:78, are not looked at), or a rest that passes for a start.
\* dnp3_anomaly's alert, which reads the control octet, is never raised for
\* the first or last fragment of a DNP3 message (bits 128 and 64).
AlertsAreDeserved == \A a \in alerts : Earned(sent[a[1]], a[2], a[3])

\* dnp3_anomaly raises its alert for "Unauthorized DNP3 write/operate command
\* detected from an untrusted source" (dnp3_anomaly.py:64) when such a
\* command starts a segment to the outstation.
AnomalySeesControl ==
    \A i \in DOMAIN sent :
        sent[i].proto = "dnp3" /\ sent[i].toServer /\ ~sent[i].operator
                /\ sent[i].direction = "request"
                /\ Dnp3Function(sent[i].code) \in {"Operate", "Direct Operate"}
            => i \in unseen \/ Waits(i)
               \/ <<i, "open", "DNP3_WRITE_UNAUTHORIZED">> \in alerts

=============================================================================
