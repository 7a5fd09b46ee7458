----------------------------- MODULE ZoneFirewall -----------------------------
(***************************************************************************)
(* The zone gateway: which packets firewall-rules.sh lets it forward, with *)
(* connection tracking, and what firewall_events.py, sniffing the gateway's *)
(* interfaces, takes for a drop and ships as a DROP event.                 *)
(*                                                                         *)
(* What conntrack keeps of a connection is its client, server and server   *)
(* port; it is the only state.  What becomes of a packet is a function of  *)
(* the packet and of that state, so a property of forwarding says of every *)
(* packet what would become of it now.  netfilter is external.             *)
(***************************************************************************)
EXTENDS Naturals, FiniteSets

CONSTANTS
    Hosts,    \* hosts of the five zones, the gateway's own addresses not among them
    ZoneOf,   \* the zone of every host
    Ports,    \* TCP server ports
    EWS, Insider, Bastion,  \* 172.23.0.4, 172.23.0.20, 172.25.0.11
    Any,      \* no -s restriction
    MaxTracked  \* nf_conntrack_max: a full table drops what would be a new entry

Zones == {"it", "dmz", "ops", "supervisory", "control"}

ASSUME HostsAssumption ==
    /\ ZoneOf \in [Hosts -> Zones]
    /\ Any \notin Hosts
    /\ EWS \in Hosts /\ ZoneOf[EWS] = "ops"
    /\ Insider \in Hosts /\ ZoneOf[Insider] = "ops"
    /\ Bastion \in Hosts /\ ZoneOf[Bastion] = "dmz"
    /\ Ports \subseteq Nat
    /\ MaxTracked \in Nat

VARIABLE tracked  \* the connections conntrack knows

\* new: a SYN to `port`; more: a later segment of the client to `port`; reply: a
\* segment of the server from `port`, SYN+ACK included; error: an ICMP error of
\* the server's side about `port`; other: ICMP echo, UDP, any other protocol.
Packet ==
    { p \in [kind : {"new", "more", "reply", "error", "other"},
             src : Hosts, dst : Hosts, port : Ports] :
        ZoneOf[p.src] # ZoneOf[p.dst] }

Connection == [client : Hosts, server : Hosts, port : Ports]

TypeOK ==
    /\ tracked \subseteq Connection
    /\ Cardinality(tracked) <= MaxTracked
    /\ \A c \in tracked : ZoneOf[c.client] # ZoneOf[c.server]

-----------------------------------------------------------------------------
Conduit(from, to, src, port) ==
    [from |-> from, to |-> to, src |-> src, port |-> port]

\* Variant: C5 to C8 without their -s restriction.
ConduitRulesUnrestricted ==
    { Conduit("supervisory", "control", Any, 502),
      Conduit("supervisory", "ops", Any, 8086),
      Conduit("it", "ops", Any, 8086),
      Conduit("ops", "control", Any, 8443),
      Conduit("ops", "control", Any, 20000),
      Conduit("ops", "control", Any, 4840),
      Conduit("ops", "control", Any, 102),
      Conduit("it", "dmz", Any, 80),
      Conduit("it", "dmz", Any, 22),
      Conduit("dmz", "supervisory", Any, 8080),
      Conduit("dmz", "ops", Bastion, 22) }

\* firewall-rules.sh, C1 to C11.
ConduitRules ==
    { Conduit("supervisory", "control", Any, 502),
      Conduit("supervisory", "ops", Any, 8086),
      Conduit("it", "ops", Any, 8086),
      Conduit("ops", "control", EWS, 8443),
      Conduit("ops", "control", Insider, 20000),
      Conduit("ops", "control", Insider, 4840),
      Conduit("ops", "control", Insider, 102),
      Conduit("it", "dmz", Any, 80),
      Conduit("it", "dmz", Any, 22),
      Conduit("dmz", "supervisory", Any, 8080),
      Conduit("dmz", "ops", Bastion, 22) }

Opens(client, server, port) ==
    \E c \in ConduitRules :
        /\ c.from = ZoneOf[client] /\ c.to = ZoneOf[server] /\ c.port = port
        /\ c.src \in {Any, client}

\* The connection a packet belongs to.
ConnectionOf(p) ==
    IF p.kind \in {"new", "more"}
    THEN [client |-> p.src, server |-> p.dst, port |-> p.port]
    ELSE [client |-> p.dst, server |-> p.src, port |-> p.port]

Established(p) == p.kind # "other" /\ ConnectionOf(p) \in tracked

ToConduit(p) == p.kind \in {"new", "more"} /\ Opens(p.src, p.dst, p.port)

\* Variant: replies pass whether or not anybody asked.
AcceptsStateless(p) == p.kind = "reply" \/ Established(p) \/ ToConduit(p)

\* The FORWARD chain: ESTABLISHED,RELATED, the conduits, the DROP policy; and a
\* full connection table.
Accepts(p) ==
    \/ Established(p)
    \/ ToConduit(p) /\ Cardinality(tracked) < MaxTracked

\* CONDUITS of firewall_events.py, all TCP.
CONDUITS ==
    { <<"supervisory", "control", 502>>,
      <<"supervisory", "ops", 8086>>, <<"it", "ops", 8086>>,
      <<"ops", "control", 8443>>, <<"ops", "control", 20000>>,
      <<"ops", "control", 4840>>, <<"ops", "control", 102>>,
      <<"it", "dmz", 80>>, <<"it", "dmz", 22>>, <<"dmz", "supervisory", 8080>> }

is_permitted(p) ==
    p.kind = "new" /\ <<ZoneOf[p.src], ZoneOf[p.dst], p.port>> \in CONDUITS

\* Variant: any TCP segment is looked at, not only SYNs.
ShipsAnySegment(p) == ~is_permitted(p)

\* handle(): a cross-zone packet that is not a later TCP segment, and that the
\* table does not permit.
Ships(p) == p.kind \notin {"more", "reply"} /\ ~is_permitted(p)

\* Variant: the destination is not looked at.
AlertsCrossZoneAnywhere(p) == ZoneOf[p.src] = "it"

\* cross_zone_traffic.py alerts on any packet from IT_ZONE to CONTROL_ZONE.
AlertsCrossZone(p) == ZoneOf[p.src] = "it" /\ ZoneOf[p.dst] = "control"

-----------------------------------------------------------------------------
Init == tracked = {}

\* The gateway forwards p; conntrack picks a connection up at any segment.
Forward(p) ==
    /\ Accepts(p)
    /\ tracked' = tracked \cup {ConnectionOf(p)}

\* conntrack forgets a connection: it has closed or timed out.
Forget(c) == tracked' = tracked \ {c}

Next ==
    \/ \E p \in Packet : Forward(p)
    \/ \E c \in tracked : Forget(c)

Spec == Init /\ [][Next]_tracked

-----------------------------------------------------------------------------
Between(p, a, b) == {ZoneOf[p.src], ZoneOf[p.dst]} = {a, b}

\* Zone isolation, in both directions and over every order of packets: nothing
\* passes between Enterprise and Control or Supervisory, nor between the DMZ and
\* Control; between Operations and Control it is the EWS's or the insider's
\* traffic only, so the historian has no path to a controller
\* (firewall-rules.sh:40-42, 55-95).
ZonesIsolated ==
    \A p \in Packet : Accepts(p) =>
        /\ ~Between(p, "it", "control")
        /\ ~Between(p, "it", "supervisory")
        /\ ~Between(p, "dmz", "control")
        /\ Between(p, "ops", "control") => {p.src, p.dst} \cap {EWS, Insider} # {}

\* A host of the Control zone says nothing across the gateway that nobody asked
\* it: what is forwarded from it goes to the client of a connection that a
\* conduit allowed, even of one picked up in the middle after conntrack had
\* forgotten it (firewall-rules.sh:48, 57-81).
ControlOnlyAnswers ==
    \A p \in Packet :
        Accepts(p) /\ ZoneOf[p.src] = "control" =>
            /\ p.kind \in {"reply", "error"}
            /\ Opens(p.dst, p.src, p.port)

Restricted(p) ==
    \E c \in ConduitRules :
        /\ c.src # Any
        /\ <<c.from, c.to, c.port>> = <<ZoneOf[p.src], ZoneOf[p.dst], p.port>>

\* Apart from the conduits restricted to a source, the producer says DROP of a
\* connection attempt just when the rules drop it, and it says nothing of any
\* TCP segment that comes later (firewall_events.py:56-67, 169-183,
\* firewall-rules.sh:57-90).
EventsAgreeElsewhere ==
    \A p \in Packet :
        /\ p.kind = "new" /\ ~Restricted(p) => Ships(p) = ~ToConduit(p)
        /\ p.kind \in {"more", "reply"} /\ Accepts(p) => ~Ships(p)

\* The cross-zone monitor and the event producer see the same frames from the
\* outside of the gateway: what the monitor alerts on is never forwarded, and
\* if it is a connection attempt there is a DROP event to go with the alert
\* (cross_zone_traffic.py:44, firewall_events.py:169-183).
CrossZoneIsDropped ==
    \A p \in Packet :
        AlertsCrossZone(p) =>
            ~Accepts(p) /\ (p.kind \notin {"more", "reply"} => Ships(p))

=============================================================================
