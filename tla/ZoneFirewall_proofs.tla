-------------------------- MODULE ZoneFirewall_proofs --------------------------
(***************************************************************************)
(* Zone isolation for any hosts, ports and connection table.  The          *)
(* invariant is that every connection conntrack holds was opened through a *)
(* conduit; a packet is then on a conduit or answers on one, and what the  *)
(* conduits join is read off their table.                                  *)
(***************************************************************************)
EXTENDS ZoneFirewall, TLAPS

\* Every connection the gateway carries was opened by the side a conduit names.
TrackedInv ==
    /\ tracked \subseteq Connection
    /\ \A c \in tracked : Opens(c.client, c.server, c.port)

\* A conduit leads from the zone of its source to another, and which it joins.
LEMMA ConduitZones ==
    ASSUME NEW client \in Hosts, NEW server \in Hosts, NEW port,
           Opens(client, server, port)
    PROVE  /\ ZoneOf[client] # "control"
           /\ ZoneOf[client] = "it" => ZoneOf[server] \in {"ops", "dmz"}
           /\ ZoneOf[server] # "it"
           /\ ZoneOf[client] = "dmz" => ZoneOf[server] \in {"supervisory", "ops"}
           /\ ZoneOf[client] = "ops" => client \in {EWS, Insider}
  BY HostsAssumption DEF Opens, ConduitRules, Conduit

\* Only a packet to a conduit's port adds a connection.
LEMMA ForwardInv ==
    ASSUME TrackedInv, NEW p \in Packet, Forward(p)
    PROVE  TrackedInv'
<1>1. CASE ConnectionOf(p) \in tracked
  <2>1. tracked' = tracked
    BY <1>1 DEF Forward
  <2> QED
    BY <2>1 DEF TrackedInv
<1>2. CASE ConnectionOf(p) \notin tracked
  <2>1. ToConduit(p)
    BY <1>2 DEF Forward, Accepts, Established
  <2>2. p.kind \in {"new", "more"} /\ Opens(p.src, p.dst, p.port)
    BY <2>1 DEF ToConduit
  <2>3. p.src \in Hosts /\ p.dst \in Hosts /\ p.port \in Ports
    BY DEF Packet
  <2> DEFINE new == [client |-> p.src, server |-> p.dst, port |-> p.port]
  <2>4. tracked' = tracked \cup {new}
    BY <2>2 DEF Forward, ConnectionOf
  <2>5. new \in Connection /\ Opens(new.client, new.server, new.port)
    BY <2>2, <2>3 DEF Connection
  <2> HIDE DEF new
  <2> QED
    BY <2>4, <2>5 DEF TrackedInv, Opens
<1> QED
  BY <1>1, <1>2

\* Every connection in the table has a conduit, for any hosts and packets.
THEOREM TrackedThroughConduits == Spec => []TrackedInv
<1>1. Init => TrackedInv
  BY DEF Init, TrackedInv
<1>2. TrackedInv /\ [Next]_tracked => TrackedInv'
  <2> SUFFICES ASSUME TrackedInv, [Next]_tracked PROVE TrackedInv'
    OBVIOUS
  <2>1. CASE \E p \in Packet : Forward(p)
    BY <2>1, ForwardInv
  <2>2. CASE \E c \in tracked : Forget(c)
    BY <2>2 DEF Forget, TrackedInv, Opens
  <2>3. CASE UNCHANGED tracked
    BY <2>3 DEF TrackedInv, Opens
  <2> QED
    BY <2>1, <2>2, <2>3 DEF Next
<1> QED
  BY <1>1, <1>2, PTL DEF Spec

\* A forwarded packet goes the way of a conduit or answers on one.
LEMMA AcceptedOnConduit ==
    ASSUME TrackedInv, NEW p \in Packet, Accepts(p)
    PROVE  /\ p.src \in Hosts /\ p.dst \in Hosts
           /\ \/ Opens(p.src, p.dst, p.port)
              \/ p.kind \in {"reply", "error"} /\ Opens(p.dst, p.src, p.port)
<1>1. p.src \in Hosts /\ p.dst \in Hosts /\ p.port \in Ports
      /\ p.kind \in {"new", "more", "reply", "error", "other"}
  BY DEF Packet
<1>2. CASE ToConduit(p)
  BY <1>1, <1>2 DEF ToConduit
<1>3. CASE Established(p)
  <2>1. /\ p.kind # "other"
        /\ Opens(ConnectionOf(p).client, ConnectionOf(p).server, ConnectionOf(p).port)
    BY <1>3 DEF Established, TrackedInv
  <2>2. CASE p.kind \in {"new", "more"}
    BY <1>1, <2>1, <2>2 DEF ConnectionOf
  <2>3. CASE p.kind \notin {"new", "more"}
    BY <1>1, <2>1, <2>3 DEF ConnectionOf
  <2> QED
    BY <2>2, <2>3
<1> QED
  BY <1>2, <1>3 DEF Accepts

\* Two zones, in one order or the other.
LEMMA BetweenZones ==
    ASSUME NEW p, NEW a, NEW b, Between(p, a, b)
    PROVE  \/ ZoneOf[p.src] = a /\ ZoneOf[p.dst] = b
           \/ ZoneOf[p.src] = b /\ ZoneOf[p.dst] = a
  BY DEF Between

\* Zone isolation: Enterprise and the DMZ exchange nothing with Control, nor
\* Enterprise with Supervisory, and of Operations only the EWS and the insider do.
THEOREM Isolation == Spec => []ZonesIsolated
<1>1. TrackedInv => ZonesIsolated
  <2> SUFFICES ASSUME TrackedInv, NEW p \in Packet, Accepts(p)
               PROVE  /\ ~Between(p, "it", "control")
                      /\ ~Between(p, "it", "supervisory")
                      /\ ~Between(p, "dmz", "control")
                      /\ Between(p, "ops", "control") =>
                            {p.src, p.dst} \cap {EWS, Insider} # {}
    BY DEF ZonesIsolated
  <2>1. CASE Opens(p.src, p.dst, p.port)
    <3>1. /\ ZoneOf[p.src] # "control"
          /\ ZoneOf[p.src] = "it" => ZoneOf[p.dst] \in {"ops", "dmz"}
          /\ ZoneOf[p.dst] # "it"
          /\ ZoneOf[p.src] = "dmz" => ZoneOf[p.dst] \in {"supervisory", "ops"}
          /\ ZoneOf[p.src] = "ops" => p.src \in {EWS, Insider}
      BY <2>1, AcceptedOnConduit, ConduitZones
    <3>2. ~Between(p, "it", "control")
      BY <3>1, BetweenZones
    <3>3. ~Between(p, "it", "supervisory")
      BY <3>1, BetweenZones
    <3>4. ~Between(p, "dmz", "control")
      BY <3>1, BetweenZones
    <3>5. Between(p, "ops", "control") => p.src \in {EWS, Insider}
      BY <3>1, BetweenZones
    <3> QED
      BY <3>2, <3>3, <3>4, <3>5
  <2>2. CASE Opens(p.dst, p.src, p.port)
    <3>1. /\ ZoneOf[p.dst] # "control"
          /\ ZoneOf[p.dst] = "it" => ZoneOf[p.src] \in {"ops", "dmz"}
          /\ ZoneOf[p.src] # "it"
          /\ ZoneOf[p.dst] = "dmz" => ZoneOf[p.src] \in {"supervisory", "ops"}
          /\ ZoneOf[p.dst] = "ops" => p.dst \in {EWS, Insider}
      BY <2>2, AcceptedOnConduit, ConduitZones
    <3>2. ~Between(p, "it", "control")
      BY <3>1, BetweenZones
    <3>3. ~Between(p, "it", "supervisory")
      BY <3>1, BetweenZones
    <3>4. ~Between(p, "dmz", "control")
      BY <3>1, BetweenZones
    <3>5. Between(p, "ops", "control") => p.dst \in {EWS, Insider}
      BY <3>1, BetweenZones
    <3> QED
      BY <3>2, <3>3, <3>4, <3>5
  <2> QED
    BY <2>1, <2>2, AcceptedOnConduit
<1> QED
  BY <1>1, TrackedThroughConduits, PTL

\* A Control host only answers, and only whom a conduit let ask.
THEOREM ControlAnswers == Spec => []ControlOnlyAnswers
<1>1. TrackedInv => ControlOnlyAnswers
  <2> SUFFICES ASSUME TrackedInv, NEW p \in Packet, Accepts(p), ZoneOf[p.src] = "control"
               PROVE  p.kind \in {"reply", "error"} /\ Opens(p.dst, p.src, p.port)
    BY DEF ControlOnlyAnswers
  <2>1. ~Opens(p.src, p.dst, p.port)
    BY AcceptedOnConduit, ConduitZones
  <2> QED
    BY <2>1, AcceptedOnConduit
<1> QED
  BY <1>1, TrackedThroughConduits, PTL

\* What the cross-zone monitor alerts on is never forwarded, and a connection
\* attempt among it has a DROP event (cross_zone_traffic.py:44).
THEOREM AlertedIsDropped == Spec => []CrossZoneIsDropped
<1>1. TrackedInv => CrossZoneIsDropped
  <2> SUFFICES ASSUME TrackedInv, NEW p \in Packet,
                      ZoneOf[p.src] = "it", ZoneOf[p.dst] = "control"
               PROVE  ~Accepts(p) /\ ~is_permitted(p)
    BY DEF CrossZoneIsDropped, AlertsCrossZone, Ships
  <2>1. ASSUME Accepts(p) PROVE FALSE
    BY <2>1, AcceptedOnConduit, ConduitZones
  <2>2. ~is_permitted(p)
    BY DEF is_permitted, CONDUITS
  <2> QED
    BY <2>1, <2>2
<1> QED
  BY <1>1, TrackedThroughConduits, PTL

\* The producer's table and the script's conduits name the same connections,
\* but for the restricted ones (firewall_events.py:56-67).
THEOREM TablesAgree == Spec => []EventsAgreeElsewhere
<1>1. EventsAgreeElsewhere
  <2> SUFFICES ASSUME NEW p \in Packet, p.kind = "new", ~Restricted(p)
               PROVE  is_permitted(p) <=> ToConduit(p)
    BY DEF EventsAgreeElsewhere, Ships
  <2> DEFINE at == <<ZoneOf[p.src], ZoneOf[p.dst], p.port>>
  <2>1. ToConduit(p) <=> \E c \in ConduitRules :
                            <<c.from, c.to, c.port>> = at /\ c.src \in {Any, p.src}
    BY DEF ToConduit, Opens
  <2>2. \A c \in ConduitRules : <<c.from, c.to, c.port>> = at => c.src = Any
    BY DEF Restricted
  <2>3. ToConduit(p) <=> \E c \in ConduitRules : <<c.from, c.to, c.port>> = at
    BY <2>1, <2>2
  <2>4. is_permitted(p) <=> at \in CONDUITS
    BY DEF is_permitted
  <2> HIDE DEF at
  <2>5. at \in CONDUITS => \E c \in ConduitRules : <<c.from, c.to, c.port>> = at
    BY DEF CONDUITS, ConduitRules, Conduit
  <2>6. ASSUME NEW c \in ConduitRules, <<c.from, c.to, c.port>> = at
        PROVE  at \in CONDUITS
    <3>1. c.src # Bastion \/ Bastion = Any
      BY <2>2, <2>6
    <3>2. Bastion # Any
      BY HostsAssumption
    <3> QED
      BY <2>6, <3>1, <3>2 DEF CONDUITS, ConduitRules, Conduit
  <2> QED
    BY <2>3, <2>4, <2>5, <2>6
<1> QED
  BY <1>1, PTL

=============================================================================
