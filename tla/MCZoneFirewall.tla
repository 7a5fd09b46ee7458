---------------------------- MODULE MCZoneFirewall ----------------------------
(* One host per role, on both sides of every conduit and of every          *)
(* restriction, and every port a conduit names.                            *)
EXTENDS ZoneFirewall

CONSTANTS corporate, historian, ews, insider, bastion, proxy, hmi, plc

MCHosts == {corporate, historian, ews, insider, bastion, proxy, hmi, plc}

MCZoneOf ==
    [h \in MCHosts |->
        CASE h = corporate -> "it"
          [] h \in {bastion, proxy} -> "dmz"
          [] h \in {historian, ews, insider} -> "ops"
          [] h = hmi -> "supervisory"
          [] h = plc -> "control"]

MCPorts == {22, 80, 102, 502, 4840, 8080, 8086, 8443, 20000}

=============================================================================
