CONSTANTS
    corporate = corporate
    historian = historian
    ews = ews
    insider = insider
    bastion = bastion
    proxy = proxy
    hmi = hmi
    plc = plc
    Hosts <- MCHosts
    ZoneOf <- MCZoneOf
    Ports <- MCPorts
    EWS = ews
    Insider = insider
    Bastion = bastion
    Any = Any
    MaxTracked = 2

SPECIFICATION Spec

INVARIANTS
    ZonesIsolated
    ControlOnlyAnswers
    EventsAgreeElsewhere
    CrossZoneIsDropped
