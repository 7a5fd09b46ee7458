CONSTANTS
    Sources = {s1}
    Conduits = Conduits
    WINDOW = 3
    THRESHOLD = 3
    TRIGGER_COUNT = 3
    Lag = 1
    IptablesFails = FALSE
    MaxTime = 2
    MaxAlerts = 8
    MaxMishaps = 3

SPECIFICATION PbSpec

PROPERTY PlaybookContains

CHECK_DEADLOCK FALSE
