CONSTANTS
    Sources = {s1, s2}
    Conduits = Conduits
    WINDOW = 1
    THRESHOLD = 3
    TRIGGER_COUNT = 3
    Lag = 0
    IptablesFails = TRUE
    MaxTime = 1
    MaxAlerts = 7
    MaxMishaps = 3

SYMMETRY Symmetry
SPECIFICATION PbSpec

INVARIANTS
    DropsAreEarned
    BlockedIsContained

PROPERTIES
    ImplementsQuarantine

CHECK_DEADLOCK FALSE
