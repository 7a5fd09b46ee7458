CONSTANTS
    Sources = {s1, s2}
    Conduits = Conduits
    WINDOW = 3
    THRESHOLD = 3
    Lag = 1
    IptablesFails = TRUE
    MaxTime = 6
    MaxAlerts = 6
    MaxMishaps = 2

SYMMETRY Symmetry
SPECIFICATION Spec

INVARIANTS
    NoInnocentBlocked
    OffenderBlocked

CHECK_DEADLOCK FALSE
