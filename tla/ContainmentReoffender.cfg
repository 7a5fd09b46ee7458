CONSTANTS
    Sources = {s1}
    Conduits = Conduits
    WINDOW = 3
    THRESHOLD = 3
    Lag = 1
    IptablesFails = FALSE
    MaxTime = 6
    MaxAlerts = 8
    MaxMishaps = 3

SPECIFICATION Spec

INVARIANT OffenderContained

CHECK_DEADLOCK FALSE
