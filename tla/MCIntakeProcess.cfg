CONSTANTS
    LowLevel = 2
    TripLevel = 6
    FullLevel = 8
    WordSize = 16
    LevelThreshold = 5
    MaxAge = 3
    ReadCounts = {5, 7}
    Clients = {c1, c2}
    None = None
    WriteRequests <- MCWriteRequests

SYMMETRY Symmetry
SPECIFICATION Spec

INVARIANTS
    ShadowTracksLevel
    UnsafeCommandsAlerted
    AlertsJustified
