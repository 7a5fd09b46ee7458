CONSTANTS
    LowLevel = 20
    TripLevel = 95
    FullLevel = 100
    WordSize = 65536
    WriteRequests <- MCWriteRequests
    DoseBelow = 20
    StopAt = 40
    HighChlor = 60
    DosingRequests <- MCDosingRequests
    LowPressure = 2
    MaxPressure = 10
    Word = 90
    PumpRequests <- MCPumpRequests
    ClientValues = {99}
    NAssets = 2
    None = None

SPECIFICATION MCSpec

INVARIANTS
    OpenAboveTripIsFresh
    LevelInBand
    LowAlarmIsFresh
    TornByOneStep
    HealthMeansComplete

PROPERTIES
    LevelNeverJumps
    StoppedPumpNeverPressurises
    IntakeRefills
    OverflowDrains
    CollectorRecovers
    OnlyAWriteEndsDosing
    RunsIntakeProgram
