CONSTANTS
    Messages <- MCMessages
    MaxMessages = 2
    WINDOW_SECONDS = 3
    ERROR_THRESHOLD = 3
    MaxExceptions = 7
    LOGIN_WINDOW = 3
    LOGIN_THRESHOLD = 3
    MaxFailures = 5
    WINDOW = 20
    MIN_EVENTS = 5
    MIN_INTERVAL = 1
    MAX_CV = 35
    DEBOUNCE = 2
    Retransmit <- MCRetransmit
    None = None
    NProducers = 2
    GRACE = 5
    INTERVAL = 2
    REPEAT = 8
    Slow = 2
    Never = Never

SPECIFICATION MCSpec

INVARIANTS
    MissedIsUnseen
    AlertsAreDeserved
    OneAlertPerBurst
    SteadyBeaconFlagged
    FlaggedIsSteady
    FreshOutageIsPrompt
    NeverSilent

PROPERTIES
    AlertsAreTimely
    FailuresAreRead

CHECK_DEADLOCK FALSE
