CONSTANTS
    Messages <- MCMessages
    MaxMessages = 1
    WINDOW_SECONDS = 3
    ERROR_THRESHOLD = 3
    MaxExceptions = 3
    LOGIN_WINDOW = 3
    LOGIN_THRESHOLD = 3
    MaxFailures = 3
    WINDOW = 8
    MIN_EVENTS = 5
    MIN_INTERVAL = 1
    MAX_CV = 35
    DEBOUNCE = 2
    Retransmit <- MCRetransmit
    None = None
    NProducers = 2
    GRACE = 5
    INTERVAL = 2
    REPEAT = 8
    Slow = 2
    Never = Never

SPECIFICATION MCSpec

INVARIANT AnomalySeesControl

CHECK_DEADLOCK FALSE
