CONSTANTS
    N = 2
    Versions = {"v1"}
    MaxFaults = 1
    Points <- MCPoints
    MaxTries = 1
    AdminIsFirst = FALSE
    MaxMishaps = 2
    Programs = {"intake", "treatment"}
    Logic = {"good", "bad"}

SPECIFICATION MCSpec

INVARIANTS
    RunningIsUploaded
    CompletionVouches
    GreenMeansGolden

PROPERTIES
    ImplementsRollout
    DeployEnds
    LockoutInterrupts
    ProvisionEnds

CHECK_DEADLOCK FALSE
