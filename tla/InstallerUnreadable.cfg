\* Nothing goes wrong but that the new release does not stay up.
CONSTANTS
    Versions = {1, 2}
    Keys = {"k1", "k2"}
    MaxSequence = 2
    MaxInstalls = 1
    HealthChecks = 2
    StartRestarts = TRUE
    SocketMode = FALSE
    Environment = {"die"}
SPECIFICATION Spec
INVARIANT FailedMeansReadable
