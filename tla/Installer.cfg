\* systemd with direct socket access: any command, signal or file may fail.
CONSTANTS
    Versions = {1, 2}
    Keys = {"k1", "k2"}
    MaxSequence = 2
    MaxInstalls = 1
    HealthChecks = 2
    StartRestarts = TRUE
    SocketMode = TRUE
    Environment = {"again", "command", "die", "file", "interrupt", "torn"}
SPECIFICATION Spec
INVARIANTS
    TypeOK
    FailedMeansRestored
    AccessIsKept
PROPERTIES
    InstalledIsRunning
    CounterFallsInRollback
