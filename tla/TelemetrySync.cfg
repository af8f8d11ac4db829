\* Two resources that come and go and a buffer of two heartbeats; seven
\* revisions leave room for an evicted change, a gap and two full families.
\* The process does not stop here: a restart reuses revisions, see TelemetryConverges.cfg.
CONSTANTS
    Resources = {"r1", "r2"}
    Values = {"v"}
    Capabilities = {"c1"}
    MaxQueued = 2
    MaxRevision = 7
    Environment = {"change", "local", "network", "time", "write"}
SPECIFICATION Spec
INVARIANTS
    TypeOK
    ViewsAgree
