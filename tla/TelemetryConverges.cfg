\* Everything happens until the model becomes calm.  One resource that comes
\* and goes, two capability maps and a buffer of one heartbeat keep the graph
\* small enough for the liveness check; three revisions are kept for the calm
\* phase, in which the family is sent in full at most once per six hours.
CONSTANTS
    Resources = {"r1"}
    Values = {"v1"}
    Capabilities = {"c1", "c2"}
    MaxQueued = 1
    MaxRevision = 5
    Environment = {"calm", "change", "local", "network", "power", "stop", "time", "write"}
SPECIFICATION FairSpec
PROPERTY Converges
