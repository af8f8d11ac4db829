\* Four numbers against a contract of two heartbeats, in a buffer opened with
\* three: one can be evicted, one stored with its answer lost, one queued and
\* one held by a snapshot or by Collect at the same time.  Every event happens.
CONSTANTS
    MaxSequence = 4
    DefaultLimits <- Three
    ContractLimits <- TwoOnly
    Environment = {"crash", "disk", "local", "network", "server", "revoke", "snapshot"}
    SharedWindow = FALSE
SPECIFICATION FairSpec
INVARIANTS
    TypeOK
    ReplayMeansCommitted
    DormantMeansSilent
    BufferIsBounded
PROPERTIES
    ImplementsChannel
    FlushDrains
