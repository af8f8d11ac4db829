\* Two releases and contracts, two policies, a runtime that is upgraded once,
\* and every failure; the clock runs over one service interval and a tick.
CONSTANTS
    Releases = {1, 2}
    Contracts = {1, 2}
    Policies = {1, 2}
    Fits <- MCFits
    Faults = {"collect", "file", "offline", "refused", "request"}
    ContractInterval <- MCContractInterval
    PolicyInterval <- MCPolicyInterval
    StorageInterval = 2
    WithContainers = {2}
    APIVersions = {1, 2}
    MaxReadings = 2
    MaxTime = 3
SPECIFICATION Spec
INVARIANTS
    TypeOK
    DecisionsAreKept
    ReadingsReportedOnce
    ListsAreCurrent
    MismatchMeansChanged
