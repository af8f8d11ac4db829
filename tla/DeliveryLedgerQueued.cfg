\* Two queued heartbeats that report the same drop and one that is dropped
\* later: six numbers and lost answers suffice, nothing else goes wrong.
CONSTANTS
    MaxSequence = 6
    DefaultLimits <- Two
    ContractLimits <- TwoOnly
    Environment = {"network"}
    SharedWindow = FALSE
SPECIFICATION Spec
INVARIANT UnreportedDropsAreCounted
