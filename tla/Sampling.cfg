\* One service and one container; the limits and sizes are those of the code.
CONSTANTS
    Services = {s1}
    Containers = {c1}
    MaxClock = 1
    MaxUse = 2
    Word = 16
    MaxQueue = 1
    Inventories <- MCInventories
SPECIFICATION FairSpec
INVARIANTS
    TypeOK
    RatesAreCovered
    CollectedIsValid
PROPERTIES
    QueueDrains
