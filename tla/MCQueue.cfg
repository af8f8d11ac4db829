\* Four entries against limits of one to three samples and one to four units
\* of size; every file operation may fail and the process may die anywhere.
CONSTANTS
    SequenceIds = {1, 2, 3, 4}
    Bodies <- MCBodies
    DefaultLimits <- MCDefaultLimits
    ContractLimits <- MCContractLimits
    IOErrors = TRUE
SPECIFICATION Spec
INVARIANTS
    TypeOK
    NeverOverReports
    EvictionIsFIFO
PROPERTY
    AddKeepsItsEntry
