\* Two commands of root, one of which may stop before it writes, and another
\* account's connection.  The times are those of the code in units of 5 s.
CONSTANTS
    Clients = {"c1", "c2", "other"}
    Root = {"c1", "c2"}
    Stalling = {"c2"}
    ConnectionTime = 3
    SubmitTime = 4
    Environment = {"crash", "local", "lose", "quit", "refuse", "shutdown"}
SPECIFICATION FairSpec
INVARIANTS
    TypeOK
    ReportsAreTrue
    HeldAtMost
PROPERTIES
    InvocationsEnd
