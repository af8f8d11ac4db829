\* Two updaters under systemd, one of which may be told a release.  The
\* installed release is the second or the fifth; the service of the first does
\* not stay up; the fourth has a malformed name; the fifth is misread.  The
\* greatest int is 99.  Updaters are killed and cancelled; commands, downloads
\* and writes fail; reloads do not fail silently.
CONSTANTS
    Identifiers = {"-2", "0", "1", "2", "10", "100", "rc"}
    Digits = {"0", "1", "2", "10", "100"}
    Value <- MCValue
    MaxInt = 99
    Numeric = {"-2", "0", "1", "2", "10"}
    Padded = {}
    Number <- MCNumber
    Rank <- MCRank
    Updaters = {"u1", "u2"}
    Requesters = {"u2"}
    Versions = {1, 2, 3, 4, 5}
    Name <- MCName
    Installed = {2, 5}
    Broken = {1}
    HealthChecks = 2
    StartRestarts = TRUE
    NeedsReload = TRUE
    Environment = {"cancel", "command", "fetch", "file", "kill", "sync"}
SPECIFICATION FairSpec
INVARIANTS
    TypeOK
    OneTransaction
PROPERTIES
    RolledBackIsPrior
    UpdatedIsTarget
    NeverDowngrades
    LockIsReleased
