\* Two keys and two devices let an identity be recreated or rebound if the
\* code allowed it; five numbers are enough for a crash after a reservation,
\* a restart and two more reservations.
CONSTANTS
    Keys = {"k1", "k2"}
    Devices = {1, 2}
    MaxSequence = 5
    PersistOutcomes = {"ok", "failed", "unsure"}
SPECIFICATION IdentitySpec
INVARIANTS
    IdentityTypeOK
    SequencesIncrease
    SignerIsOnDisk
