SPECIFICATION FairSpec
CONSTANTS
    WRITE_QUEUE_DEPTH = 2
    MaxWrites = 4
\* the application ends
CHECK_DEADLOCK FALSE
INVARIANTS
    BleTypeOK
    ServiceOutlivesUsers
    SnapshotAddsUp
PROPERTY StopRestores
