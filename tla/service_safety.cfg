SPECIFICATION Spec
CONSTANTS
    CHANNEL_SLOTS = 1
    CONFIG_VARIANTS = 0
    MODULECONFIG_VARIANTS = 0
    STAGE_TWO_REPEATS = 2
    HANDSHAKE_MAX_REPLIES = 6
    QUEUE_DEPTH = 7
    WRITE_QUEUE_DEPTH = 2
    Message <- FromRadio
    NoMessage <- Empty
    ForeignCaller = FALSE
    Writes <- AllKindsOfWrite
    StackOutcome <- Stored
    MaxWrites = 4
    MaxConnections = 2
INVARIANTS
    ServiceTypeOK
    StageOneIntact
    ConsumesWhatWasPublished
PROPERTIES
    ServiceUsesQueue
    OutboxSpec
