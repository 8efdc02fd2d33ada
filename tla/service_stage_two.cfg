SPECIFICATION Spec
CONSTANTS
    CHANNEL_SLOTS = 8
    CONFIG_VARIANTS = 10
    MODULECONFIG_VARIANTS = 13
    STAGE_TWO_REPEATS = 4
    HANDSHAKE_MAX_REPLIES = 36
    QUEUE_DEPTH = 40
    WRITE_QUEUE_DEPTH = 4
    Message <- FromRadio
    NoMessage <- Empty
    ForeignCaller = FALSE
    Writes <- StageWrites
    StackOutcome <- Stored
    MaxWrites = 2
    MaxConnections = 1
INVARIANT StageTwoRepeated
