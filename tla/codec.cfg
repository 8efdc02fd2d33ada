SPECIFICATION Spec
CONSTANTS
    CHANNEL_SLOTS = 8
    CONFIG_VARIANTS = 10
    MODULECONFIG_VARIANTS = 13
    STAGE_TWO_REPEATS = 4
    HANDSHAKE_MAX_REPLIES = 36
    HANDSHAKE_MAX_MESSAGE = 192
    NodeNums = {0, 2147483647}
    MaxTyped = 42
    VARINT_BITS = 16
    WORD_BITS = 8
    MESH_USER_ID_MAX = 3
    MESH_USER_LONG_NAME_MAX = 3
    MESH_USER_SHORT_NAME_MAX = 2
    ChannelName <- LongFast
    WrapIn <- MCWrapIn
    Offered <- MCOffered
    MaxFields <- MCMaxFields
    TxParams <- MCTxParams
\* a message is at some point complete
CHECK_DEADLOCK FALSE
INVARIANTS
    ConfigStaysValid
    RepliesFit
    TunedAsTold
    DecodedAsSent
    CutsAreTold
    AdminDecodedAsSent
    UserNamesSafe
    TextRoundTrip
