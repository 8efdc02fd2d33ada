SPECIFICATION Spec
CONSTANTS
    QUEUE_DEPTH = 3
    Message = {m1}
    NoMessage = NoMessage
    ForeignCaller = FALSE
    DRAIN_INTERVAL = 3
    TICK_RANGE = 16
INVARIANTS
    PacingTypeOK
    DrainKeepsPace
PROPERTY UndisturbedReadingWindow
