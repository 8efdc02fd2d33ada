SPECIFICATION MCSpec
CONSTANTS
    QUEUE_DEPTH = 3
    Message = {m1, m2}
    NoMessage = NoMessage
    ForeignCaller = TRUE
INVARIANTS
    TypeOK
    RingCoherent
    NeverStranded
    PublishedNotReplaced
    BellCoversBatch
    OneDoorbellPerBatch
