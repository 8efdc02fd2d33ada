SPECIFICATION Spec
CONSTANTS
    WRITE_QUEUE_DEPTH = 2
    MaxWrites = 1
CHECK_DEADLOCK FALSE
INVARIANT EndsWithDefault
