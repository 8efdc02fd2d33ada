SPECIFICATION Spec
CONSTANTS
    MESSAGE_RING_CAPACITY = 2
    NODE_ROSTER_CAPACITY = 2
    Frame <- SmallFrames
    TICK_RANGE = 16
    InitialTicks <- UpSinceBoot
    MaxFrames = 4
INVARIANT DrawIsAtWorstStale
