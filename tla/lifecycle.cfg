SPECIFICATION FairSpec
CONSTANTS
    MaxFrames = 2
    INPUT_QUEUE = 2
    MaxInputs = 3
\* the application ends, or stops with the GUI waiting
CHECK_DEADLOCK FALSE
INVARIANTS
    LifecycleTypeOK
    NobodyUsesFreed
    TakenWereReceived
    TakenOnce
    BusReleased
PROPERTY ExitEnds
