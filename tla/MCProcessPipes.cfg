CONSTANTS
    Loads <- MCLoads
    MaxFrames = 2
    MaxFrameSize = 2
    MaxLineBytes = 1
    QueueItems = 1
    QueueBytes = 1

SPECIFICATION Spec

INVARIANTS
    BytesAccounted
    WireIsFramed
    LinesInOrder
    CleanupIsTrue

PROPERTIES
    OverflowIsSticky
    CallsReturn
