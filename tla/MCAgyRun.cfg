CONSTANTS
    MaxLines = 4
    QueueItems = 2

SPECIFICATION Spec

INVARIANTS
    OutcomeHasReason

PROPERTIES
    KeepsPromise
