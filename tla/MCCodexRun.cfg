CONSTANTS
    MaxNotes = 2
    MaxFaults = 1
    MaxInterrupts = 2
    MaxAbandoned = 1
    PendingItems = 1
    QueueItems = 1

SPECIFICATION Spec

INVARIANTS
    NotesInOrder
    OutcomeHasCause

PROPERTIES
    KeepsPromise
