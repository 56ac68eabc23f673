CONSTANTS
    Command = {c1, c2}
    Delivery = {vault, mem}
    VaultDelivery = {vault}
    MaxDay = 1
    MaxRevision = 3
    MaxFailures = 2
    Absent = Absent
    Partial = Partial
    NoDelivery = NoDelivery

SPECIFICATION KDSpec

SYMMETRY MCSymmetry

INVARIANTS
    DeliveredIsPublished
    PublishedOnce

PROPERTIES
    NotesAreKept

CHECK_DEADLOCK FALSE
