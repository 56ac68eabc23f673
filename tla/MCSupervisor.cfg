CONSTANTS
    Loop = loop
    Window = {window}
    Proc = {p1, p2}
    MaxFaults = 1
    MaxQuits = 1
    MaxSleeps = 1
    SchemaVersion = 2
    Stale = Stale
    Denied = Denied
    None = None

SPECIFICATION FairSpec

INVARIANTS
    OneStoreOwner
    ServingIsReachable
    NoLostChild

PROPERTIES
    DaemonComesBack
