CONSTANTS
    Run = {run1}
    Client = {c1, c2}
    Text = {"none", "text"}
    Route = {}
    None = None
    MaxRequests = 2
    MaxEdits = 2
    MaxCrashes = 1

SPECIFICATION FairSpec

INVARIANTS
    NoOrphanedRun
    StoppingMeansDrained

PROPERTIES
    ImplementsLifecycle
    RequestsReturn
    DaemonDrains
CHECK_DEADLOCK FALSE
