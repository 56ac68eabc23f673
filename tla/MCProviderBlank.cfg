CONSTANTS
    Run = {run1}
    Client = {c1}
    Text = {"blank", "text"}
    Route = {}
    None = None
    MaxRequests = 3
    MaxEdits = 0
    MaxCrashes = 0

SPECIFICATION Spec

INVARIANT NoOrphanedRun
