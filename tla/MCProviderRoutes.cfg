CONSTANTS
    Run = {run1}
    Client = {c1, c2}
    Text = {"none", "blank", "text"}
    Route = {"finish", "complete"}
    None = None
    MaxRequests = 3
    MaxEdits = 1
    MaxCrashes = 1

SYMMETRY Symmetry
SPECIFICATION Spec

PROPERTY TerminalIsFinal
CHECK_DEADLOCK FALSE
