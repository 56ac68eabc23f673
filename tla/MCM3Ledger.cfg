CONSTANTS
    Client = {c1, c2}
    Baseline = {b1}
    Execution = {e1, e2, e3}
    Document = {d1}
    Delivery = {k1}
    CarefulClients = TRUE
    MaxRevision = 9
    MaxCosts = 1
    None = None

SPECIFICATION Spec

SYMMETRY MCSymmetry

INVARIANTS
    LedgerValid
    EveryOutputIsPriced
    RestartedOnce

PROPERTIES
    NothingIsLost

CHECK_DEADLOCK FALSE
