CONSTANTS
    p1 = p1
    p2 = p2
    a1 = a1
    a2 = a2
    c1 = c1
    c2 = c2
    m1 = m1
    g1 = g1
    g2 = g2
    j1 = j1
    w1 = w1
    w2 = w2
    ProviderId = {p1, p2}
    AccountId = {a1, a2}
    RefId = {c1, c2}
    ModelId = {m1}
    AgentId = {g1, g2}
    ProjectId = {j1}
    RoleId = {w1, w2}
    RunId = {run1, run2}
    RequestId = {q1}
    Text = {"", "x", "y"}
    Blank = ""
    Ceiling <- MCCeiling
    NodeRole = w1
    NodeProject = j1
    SeedCatalog <- MCSeedCatalog
    SeedM3 <- MCSeedM3
    None = None
    MaxEdits = 2

SYMMETRY Symmetry
SPECIFICATION Spec

INVARIANTS
    UsedAsAgreed
    ChecksAreExact

CHECK_DEADLOCK FALSE
