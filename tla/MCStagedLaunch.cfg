CONSTANTS
    r1 = r1
    r2 = r2
    join = join
    Node <- MCNode
    kind <- MCKind
    needs <- MCNeeds
    Owner = {daemon}
    RunId = {run1}
    Failure = {}
    None = None
    Request = {q1, q2}
    TTL = 2
    MaxClock = 3
    MaxRestarts = 1
    MaxRollbacks = 1

SPECIFICATION FairSpec

INVARIANTS
    NeverLockedOut
    LedgersAgree
    ConsentIsSpentOnce

PROPERTIES
    SettledStaysSettled
    LaunchResolves

CHECK_DEADLOCK FALSE
