CONSTANTS
    Node <- MCNode
    kind <- MCKind
    needs <- MCNeeds
    Owner = {o1}
    RunId = {run1, run2, run3}
    Failure = {denied}
    None = None
    MaxRevision = 9

SPECIFICATION Spec

INVARIANTS
    ExecutionSound
    StartedAfterDependencies
    NoPendingOnDeadDependency
    BlockedHasCause

PROPERTIES
    SettledIsKept

CHECK_DEADLOCK FALSE
