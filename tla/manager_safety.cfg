\* Two sessions compete for one place while two threads cancel and prune.
CONSTANTS
    Sessions = {s1, s2}
    Controllers = {ui, agent}
    MaxConcurrent = 1
    Audit = TRUE
    Moves <- TaskMoves
    MaxAttempts = 1
    MaxCalls = 1
    NoSlot = NoSlot
SPECIFICATION Spec
INVARIANTS
    TableMatchesBroadcast
    NoOrphanTask
    AuditFollowsBroadcast
PROPERTIES
    PoolSpec
SYMMETRY Symmetry
CHECK_DEADLOCK FALSE
