\* One session is cancelled once.
CONSTANTS
    Sessions = {s1}
    Controllers = {ui}
    MaxConcurrent = 1
    Audit = FALSE
    Moves <- TaskMoves
    MaxAttempts = 1
    MaxCalls = 1
    NoSlot = NoSlot
SPECIFICATION Spec
INVARIANTS
    CancelledStaysListed
CHECK_DEADLOCK FALSE
