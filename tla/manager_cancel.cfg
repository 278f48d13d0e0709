\* Two threads cancel, cancel all and prune two sessions that may fail meanwhile;
\* the agent's service under every manager; two agents
\* for one control socket; two threads at a log writer; an audit trail.
CONSTANTS
    Sessions = {s1, s2}
    Controllers = {ui, agent}
    MaxConcurrent = 1
    Audit = FALSE
    Moves <- FailMoves
    MaxAttempts = 0
    MaxCalls = 1
    NoSlot = NoSlot
    Texts = {v1, v2}
    Absent = Absent
    Torn = Torn
    Requests <- MCRequests
    MaxServiceCalls = 2
    MaxServiceFaults = 1
    Loggers = {t1, t2}
    Auditors = {a1, a2}
    Secrets <- MCSecrets
    Chunks <- MCChunks
    Capacities = {0, 2}
    MaxRecords = 4
    MaxShort = 2
    NoRecord = NoRecord
    Servers = {x1, x2}
    Clients = {c1, root}
    Owned = {c1}
    Nobody = Nobody
    Requested = {"reload"}
    MaxLines = 2
    MaxStops = 1
SPECIFICATION MCSpec
INVARIANTS
    TextIsAccounted
    
    AuditSurvivesShortWrites
    ControlIsOrderly
PROPERTIES
    CancelAllSweeps
    CallsTakeEffect
CHECK_DEADLOCK FALSE
