\* One connection, nothing fails and nobody can answer.
CONSTANTS
    c1 = c1
    c2 = c2
    h1 = h1
    h2 = h2
    k1 = k1
    k2 = k2
    k3 = k3
    Connections = {c1}
    Hosts = {h1, h2}
    Keys = {k1, k2, k3}
    Reach <- MCReach
    KeyType <- MCKeyType
    Broken = Broken
    InitialFiles <- MCInitialFiles
    Answerable = FALSE
    MaxFaults = 0
SPECIFICATION Spec
INVARIANT
    RevokedLinesAreHonoured
CHECK_DEADLOCK FALSE
