\* Two connections share a file; a write may fail or the program die once.
CONSTANTS
    c1 = c1
    c2 = c2
    h1 = h1
    h2 = h2
    k1 = k1
    k2 = k2
    k3 = k3
    Connections = {c1, c2}
    Hosts = {h1, h2}
    Reach <- MCReach
    Keys = {k1, k2, k3}
    KeyType <- MCKeyType
    Broken = Broken
    InitialFiles <- MCInitialFiles
    Answerable = TRUE
    MaxFaults = 1
SPECIFICATION FairSpec
INVARIANTS
    ConnectedWasVerified
    LinesAreGenuine
PROPERTIES
    AcceptOnlyAdds
    EveryAttemptEnds
CHECK_DEADLOCK FALSE
