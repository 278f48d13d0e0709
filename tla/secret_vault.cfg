\* Two threads share a store; two steps may fail or the program die.  Two
\* callers of the store in front of it; one step may fail.
CONSTANTS
    Threads = {t1, t2}
    Keys = {k1, k2}
    Values = {v1, v2}
    Passphrases = {p1, p2}
    None = None
    MaxCalls = 4
    MaxFaults = 2
    Callers = {c1, c2}
    Names = {"a", "b"}
    NameOrder <- MCNameOrder
    Secrets = {"old", "line"}
    Bare <- MCBare
    Trimmed <- MCTrimmed
    MaxStoreCalls = 3
    MaxStoreFaults = 1
    Gone = Gone
    Unsure = Unsure
SPECIFICATION MCSpec
INVARIANTS
    VaultIsWhole
    EntriesAccounted
    PassphraseAccounted
    StoredIsRead
    MigrationIsComplete
SYMMETRY Symmetry
CHECK_DEADLOCK FALSE
