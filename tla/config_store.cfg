\* One window and the agent share the file: three edits, two saves, a fault.  One
\* process and the texts others write.  Every policy on numbers below 13.
SPECIFICATION MCSpec
CONSTANTS
    f1 = f1
    f2 = f2
    f3 = f3
    f4 = f4
    g1 = g1
    i1 = i1
    i2 = i2
    n1 = n1
    n2 = n2
    w1 = w1
    Windows = {w1}
    Agents = {g1}
    Ids = {i1, i2}
    Names = {n1, n2}
    Inodes = {f1, f2, f3, f4}
    None = None
    MaxEdits = 3
    MaxPresses = 2
    MaxFaults = 1
    Documents <- MCDocuments
    Edited <- MCEdited
    MaxDocumentOps = 5
    Word = 13
    MaxAttempt = 8
INVARIANTS
    FileIsWhole
    NamesUnique
    SavedReloads
    DelayInBounds
PROPERTY
    SavePressReachesDisk
CHECK_DEADLOCK FALSE
