SPECIFICATION Spec
CONSTANTS
    f1 = f1
    f2 = f2
    f3 = f3
    f4 = f4
    i1 = i1
    n1 = n1
    w1 = w1
    Windows = {w1}
    Agents = {}
    Ids = {i1}
    Names = {n1}
    Inodes = {f1, f2, f3, f4}
    None = None
    MaxEdits = 1
    MaxPresses = 1
    MaxFaults = 0
INVARIANT
    DirtyMeansDifferent
CHECK_DEADLOCK FALSE
