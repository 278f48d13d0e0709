\* One connection, nothing fails; one of two certificates is self-signed.
CONSTANTS
    Links = {l1}
    Servers = {"Host", "host"}
    Lower <- MCLower
    Certificates = {"x", "y"}
    Empty = Empty
    SelfSigned = {"x"}
    Absent = Absent
    MaxDials = 1
    MaxPinFaults = 0
SPECIFICATION PinSpec
INVARIANT
    SelfSignedIsPinned
CHECK_DEADLOCK FALSE
