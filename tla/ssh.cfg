\* The escape-sequence parser, a screen of two by three cells, rendition codes
\* and key presses.  One session with every way to log in and three commands; two
\* uploads to one name next to two downloads.
SPECIFICATION MCSpec
CONSTANTS
    Bytes <- MCBytes
    ParamMax = 120
    MaxSeq = 5
    MaxString = 1
    Chars = {"a"}
    WideChars = {"W"}
    MaxCols = 3
    MaxRows = 3
    ScrollLimit = 2
    InitialSize <- MCInitialSize
    Sizes <- MCSizes
    Inputs <- MCInputs
    MaxOps = 4
    None = None
    Codes = {2, 5, 22, 31, 38, 48}
    MaxCodes = 6
    MaxFunction = 13
    Methods <- MCMethods
    MaxCommands = 3
    NoError = NoError
    Transfers <- MCTransfers
    Uploads <- MCUploads
    Target <- MCTarget
    Temporary <- MCTemporary
    Length <- MCLength
    MaxCancels = 1
    Nothing = Nothing
INVARIANTS
    IndicesInRange
    SgrIsSequential
    KeysUnambiguous
    InputInOrder
    TargetIsWhole
PROPERTIES
    DispatchMatchesText
    ScrollingConfined
    PrimaryScreenReturns
    ForgottenSessionCloses
    AcceptedArrives
CHECK_DEADLOCK FALSE
