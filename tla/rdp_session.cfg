\* One session: two threads that make two calls, desktops of two by two and
\* one by two pixels, three bitmaps, PDUs of one output.
SPECIFICATION Spec
CONSTANTS
    Colours = {"black", "red"}
    Black = "black"
    Word = 1073741824
    Callers = {c1, c2}
    Sizes <- MCSizes
    Updates <- MCUpdates
    MaxOutputs = 1
    MaxCalls = 2
    MaxEvents = 1
INVARIANTS   PictureFaithful ScreenCatchesUp EndIsTold
PROPERTIES InputIsServed SessionEnds
CHECK_DEADLOCK FALSE
