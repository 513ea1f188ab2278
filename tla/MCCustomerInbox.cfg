CONSTANTS
    Message = {m1}
    Window = {w1, w2}
    MaxFrames = 2
    MaxAccidents = 1
    MaxOverlaps = 1
SPECIFICATION Spec
INVARIANTS
    InboxWasTrue
    OneReplyWhenSerial
    AgreesWithFrame
CONSTRAINT OneTrouble
SYMMETRY Interchangeable
CHECK_DEADLOCK FALSE
