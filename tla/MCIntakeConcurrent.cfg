CONSTANTS
    Worker = {w1, w2}
    Event = {e1}
    MaxReplays = 1
    MaxCommands = 2
    MaxCrashes = 1
    MaxRaises = 1
SPECIFICATION Spec
INVARIANTS
    LinksExist
PROPERTIES
    RunOnce
SYMMETRY Workers
CHECK_DEADLOCK FALSE
