CONSTANTS
    Worker = {w1}
    Event = {e1, e2}
    MaxReplays = 1
    MaxCommands = 3
    MaxCrashes = 1
    MaxRaises = 1
SPECIFICATION Spec
INVARIANTS
    OrphansByFaultsOnly
    QueueAgrees
    QueueSettled
PROPERTIES
    LinkStays
    ReplayLeavesOriginal
CHECK_DEADLOCK FALSE
