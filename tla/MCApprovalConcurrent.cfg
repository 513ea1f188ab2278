CONSTANTS
    Operator = {o1, o2}
    NumActions = 2
    Manifests <- OneManifest
    Interfaces = {"command", "cli"}
    MaxCrashes = 0
    MaxCalls = 1
    Circumstances <- MCCircumstances
SPECIFICATION Spec
INVARIANTS
    CalledWasApproved
    CompletedOnDisk
SYMMETRY Operators
CHECK_DEADLOCK FALSE
