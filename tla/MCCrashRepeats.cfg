CONSTANTS
    Operator = {o1}
    NumActions = 1
    Manifests <- OneManifest
    Interfaces = {"command"}
    MaxCrashes = 1
    MaxCalls = 2
    Circumstances <- MCCircumstances
SPECIFICATION Spec
INVARIANTS
    LiveEffectOnce
CHECK_DEADLOCK FALSE
