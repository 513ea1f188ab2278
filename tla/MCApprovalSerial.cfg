CONSTANTS
    Operator = {o1}
    NumActions = 2
    Manifests <- MCManifests
    Interfaces = {"command", "cli", "ui"}
    MaxCrashes = 1
    MaxCalls = 3
    Circumstances <- MCCircumstances
SPECIFICATION Spec
INVARIANTS
    RepeatedByCrashesOnly
    ListingAgrees
    AdviceIsSafe
PROPERTIES
    LifeCycle
