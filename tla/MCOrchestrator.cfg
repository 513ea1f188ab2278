CONSTANTS
    NumSteps = 3
    MaxAttempts = 3
    Manifests <- AllManifests
SPECIFICATION FairSpec
INVARIANTS
    NoTraceOfFailedAttempts
    StepsInOrder
    RestStates
    CompletedIsSettled
    CompletedRanEveryStep
    LiveEffectOnce
    IndInv
PROPERTIES
    FinalIsFrozen
    GateSpec
    CallsEnd
CHECK_DEADLOCK FALSE
