CONSTANTS
    NumSteps = 3
    MaxAttempts = 3
    Manifests <- PartialApproval
SPECIFICATION Spec
INVARIANT PendingMeansWaiting
CHECK_DEADLOCK FALSE
