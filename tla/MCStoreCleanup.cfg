CONSTANTS
    Frame = {f1}
    Saved <- MCSaved
    Policies <- MCPolicies
    MaxSaves = 2
    MaxReports = 1
    MaxMaintenance = 2
    MaxCrashes = 1
SPECIFICATION Spec
INVARIANTS
    IndInv
    SavesFailByCrashOnly
    ArchiveNotAhead
PROPERTIES
    EvidenceLostByOverlapOnly
CONSTRAINT TwoWithBackup
CHECK_DEADLOCK FALSE
