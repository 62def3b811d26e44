SPECIFICATION RepositorySpec
CONSTANTS
    None = None
    Migrators = {"service", "migrate"}
    Records = {"old", "new"}
    MaxCrashes = 2
    MaxOps = 3
    QueueSize = 2
    Batch = 2
    MaxTelemetry = 1
INVARIANTS ReadyIsReadable NothingVanishes
PROPERTIES EvidenceIsKept AllGetReady EndIsHonest RowsInOrder StopEnds
CHECK_DEADLOCK FALSE
