CONSTANTS
    Operation = {idle, capture}
    Idle = idle
    QueueSize = 3
    Batch = 2
    KeepEvents = 2
    MaxSequence = 3
    MaxEvents = 3
    MaxBoots = 2
    MaxFaults = 2
SPECIFICATION FairSpec
INVARIANTS
    DiagnosticsTypeOK
    RecordIsExact
PROPERTIES
    Delivered
CHECK_DEADLOCK FALSE
