CONSTANTS
    MaxSessions = 1
    MaxInputs = 1
    MaxChanges = 0
    MaxFaults = 0
    Mixtures <- OneInput
    None = None
SPECIFICATION FairSpec
PROPERTY
    ActiveEndsWithSession
CHECK_DEADLOCK FALSE
