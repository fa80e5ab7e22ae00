CONSTANTS
    MaxSessions = 2
    MaxInputs = 1
    MaxChanges = 0
    MaxFaults = 0
    Mixtures <- NewSession
    None = None
SPECIFICATION FairSpec
INVARIANT
    RingRunsOnce
CHECK_DEADLOCK FALSE
