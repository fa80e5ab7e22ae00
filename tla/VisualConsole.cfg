CONSTANTS
    MaxSessions = 2
    MaxInputs = 2
    MaxChanges = 1
    MaxFaults = 1
    Mixtures <- SmallMixtures
    None = None
SPECIFICATION FairSpec
INVARIANTS
    ConsoleTypeOK
    InputsAreFaithful
PROPERTIES
    StopIsHonoured
    
    MirrorCatchesUp
CHECK_DEADLOCK FALSE
