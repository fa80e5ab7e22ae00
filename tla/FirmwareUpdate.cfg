CONSTANTS
    Release <- MCRelease
    Purpose <- MCPurpose
    Sequence <- MCSequence
    AppOf <- MCAppOf
    FromApps <- MCFromApps
    Image <- MCImage
    JobId = {j1}
    RequestKey = {k1}
    Reports <- MCReports
    Withdrawable = {"ota2"}
    ErrorCode <- MCErrors
    SelectionError <- MCSelectionError
    Size = 3
    MinProgress = 2
    MaxSequence = 6
    ProgressStep = 2
    BuildSequence <- MCBuild
    FirstImage = "a1"
    DownloadError = {"network", "hash_mismatch"}
    MaxFaults = 3
    None = None
SPECIFICATION FairSpec
INVARIANTS
    TypeOK
    OutcomesHappened
    JournalTracksJob
    HoldTakesThreeBadStarts
PROPERTIES
    Settles
CHECK_DEADLOCK FALSE
