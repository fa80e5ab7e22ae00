CONSTANTS
    Release <- MCRelease
    Purpose <- MCPurpose
    Sequence <- MCSequence
    AppOf <- MCAppOf
    FromApps <- MCFromApps
    Image <- MCImage
    JobId = {j1, j2}
    RequestKey = {k1, k2}
    Reports <- MCReports
    Withdrawable = {"ota2"}
    ErrorCode <- MCErrors
    SelectionError <- MCSelectionError
    Size = 1
    MinProgress = 1
    MaxSequence = 5
    ProgressStep = 1
    BuildSequence <- MCBuild
    FirstImage = "a1"
    DownloadError = {"network", "hash_mismatch"}
    MaxFaults = 2
    None = None
SPECIFICATION Spec
SYMMETRY Symmetric
INVARIANTS
    BoardMatchesRecord
PROPERTIES
    LiveSlotsUntouched
CHECK_DEADLOCK FALSE
