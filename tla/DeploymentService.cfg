CONSTANTS
    Release <- MCRelease
    Purpose <- MCPurpose
    Sequence <- MCSequence
    AppOf <- MCAppOf
    FromApps <- MCFromApps
    Image <- MCImage
    JobId = {j1, j2}
    RequestKey = {k1, k2}
    Reports <- MCReports
    Withdrawable = {"ota2"}
    ErrorCode <- MCErrors
    SelectionError <- MCSelectionError
    Size = 2
    MinProgress = 2
    MaxSequence = 4
    None = None
SPECIFICATION ServiceSpec
SYMMETRY Symmetric
INVARIANTS
    ServiceTypeOK
    ActiveIsSound
PROPERTIES
    SequenceAdvances
    KeepsPromise
CHECK_DEADLOCK FALSE
