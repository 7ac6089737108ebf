SPECIFICATION MCSpec
CONSTANTS
    None = None
    MaxRequests = 2
    MaxLength = 3
    MaxOutstanding = 2
    MaxGrant = 2
    MaxQueue = 2
    Window = 2
    FetchWindow = 2
    MaxBrowser = 3
INVARIANTS TableMatchesTasks ShownIsVerified
PROPERTIES SavedIsSafe DownloadsEnd
CHECK_DEADLOCK FALSE
