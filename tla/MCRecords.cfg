\* Two codes, one wrong guess allowed, one prompt at a time, one revocation.
CONSTANTS
    b1 = b1
    b2 = b2
    None = None
    Browser = {b1, b2}
    Via <- OneEach
    MaxCodes = 2
    MaxAttempts = 1
    MaxApprovals = 1
    MaxRevokes = 1
SPECIFICATION MCSpec
INVARIANTS PairedOnce TextFollowsEdits
PROPERTIES KeptAcrossRestarts PluginsActAsShown
CHECK_DEADLOCK FALSE
