\* A host that is asked for its sessions and is slow to answer once.
CONSTANTS
    p1 = p1
    p2 = p2
    d1 = d1
    d2 = d2
    None = None
    Pane = {p1, p2}
    HasSocket = TRUE
    MaxChanges = 3
    MaxAttempts = 2
\* Two daemons that contend for a path; a file of two contents, edited twice.
    Daemons = {d1, d2}
    Nothing = Nothing
    Configs = {"A", "B"}
    MaxStarts = 3
    MaxEdits = 2
    MaxStates = 1
SPECIFICATION MCSpec
PROPERTY RefreshKeepsTerminals
CHECK_DEADLOCK FALSE
