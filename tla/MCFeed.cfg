\* A session of two panes that changes three times under a supervisor with a stream.
CONSTANTS
    p1 = p1
    p2 = p2
    d1 = d1
    d2 = d2
    None = None
    Pane = {p1, p2}
    HasSocket = TRUE
    MaxChanges = 3
    MaxAttempts = 2
\* Two daemons that contend for a path; a file of two contents, edited twice.
    Daemons = {d1, d2}
    Nothing = Nothing
    Configs = {"A", "B"}
    MaxStarts = 3
    MaxEdits = 2
    MaxStates = 1
SPECIFICATION MCSpec
INVARIANTS ListenerIsReached
PROPERTIES SnapshotsAreTrue EachHostForItself CopyIsTrue SessionIsFollowed RefreshConverges
CHECK_DEADLOCK FALSE
