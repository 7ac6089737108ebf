\* One agent, one client, a log of one event of two.
CONSTANTS
    Panes = {1}
    Statuses <- Reportable
    Clients = {1}
    MaxEvents = 1
    MaxId = 2
    MaxQueue = 1
    MaxRestarts = 0
    Kinds = {"needs", "disappeared"}
    MaxPending = 1
    MaxMarks = 1
\* Two names and two hosts, two tests and one edit of the file by others.
    Names = {"a", "b"}
    Hosts = {"h1", "h2"}
    File0 <- OneTarget
    Unset = "none"
    MaxTests = 2
    MaxWrites = 1
SPECIFICATION MCSpec
INVARIANTS HistoryIsShared PanesArriveWhole PassedIsCurrent
PROPERTIES NothingLeftWaiting
CHECK_DEADLOCK FALSE
