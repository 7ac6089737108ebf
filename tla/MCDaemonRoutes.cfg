\* Three clients, one pane: every way its stream may open, fail, end or be replaced.
CONSTANTS
    c1 = c1
    c2 = c2
    c3 = c3
    p1 = p1
    p2 = p2
    t1 = t1
    t2 = t2
    None = None
    ClientId = {c1, c2, c3}
    Pane = {p1}
    Target = {t1}
    targetOf <- OneTarget
    Size = {"narrow", "wide"}
    Row = {1}
    Cell = {0}
    BlankCell = 0
    MaxOutstanding = 1
    MaxSequence = 1
    MaxReports = 2
    Access = {"observe", "control"}
    Representation = {"frames"}
SPECIFICATION FairDaemonSpec
INVARIANTS StreamFollowsRoute RoutesAgree LeaseKnown
PROPERTIES RouteServedOrClosed ImplementsLeases
