\* Input is accepted for a route whose stream cannot carry it: a keyboard
\* nobody held is granted on a stream opened to observe.
CONSTANTS
    c1 = c1
    c2 = c2
    c3 = c3
    p1 = p1
    p2 = p2
    t1 = t1
    t2 = t2
    None = None
    ClientId = {c1, c2}
    Pane = {p1}
    Target = {t1}
    targetOf <- OneTarget
    Size = {"wide"}
    Row = {1}
    Cell = {0}
    BlankCell = 0
    MaxOutstanding = 1
    MaxSequence = 1
    MaxReports = 1
    Access = {"observe", "control"}
    Representation = {"frames"}
SPECIFICATION DaemonSpec
INVARIANT AcceptedInputIsCarried
