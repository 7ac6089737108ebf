\* Two clients render one pane whose screen changes, grows and shrinks.
CONSTANTS
    c1 = c1
    c2 = c2
    c3 = c3
    p1 = p1
    p2 = p2
    t1 = t1
    t2 = t2
    None = None
    ClientId = {c1, c2}
    Pane = {p1}
    Target = {t1}
    targetOf <- OneTarget
    Size = {"narrow", "wide"}
    Row = {1, 2}
    Cell = {0, 1}
    BlankCell = 0
    MaxOutstanding = 2
    MaxSequence = 3
    MaxReports = 0
    Access = {"observe"}
    Representation = {"frames", "screen"}
SPECIFICATION BrokerSpec
INVARIANTS TypeOK QueueInSequenceSpace ViewerHoldsScreen NotStranded
SYMMETRY Symmetries
