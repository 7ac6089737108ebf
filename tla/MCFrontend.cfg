\* Three panes of two targets, one of which appears later, and one message under way.
CONSTANTS
    pane1 = pane1
    pane2 = pane2
    pane3 = pane3
    target1 = target1
    target2 = target2
    None = None
    Panes = {pane1, pane2, pane3}
    Targets = {target1, target2}
    TargetOf <- OfTarget
    TabOf <- OfTab
    Saved <- EitherSaved
    AtStart = {pane1, pane3}
    MaxTurns = 4
    MaxQueue = 1
\* Pastes up to and over a limit of one byte.
    PasteLimit = 1
    PendingLimit = 6
    PasteBound = 9
\* Two targets of a menu, two queries, two catalogs and a reconnection.
    MenuTargets = {"session", "tab"}
    Queries = {{"manager", "close", "cancel", "save", "transfer", "jump"}, {"cancel"}}
    Catalogs <- Offers
    MaxGeneration = 2
    MaxOps = 1
SPECIFICATION MCSpec
INVARIANTS TypedWhereMeant DecodedIsRead
PROPERTIES  OneOverlayByKey CardsHoldStill
CHECK_DEADLOCK FALSE
