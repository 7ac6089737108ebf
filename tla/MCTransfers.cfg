\* Two transfers, of which one is kept, of files of two bytes.
CONSTANTS
    t1 = t1
    t2 = t2
    None = None
    Token = {t1, t2}
    Versions <- TwoFiles
    Length = 2
    MaxRetained = 1
    MaxPaths = 2
\* A payload of two bytes and three attempts at it.
    PayloadLength = 2
    MaxAttempts = 3
    Absent = Absent
\* Two files behind a window of one chunk.
    Files = {1, 2}
    Lengths <- OneEach
    Window = 1
SPECIFICATION MCSpec
INVARIANTS CarriedWhole StagingIsTruthful PastedIsVerified
PROPERTIES TransfersEnd
CHECK_DEADLOCK FALSE
