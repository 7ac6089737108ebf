\* A connector that is lost and back, a table and queues of one; three messages, up to and over
\* a limit of three bytes; a page that connects twice and posts twice.
CONSTANTS
    d1 = d1
    d2 = d2
    None = None
    Device = {d1, d2}
    MaxGens = 2
    MaxDevices = 1
    QueueDepth = 1
    MaxDown <- Responses
    MaxUp <- Requests
    MaxMessageBytes = 3
    MaxLength = 4
    MaxMessages = 3
    PipeDepth = 3
    NoStream = NoStream
    MaxStreams = 2
    MaxPosts = 2
    CommandDepth = 1
SPECIFICATION MCSpec
INVARIANTS TunnelHolds EventsAreTheMessages CommandsAreCarried
PROPERTIES GoneIsNoticed
CHECK_DEADLOCK FALSE
