SPECIFICATION SessionFairSpec
CONSTANTS
    NoStream = NoStream
    MaxStreams = 2
    MaxPosts = 1
    CommandDepth = 1
PROPERTY GreetedCanAsk
CHECK_DEADLOCK FALSE
