CONSTANTS
    NumTransfers = 2
    Parts = 2
    FrameSize = 2
    MaxPayloads = 2
    MaxStreams = 1
SPECIFICATION FairSpec
PROPERTY StopAlwaysReturns
CHECK_DEADLOCK FALSE
