CONSTANTS
    NumTransfers = 2
    Parts = 2
    FrameSize = 3
    MaxPayloads = 4
    MaxStreams = 2
SPECIFICATION FairSpec
INVARIANTS TypeOK WholeFrames TransfersEnded
PROPERTIES MailboxSpec StopReturns FramesDelivered
CHECK_DEADLOCK FALSE
