CONSTANTS
    MaxStarts = 2
    MaxOps = 3
    MaxFailures = 1

SPECIFICATION FairSpec
INVARIANTS TypeOK Survives OwnFile KeyFrameDecides
PROPERTIES StoppedAnswered ClosedReleased
CHECK_DEADLOCK FALSE
