CONSTANTS
    Frames = {f1, f2}
    PreviewWindows = {v1}
    CaptureWindows = {}
    Callbacks = {}
    None = None
    Mjpeg = FALSE
    MAX_FRAME = 1
    MaxSessions = 1
    MaxSets = 0
SPECIFICATION FairSpec
PROPERTY StopReturns
CHECK_DEADLOCK FALSE
