CONSTANTS
    Frames = {f1, f2}
    PreviewWindows = {v1}
    CaptureWindows = {w1, w2}
    Callbacks = {k1}
    None = None
    Mjpeg = FALSE
    MAX_FRAME = 1
    MaxSessions = 1
    MaxSets = 2
SPECIFICATION StreamSpec
INVARIANT WindowsReferenced
PROPERTY SettersReturn
CHECK_DEADLOCK FALSE
