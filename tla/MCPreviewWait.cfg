CONSTANTS
    Frames = {f1, f2, f3}
    PreviewWindows = {v1}
    CaptureWindows = {w1}
    Callbacks = {k1}
    None = None
    Mjpeg = FALSE
    MAX_FRAME = 1
    MaxSessions = 1
    MaxSets = 2
SPECIFICATION StreamSpec
PROPERTY WaitFinishesCapturing
CHECK_DEADLOCK FALSE
