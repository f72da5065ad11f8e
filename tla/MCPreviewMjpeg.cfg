CONSTANTS
    Frames = {f1, f2, f3, f4, f5, f6}
    PreviewWindows = {v1}
    CaptureWindows = {}
    Callbacks = {}
    None = None
    Mjpeg = TRUE
    MAX_FRAME = 1
    MaxSessions = 1
    MaxSets = 0
SPECIFICATION StreamSpec
SYMMETRY Symmetry
INVARIANTS DecodeFrameAvailable
CHECK_DEADLOCK FALSE
