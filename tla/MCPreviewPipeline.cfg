CONSTANTS
    Frames = {f1, f2, f3, f4}
    PreviewWindows = {v1}
    CaptureWindows = {w1}
    Callbacks = {k1}
    None = None
    Mjpeg = FALSE
    MAX_FRAME = 1
    MaxSessions = 2
    MaxSets = 1
SPECIFICATION PipelineSpec
SYMMETRY Symmetry
INVARIANTS TypeOK FrameOwnership QueueBounds BoundedLoss QuietWhenStopped WindowsReferenced
CHECK_DEADLOCK FALSE
