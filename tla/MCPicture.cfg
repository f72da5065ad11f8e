SPECIFICATION FairSpec
CONSTANTS
    Sizes = {z1}
    DefaultSize = z1
    Surfaces = {}
    RecordSurfaces = {}
    Pictures = {p1}
    NoArg = NoArg
    NoThread = NoThread
    MaxOps = 3
    MaxFailures = 0
PROPERTY PictureAnswered
CHECK_DEADLOCK FALSE
