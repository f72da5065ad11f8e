SPECIFICATION FairSpec
CONSTANTS
    Sizes = {z1, z2}
    DefaultSize = z1
    Surfaces = {1, 2}
    RecordSurfaces = {2}
    Pictures = {p1}
    NoArg = NoArg
    NoThread = NoThread
    MaxOps = 3
    MaxFailures = 1
INVARIANTS TypeOK NoDeadlockFromStopped NoStaleSurface SlavesAsAsked
PROPERTIES OperationsReturn PostedPictureAnswered
CHECK_DEADLOCK FALSE
