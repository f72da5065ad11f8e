SPECIFICATION FairSpec
CONSTANTS
    Devices = {d1, d2}
    NoDevice = NoDevice
    NoThread = NoThread
    MaxOps = 3
INVARIANTS TypeOK NoCircularWait ListedCamerasLive
PROPERTIES OperationsEnd
CHECK_DEADLOCK FALSE
