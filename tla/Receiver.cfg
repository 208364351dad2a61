SPECIFICATION Spec
CONSTANTS
    Transports = {"unix", "win32", "socket"}
    Header = 2
    Sizes = {0, 1, 2}
    MaxFrames = 3
    MayThrow = TRUE
INVARIANTS
    PayloadsInOrder
    DisconnectMeansPeerLeft
PROPERTIES
    StopReturns
    FramesArrive
CHECK_DEADLOCK FALSE
