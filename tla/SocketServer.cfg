SPECIFICATION Spec
CONSTANTS
    Clients = {c1, c2}
    Leavers = {c1}
    Kicked = {c2}
    Fds = {4, 5, 6}
    Listener = listener
    Aux = aux_connection
    InitMagic = init_magic
    FirstSizes = {0}
    Empties = {1}
    MaxBacklog = 3
    MaxKicks = 1
    MaxFrames = 2
INVARIANTS
    NeverBlocks
    HandshakeIsClean
    SessionLifetimes
    OneMessagePerFrame
    ExitsOnlyOnRequest
PROPERTIES
    EveryClientIsServed
    DisconnectIsHonoured
    DestructorReturns
CHECK_DEADLOCK FALSE
