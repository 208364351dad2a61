SPECIFICATION SafeSpec
CONSTANTS
    Clients = {c1, c2}
    Leavers = {c1}
    Kicked = {c1}
    Fds = {4, 5, 6}
    Listener = listener
    Aux = aux_connection
    InitMagic = init_magic
    FirstSizes = {0}
    Empties = {1}
    MaxBacklog = 2
    MaxKicks = 1
    MaxFrames = 1
INVARIANTS
    DisconnectSparesOthers
CHECK_DEADLOCK FALSE
