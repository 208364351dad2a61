SPECIFICATION Spec
CONSTANTS
    Clients = {c1, c2}
    MaxWrites = 1
    MaxPushes = 2
    Talkers = {c1}
    MaySpoil = TRUE
INVARIANTS
    ToldOnce
    MessagesInOrder
    CrashesOnlyInConnect
PROPERTIES
    QuietOnceGone
    BothEndsAreTold
    CallsReturn
CHECK_DEADLOCK FALSE
