SPECIFICATION Spec
CONSTANTS
    Platforms = {"unix", "win32"}
    Sessions = {s1, s2, s3}
    Parent = parent
    Quitters = {s1}
    Missing = {s3}
    OneAtATime = TRUE
INVARIANTS
    DisconnectMeansServerLeft
    ExitIsReportedOnce
PROPERTIES
    SpawnEnds
    ExitsAreReported
    OnlySiblingsDelay
CHECK_DEADLOCK FALSE
