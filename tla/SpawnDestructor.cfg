SPECIFICATION Spec
CONSTANTS
    Platforms = {"unix"}
    Sessions = {s1, s2}
    Parent = parent
    Quitters = {}
    Missing = {}
    OneAtATime = TRUE
PROPERTY DestructorReturns
CHECK_DEADLOCK FALSE
