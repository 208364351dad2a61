SPECIFICATION Spec
CONSTANTS
    Writes = {"file", "socket"}
    Capacity = 2
    MaxRequests = 4
    MaxPushes = 1
    Deferred = {2, 3}
    Chained = {1, 2, 3}
INVARIANTS
    WholeUnlessRaced
    AnsweredOnce
PROPERTIES
    RequestsAreAnswered
CHECK_DEADLOCK FALSE
