SPECIFICATION Spec
CONSTANTS
    Handles = {h1, h2}
    PushIds = {1}
    ResponseIds = {2, 3}
    RequestIds = {10, 11}
    Handled = {10}
    OneSubscriptionPerId = TRUE
    HasQueue = TRUE
    MaxCalls = 2
    MaxAnswers = 1
    MaxDefers = 1
    MaxPushes = 1
INVARIANTS
    TypeOK
    CallbacksAreHeld
    HandlesOwnTheirNodes
    RoutedToItsRequest
PROPERTIES
    OnlyHeldCallbacksRun
    HeldCallbacksAreCalled
CHECK_DEADLOCK FALSE
