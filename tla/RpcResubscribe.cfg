SPECIFICATION SafeSpec
CONSTANTS
    Handles = {h1, h2}
    PushIds = {1}
    ResponseIds = {2}
    RequestIds = {10, 11}
    Handled = {10}
    OneSubscriptionPerId = FALSE
    HasQueue = TRUE
    MaxCalls = 2
    MaxAnswers = 1
    MaxDefers = 1
    MaxPushes = 1
INVARIANTS
    CallbacksAreHeld
CHECK_DEADLOCK FALSE
