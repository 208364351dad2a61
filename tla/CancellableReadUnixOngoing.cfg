SPECIFICATION Spec
CONSTANTS
    Cancellers = {t1}
    Sizes = {2}
    MaxBytes = 2
PROPERTY OngoingReadExits
