SPECIFICATION Spec
CONSTANTS
    Cancellers = {t1, t2}
    Sizes = {0, 2}
    MaxBytes = 4
INVARIANTS
    LateReadsThrow
    ShortReadMeansEof
PROPERTY WaitingReadThrows
