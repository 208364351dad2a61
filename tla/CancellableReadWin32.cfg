SPECIFICATION Spec
CONSTANTS
    Cancellers = {t1, t2}
    Sizes = {0, 2}
    MaxBytes = 4
INVARIANTS
    TypeOK
    HandleIsOpen
    ShortReadMeansEof
PROPERTY KeepsThePromise
