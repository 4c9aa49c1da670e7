SPECIFICATION OverlapSpec
CONSTANTS
    Request = {r1, r2}
    Metric = {costs, sustainable}
    Derived = sustainable
    MaxVersions = 3
SYMMETRY MCSymmetry
CHECK_DEADLOCK FALSE
INVARIANTS
    OneOpenUntilOverlap
PROPERTIES
    SupersededIsFinal
    ConfirmedUntilReplaced
    DraftNeverHidesConfirmed
    CorrectionsUntilOverlap
