SPECIFICATION Spec
CONSTANTS
    Ids = {i1, i2, i3, i4}
    Attempts = {a1, a2}
    Requests = {r1, r2}
    NoId = NoId
    NoAttempt = NoAttempt
    Faults = TRUE
SYMMETRY Symmetry
INVARIANTS
    TypeOK
    AttemptsNeverMix
    HandedIdsLeadOn
CHECK_DEADLOCK FALSE
