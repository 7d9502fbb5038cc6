SPECIFICATION Spec
CONSTANTS
    Students = {s1, s2}
    Requests = {r1, r2, r3, r4, r5}
    Scores = {0, 1}
    MaxLimit = 2
    Overlap = FALSE
    LowerLimit = FALSE
    None = None
SYMMETRY Symmetry
INVARIANTS
    AttemptsWithinLimit
    GaplessHistory
PROPERTIES
    OnlyOwnRequestsTouch
    GradedIsStored
    CooldownKept
    ImplementsLedger
