SPECIFICATION Spec
CONSTANTS
    Cells <- SomeCells
    MaxCells = 3
    None = None
INVARIANTS
    HandoutHidesAnswers
    PointsAddUp
CHECK_DEADLOCK FALSE
