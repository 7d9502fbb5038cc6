SPECIFICATION Spec
CONSTANTS
    Cells <- SomeCells
    MaxCells = 3
    None = None
INVARIANTS
    ScoreWithinGrade
CHECK_DEADLOCK FALSE
