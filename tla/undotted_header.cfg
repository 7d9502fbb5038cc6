SPECIFICATION Spec
CONSTANTS
    Cells <- SomeCells
    MaxCells = 3
    None = None
INVARIANTS
    GradeReachable
CHECK_DEADLOCK FALSE
