SPECIFICATION Spec
CONSTANTS
    Cells <- SomeCells
    MaxCells = 3
    None = None
INVARIANTS
    OnlyMarkedLinesGo
CHECK_DEADLOCK FALSE
