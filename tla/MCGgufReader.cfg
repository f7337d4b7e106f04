SPECIFICATION LiveSpec
CONSTANTS
    IntBits = 3
    Threshold = 1
    MaxSize = 10
    Cells <- MCCells
INVARIANTS
    ReadsWellFormed
    ReturnsWhatIsThere
PROPERTY
    ReadingEnds
CHECK_DEADLOCK FALSE
