SPECIFICATION Spec
CONSTANTS
    MaxBytes = 6
    Pieces <- MCPieces
INVARIANTS
    OnlyWholeCharacters
    TextIsShown
    SaidIsShown
