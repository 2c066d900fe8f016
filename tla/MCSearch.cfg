CONSTANTS
    f1 = f1
    f2 = f2
    f3 = f3
    None = None
    NoGuesses = NoGuesses
    Furniture <- Pieces
    Spots <- Line
    PieceAt <- Stands
    SameInstance = 1
    TopKs = {1, 2}
    MaxNodes = 2
SPECIFICATION Spec
INVARIANTS
    NeverTwice
    NextAsks
    FoundIsSaved
PROPERTIES
    NewOnlyIfFar
