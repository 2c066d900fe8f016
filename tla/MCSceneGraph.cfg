SPECIFICATION GraphSpec
CONSTANTS
    Height = 6
    Width = 7
    WallSpan = 1
    Images <- MCImages
    Pieces <- MCPieces
    Objects = {8, 9}
    Built = {8}
    Spots <- MCSpots
    Placements <- MCPlacements
    Shapes <- MCShapes
    Boxes <- MCBoxes
    office = office
    kitchen = kitchen
    Words = {office, kitchen}
    Names <- MCNames
    Spacings <- MCSpacings
    MaxCalls = 3
    Gap = 1
    Tolerance = 0
    NearLimit = 4
INVARIANTS
    OnePlaceOneRoom
    DivisionIsKept
CHECK_DEADLOCK FALSE
