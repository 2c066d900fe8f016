CONSTANTS
    Ring = {1, 2, 3}
    Points = {1}
    Samples = {1, 2, 3, 4}
    Coverages <- Kinds
    GainStep = 2
    MinViews = 1
    MaxViews = 3
    SpotKinds <- Floors
    Starts = {0, 3}
    MaxPlans = 2
SPECIFICATION ViewsSpec
INVARIANTS
    StandsOnSeenFloor
    NeededIsEnough
CHECK_DEADLOCK FALSE
