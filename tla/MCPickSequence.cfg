SPECIFICATION Spec
CONSTANTS
    MaxRuns = 3
    MapTries = 3
INVARIANTS
    ReachIsChecked
    FrozenWhileMoving
    ClosesAtTheGrasp
PROPERTIES
    PickedMeansLifted
    PickEnds
CHECK_DEADLOCK FALSE
