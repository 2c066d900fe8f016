CONSTANTS
    MaxGoals = 2
    MaxBases = 2
    MaxRuns = 3
SPECIFICATION ApproachSpec
INVARIANTS
    NoUntrackedGoal
    DriveIsPrecise
    NormalOnReturn
    ReadyStandsStill
PROPERTIES
    StopsInTheEnd
    DrivesOneAtATime
CHECK_DEADLOCK FALSE
