CONSTANTS
    MaxSteps = 5
    ViewBudget = 3
    Window = 2
    MinGain = 2
    Thresh = 9
    Offsets <- MCOffsets
    Centres <- MCCentres
    Gains <- MCGains
    Scores <- MCScores
    Voxels <- MCVoxels
    LastCell = 8
    Coarse <- GridCells
    Off = 2
    Keep = 2
    Apart = 3
    Spans <- Halving
    Multiples <- Either
    Topics = {"laser_2d_correct_pose", "initialpose"}
    MaxTime = 4
    MaxCalls = 2
    Slop = 1
SPECIFICATION PerceptionSpec
INVARIANTS
    StableAfterAWindow
    NoneBetterNearTheBest
    HeardUnlessLate
    TakenSinceTheCall
CHECK_DEADLOCK FALSE
