CONSTANTS
    s1 = s1
    s2 = s2
    Samples <- Surface
    MaxPoses = 4
    Limits = {2, 3}
    FailedDrives = 2
SPECIFICATION LookSpec
INVARIANTS
    LeavesNothing
