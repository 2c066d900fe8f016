SPECIFICATION Spec
CONSTANTS
  MaxGoals = 5
  MaxTries = 2
INVARIANTS
    NothingUntracked
PROPERTIES
    StopsInTheEnd
    MotionsOneAtATime
CHECK_DEADLOCK FALSE
