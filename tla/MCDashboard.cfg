SPECIFICATION DashboardSpec
CONSTANTS
  Pages = {p1, p2}
  MaxRuns = 3
INVARIANTS
    StopReaches
    TakenOver
PROPERTIES
    SavedBeforeReplaced
    Answered
