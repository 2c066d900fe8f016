SPECIFICATION Spec
CONSTANTS
  Nodes <- MCNodes
  MotionNodes <- MCMotionNodes
  Clients <- MCClients
  Controller = "controller_server"
  MaxDrives = 1
  MaxPending = 1
INVARIANTS
    BaseOwnership
    DriveNeedsNav2
PROPERTIES
    HandoffOnSuccess
    RunEnds
