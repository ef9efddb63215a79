SPECIFICATION Spec
CONSTANTS
  MaxRuns = 1
  MaxLog = 1
  MaxQueue = 2
  MaxMoves = 1
  Results = {"failed", "over"}
PROPERTY FailureRaisesAlert
CHECK_DEADLOCK FALSE
