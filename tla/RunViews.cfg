SPECIFICATION PollingSpec
CONSTANTS
  MaxRuns = 1
  MaxLog = 1
  MaxQueue = 1
  MaxMoves = 1
  Results = {"failed"}
INVARIANTS TypeOK LogIsPrefix StaleHasReason DrawerAgrees
PROPERTY ListConverges
CHECK_DEADLOCK FALSE
