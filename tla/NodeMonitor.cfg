SPECIFICATION MonitoredFairSpec
CONSTANTS
  a = a
  b = b
  t1 = t1
  t2 = t2
  copyAB = copyAB
  deleteB = deleteB
  NoNode = NoNode
  NoTask = NoTask
  Tasks = {t1}
  Nodes = {b}
  Jobs = {deleteB}
  JobOf <- MCJobOf
  Source <- MCSource
  Dest <- MCDest
  Op <- MCOp
  Paths <- MCPaths
  ShutdownAfter = {}
  OneShot = {}
  AllowShutdown = {b}
  IdleShutdown = {b}
  MaxRequests = 1
  WaitAttempts = 1
  MaxRuns = 2
  MaxCrashes = 1
  Env = {"cancel", "crash", "fault"}
INVARIANTS MonitoredTypeOK OnlineHasActivity
PROPERTIES UpIsShown DownIsShown IdleGoesDown
CHECK_DEADLOCK FALSE
