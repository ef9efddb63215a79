SPECIFICATION MonitoredSpec
CONSTANTS
  a = a
  b = b
  t1 = t1
  t2 = t2
  copyAB = copyAB
  deleteB = deleteB
  NoNode = NoNode
  NoTask = NoTask
  Tasks = {t1}
  Nodes = {b}
  Jobs = {deleteB}
  JobOf <- MCJobOf
  Source <- MCSource
  Dest <- MCDest
  Op <- MCOp
  Paths <- MCPaths
  ShutdownAfter = {deleteB}
  OneShot = {}
  AllowShutdown = {b}
  IdleShutdown = {b}
  MaxRequests = 0
  WaitAttempts = 1
  MaxRuns = 2
  MaxCrashes = 1
  Env = {}
PROPERTY IdleSparesLocked
CHECK_DEADLOCK FALSE
