SPECIFICATION Spec
CONSTANTS
  a = a
  b = b
  t1 = t1
  t2 = t2
  t3 = t3
  copyAB = copyAB
  moveAB = moveAB
  copyA = copyA
  deleteA = deleteA
  deleteB = deleteB
  NoNode = NoNode
  NoTask = NoTask
  Tasks = {t1, t2}
  Nodes = {a, b}
  Jobs = {copyAB, moveAB}
  JobOf <- CopyAndMove
  Source <- MCSource
  Dest <- MCDest
  Op <- MCOp
  Paths <- TwoPaths
  ShutdownAfter = {copyAB, moveAB}
  OneShot = {copyAB}
  AllowShutdown = {a, b}
  WaitAttempts = 2
  MaxRuns = 2
  MaxCrashes = 1
  Env = {"cancel", "crash", "fault"}
PROPERTIES PowerOffAfterSuccess JobDeletedOnSuccess ImplementsNodeLock
CHECK_DEADLOCK FALSE
