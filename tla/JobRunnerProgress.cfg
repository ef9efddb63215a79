SPECIFICATION FairSpec
CONSTANTS
  a = a
  b = b
  t1 = t1
  t2 = t2
  t3 = t3
  copyAB = copyAB
  moveAB = moveAB
  copyA = copyA
  deleteA = deleteA
  deleteB = deleteB
  NoNode = NoNode
  NoTask = NoTask
  Tasks = {t1, t2}
  Nodes = {a, b}
  Jobs = {copyAB, copyA}
  JobOf <- CopyAndBroken
  Source <- MCSource
  Dest <- MCDest
  Op <- MCOp
  Paths <- OnePath
  ShutdownAfter = {copyAB}
  OneShot = {}
  AllowShutdown = {b}
  WaitAttempts = 2
  MaxRuns = 3
  MaxCrashes = 1
  Env = {"cancel","clear","crash","fault"}
PROPERTIES RunEnds LockFreed
CHECK_DEADLOCK FALSE
