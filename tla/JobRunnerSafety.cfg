SPECIFICATION Spec
CONSTANTS
  a = a
  b = b
  t1 = t1
  t2 = t2
  t3 = t3
  copyAB = copyAB
  moveAB = moveAB
  copyA = copyA
  deleteA = deleteA
  deleteB = deleteB
  NoNode = NoNode
  NoTask = NoTask
  Tasks = {t1, t2, t3}
  Nodes = {a}
  Jobs = {deleteA}
  JobOf <- AllDelete
  Source <- MCSource
  Dest <- MCDest
  Op <- MCOp
  Paths <- OnePath
  ShutdownAfter = {}
  OneShot = {}
  AllowShutdown = {}
  WaitAttempts = 1
  MaxRuns = 3
  MaxCrashes = 1
  Env = {"cancel", "clear", "crash", "fault"}
INVARIANTS TypeOK MutualExclusion RowsStayOwn LocksAccountedFor CancelReaches RcloneAlone
PROPERTIES ResultIsFinal
SYMMETRY TaskSymmetry
CHECK_DEADLOCK FALSE
