SPECIFICATION Spec
CONSTANTS
  MaxNodes = 1
  Keys = {k1, k2, empty}
  EmptyFile = empty
  MaxOpenings = 2
  MaxReads = 1
  MaxCalls = 2
SYMMETRY Symmetry
INVARIANTS TypeOK UploadOrRemove KeyAsShown KeyFollowsRow
PROPERTIES SaveKeepsPromise
CHECK_DEADLOCK FALSE
