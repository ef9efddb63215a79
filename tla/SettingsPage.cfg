SPECIFICATION OneRowSpec
CONSTANTS
  Fields = {f1, f2}
  Values = {v1, v2}
  Names = {ann, bob, cal}
  Me = ann
  Peer = bob
  MaxIds = 3
  MaxOpenings = 2
  MaxCalls = 2
SYMMETRY Symmetry
INVARIANTS TypeOK NothingForgotten AdminRemains KeyOfThisDialog
PROPERTIES SavedIsStored
CHECK_DEADLOCK FALSE
