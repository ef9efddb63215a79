SPECIFICATION Spec
CONSTANTS
  MaxJobs = 1
  MaxCalls = 3
  Contents <- Filled
INVARIANTS TypeOK EntriesFollowRows
PROPERTIES OnlyEditsWritten StaysComplete
CHECK_DEADLOCK FALSE
