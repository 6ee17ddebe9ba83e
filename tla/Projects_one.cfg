SPECIFICATION Spec
CONSTANTS
  Jobs = {1, 2}
  Params = {exposure}
  Sessions = {s1}
  Threads = {t1}
  None = None
  Retired <- MCRetired
  MaxSeq = 2
  Pinned = {0}
  Faults = TRUE
CHECK_DEADLOCK FALSE
INVARIANT TypeOK
INVARIANT HistoryIsLinear
INVARIANT RestartChangesNothing
INVARIANT NoStrayJobs
PROPERTY SettledRowsAreKept
PROPERTY KeepsHistory
