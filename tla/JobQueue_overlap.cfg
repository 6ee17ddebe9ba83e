SPECIFICATION Spec
CONSTANTS
  Jobs = {1, 2}
  Workers = {w1, w2}
  None = None
  Overlap = TRUE
  PidReuse = TRUE
  LateBeat = TRUE
  MaxNodeEvents = 1
  MaxCrashes = 1
  MaxSignals = 0
INVARIANT LogContiguous
INVARIANT OneExecutor
PROPERTY NeverRestarted
INVARIANT TypeOK
PROPERTY CancelledInQueueNeverRuns
