SPECIFICATION FairSpec
CONSTANTS
  Jobs = {1, 2}
  Workers = {w1, w2}
  None = None
  Overlap = FALSE
  PidReuse = FALSE
  LateBeat = FALSE
  MaxNodeEvents = 1
  MaxCrashes = 2
  MaxSignals = 1
PROPERTY DesertedRowIsReclaimed
PROPERTY CancelledRunEnds
PROPERTY QueuedIsStarted
PROPERTY DrainExits
INVARIANT LogTellsStatus
PROPERTY OutcomeIsFinal
PROPERTY KeepsPromise
