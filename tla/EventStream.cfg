SPECIFICATION StreamSpec
CONSTANTS
  Jobs = {1}
  Workers = {w1, w2}
  None = None
  Overlap = FALSE
  PidReuse = FALSE
  LateBeat = FALSE
  MaxNodeEvents = 2
  MaxCrashes = 1
  MaxSignals = 0
  Clients = {c1}
INVARIANT StreamFaithful
INVARIANT StreamEndsWithOutcome
PROPERTY StreamEnds
