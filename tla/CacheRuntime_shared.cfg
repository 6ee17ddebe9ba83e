SPECIFICATION FairSpec
CONSTANTS
  register = register
  stack = stack
  stretch = stretch
  curves = curves
  None = None
  Hashes <- MCHashes
  Inputs <- MCInputs
  ProjectOf <- MCProjectOf
  Keep <- MCKeep
  Projects = {"p", "q"}
  Requests <- MCStacking
  Jobs = {1, 2}
  Heavy = {register, stack}
  Api = {"api"}
  Monitors = {"monitor"}
  Budgets = {1, 2}
  JobBudget <- MCJobBudget
  SlowSweep = FALSE
  SlowPlan = FALSE
  PidReuse = FALSE
  CrashTears = FALSE
  MaxCrashes = 1
  MaxSweeps = 1
INVARIANT TypeOK
INVARIANT CommittedIsComplete
INVARIANT OutputsSurvive
PROPERTY RunsEnd
CHECK_DEADLOCK FALSE
