SPECIFICATION Spec
CONSTANTS
  register = register
  stack = stack
  stretch = stretch
  curves = curves
  None = None
  Hashes <- MCHashes
  Inputs <- MCInputs
  ProjectOf <- MCProjectOf
  Keep <- MCKeep
  Projects = {"p", "q"}
  Requests <- MCForcedRequests
  Jobs = {1, 2}
  Heavy = {}
  Api = {}
  Monitors = {"monitor"}
  Budgets = {1, 2}
  JobBudget <- MCJobBudget
  SlowSweep = FALSE
  SlowPlan = FALSE
  PidReuse = FALSE
  CrashTears = FALSE
  MaxCrashes = 0
  MaxSweeps = 1
INVARIANT EverySweepSparesOwn
CHECK_DEADLOCK FALSE
