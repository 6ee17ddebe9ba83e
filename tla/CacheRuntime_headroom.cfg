SPECIFICATION Spec
CONSTANTS
  register = register
  stack = stack
  stretch = stretch
  curves = curves
  None = None
  Hashes <- MCHashes
  Inputs <- MCInputs
  ProjectOf <- MCProjectOf
  Keep <- MCKeep
  Projects = {"p", "q"}
  Requests <- MCRequests
  Jobs = {1, 2}
  Heavy = {stack}
  Api = {}
  Monitors = {}
  Budgets = {1, 2}
  JobBudget <- MCJobBudget
  SlowSweep = FALSE
  SlowPlan = FALSE
  PidReuse = FALSE
  CrashTears = FALSE
  MaxCrashes = 0
  MaxSweeps = 1
INVARIANT InputsSurvive
CHECK_DEADLOCK FALSE
