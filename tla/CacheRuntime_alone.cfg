SPECIFICATION Spec
CONSTANTS
  register = register
  stack = stack
  stretch = stretch
  curves = curves
  None = None
  Hashes <- MCHashes
  Inputs <- MCInputs
  ProjectOf <- MCProjectOf
  Keep <- MCKeep
  Projects = {"p", "q"}
  Requests <- MCForcedRequests
  Jobs = {1, 2, 3}
  Heavy = {}
  Api = {}
  Monitors = {}
  Budgets = {1, 2}
  JobBudget <- MCJobBudget
  SlowSweep = FALSE
  SlowPlan = FALSE
  PidReuse = TRUE
  CrashTears = FALSE
  MaxCrashes = 1
  MaxSweeps = 1
INVARIANT InputsSurvive
INVARIANT HitsAreServed
PROPERTY ResultsAreThere
CHECK_DEADLOCK FALSE
