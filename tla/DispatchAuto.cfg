CONSTANTS
  MaxTreeDepth = NoLimit
  NoLimit = NoLimit
  NoBranch = NoBranch
  Trunk = Trunk
  Elsewhere = Elsewhere
  MaxWidth = 2
  DepthBound = 1
  MaxCycles = 2
  MaxRetries = 1
  MaxParallel = NoLimit
  ReviewMode = FALSE
  TaskLists <- AnyPairs
  ManualUpdates <- UpdatesAndRefs
  Statuses = {"pending", "running"}
  ReportedRefs <- SiblingOnly
  Golds = {FALSE}
  MaxBranches = 2
SPECIFICATION Spec
INVARIANTS AttemptBounded BudgetHeld RunningIsOwned OwnWorktree
PROPERTIES PreservedWork CrashLosesNothing
