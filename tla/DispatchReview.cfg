CONSTANTS
  MaxTreeDepth = NoLimit
  NoLimit = NoLimit
  NoBranch = NoBranch
  Trunk = Trunk
  Elsewhere = Elsewhere
  MaxWidth = 1
  DepthBound = 2
  MaxCycles = 2
  MaxRetries = 1
  MaxParallel = NoLimit
  ReviewMode = TRUE
  TaskLists <- DistinctPairs
  ManualUpdates <- Updates
  Statuses = {"pending", "done", "needs_retry", "merged", "pruned"}
  ReportedRefs <- TrunkOnly
  Golds = {TRUE, FALSE}
  MaxBranches = 1
SPECIFICATION FairSpec
PROPERTIES PrunedStaysPruned ResultsAreFinal ToolCallReturns
