CONSTANTS
  Reqs = {a, b}
  Untimed = {b}
  MaxGen = 2
  None = None
  Initialize = Initialize
  Shutdown = Shutdown
SPECIFICATION FairSpec
INVARIANTS OneRuntime NothingDangles
PROPERTIES StoppedRuntimeExits TimedRequestsSettle
CHECK_DEADLOCK FALSE
