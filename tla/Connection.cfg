CONSTANTS
  Flows = {f1, f2, f3}
  None = None
  MaxFaults = 5
SPECIFICATION Spec
INVARIANTS OfflineIsRetried PhaseIsTrue
PROPERTIES OnlineStays Recovers
