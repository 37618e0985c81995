CONSTANTS
  MaxTurns = 2
  KeepRecent = 2
  LlmAttempts = 3
  RecoveryLimit = 1
  NudgeLimit = 1
  NativeCalls = FALSE
  MaxCalls = 2
  MaxStarts = 2
  MaxNotes = 1
SPECIFICATION Spec
INVARIANTS CallsAnswered EndsOnUser NothingForgotten
PROPERTIES RunEnds
CHECK_DEADLOCK FALSE
