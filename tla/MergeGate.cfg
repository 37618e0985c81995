CONSTANTS
  Runs = {a}
  Branches = {x}
  Targets = {t}
  Main = Main
  None = None
  Trunk = t
  RequireBase = FALSE
  Range = 1
  Scores <- SignedScores
  Retries = 1
SPECIFICATION Spec
INVARIANTS MainIsClean SuccessIsTrue LeavesNoTrace MedalIsBacked GateHolds
