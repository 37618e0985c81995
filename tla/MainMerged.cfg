CONSTANTS
  Runs = {a, b}
  Branches = {x}
  Targets = {t}
  Main = Main
  None = None
  Trunk = None
  RequireBase = TRUE
  Range = 0
  Scores <- SignedScores
  Retries = 0
SPECIFICATION Spec
INVARIANT MainIsClean
