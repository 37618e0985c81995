CONSTANTS
  Convs = {c1, c2}
  Absent = Absent
  Embedded = TRUE
  MaxTurns = 2
SPECIFICATION Spec
SYMMETRY Symmetry
INVARIANTS RecordsAreTrue RepliesInTurn OutcomeIsDurable
PROPERTY KeepsContract
