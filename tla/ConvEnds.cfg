CONSTANTS
  Convs = {c1, c2}
  Absent = Absent
  Embedded = FALSE
  MaxTurns = 1
SPECIFICATION BudgetSpec
PROPERTIES CallAnswered
