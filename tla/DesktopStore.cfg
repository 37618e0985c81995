CONSTANTS
  p1 = p1
  p2 = p2
  c1 = c1
  c2 = c2
  Projects = {p1, p2}
  Convs = {c1, c2}
  ProjectOf <- Apart
  Calls = {k1, k2}
  Boot = Boot
  None = None
SPECIFICATION Spec
SYMMETRY Symmetry
INVARIANTS SelectedTogether SentWhereSelected ShownWhereSaid SpinnersAreTrue
CHECK_DEADLOCK FALSE
