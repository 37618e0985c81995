CONSTANTS
  Flows = {f1, f2}
  None = None
  MaxFaults = 2
  Tokens = {t1, t2}
  Callers = {c1, c2, c3}
SPECIFICATION PoolSpec
INVARIANT TokenIsTried
CHECK_DEADLOCK FALSE
