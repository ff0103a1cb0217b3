SPECIFICATION UndisturbedSpec
SYMMETRY SymTargets
CONSTANTS
  t1 = t1
  t2 = t2
  t3 = t3
  e1 = e1
  e2 = e2
  e3 = e3
  p1 = p1
  p2 = p2
  NoOne = NoOne
  Target = {t1, t2}
  Executor = {e1}
  Process = {p1}
  HostOf <- Alone
  Deps <- Loose
  Workers = 2
  MaxAttempts = 1
  LastAttempt = 1
  Fault = {}
INVARIANTS ErrorsExplained
CHECK_DEADLOCK FALSE
