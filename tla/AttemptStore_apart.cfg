SPECIFICATION Spec
SYMMETRY SymStores
CONSTANTS
  t1 = t1
  t2 = t2
  t3 = t3
  e1 = e1
  e2 = e2
  e3 = e3
  p1 = p1
  p2 = p2
  NoOne = NoOne
  Target = {t1}
  Executor = {e1, e2, e3}
  Process = {p1, p2}
  HostOf <- Several
  Deps <- Loose
  Workers = 1
  MaxAttempts = 2
  LastAttempt = 2
  Fault = {"artifact"}
INVARIANTS LeaseExclusive CrossedOnce LedgerSound CompletedRunDone
PROPERTIES OwnerRules LifecycleSpec
CHECK_DEADLOCK FALSE
