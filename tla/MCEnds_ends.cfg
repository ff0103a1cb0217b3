SPECIFICATION EndsSpec
CONSTANTS
  None = None
  NoOne = NoOne
  File = {f}
  Published = {f}
  Fatal = {"model"}
  MaxTurns = 1
  MaxRecords = 4
  t1 = t1
  e1 = e1
  p1 = p1
  a = a
  b = b
  Thread = {a, b}
  Process = {p1}
  Key = {"k1", "k2"}
  HostOf <- MCHostOf
  KeyLocks = TRUE
  KeyTimeout = FALSE
  Slots = 1
  MaxTokens = 3
  Estimate = 1
  Usage = {1, 2}
  MaxCalls = 3
INVARIANTS Delivered WellEnded BudgetKept
PROPERTIES AgentReturns RunningSettles CallReturns
CHECK_DEADLOCK FALSE
