SPECIFICATION Spec
CONSTANTS
  a = a
  b = b
  c = c
  p1 = p1
  p2 = p2
  NoOne = NoOne
  Thread = {a, b, c}
  Process = {p1, p2}
  Key = {"k1"}
  HostOf <- TwoAndOne
  KeyLocks = TRUE
  KeyTimeout = FALSE
  Slots = 2
  MaxTokens = 2
  Estimate = 1
  Usage = {1}
  MaxCalls = 3
INVARIANTS OneSenderPerKey
CHECK_DEADLOCK FALSE
