SPECIFICATION Spec
SYMMETRY Symmetry
CHECK_DEADLOCK FALSE
CONSTANTS
  Run = {r1, r2}
  r1 = r1
  r2 = r2
  Node = {"list", "scan", "sum"}
  Item = {"i", "j"}
  Fn = {"f"}
  File = {"p", "q"}
  Content = {0, 1}
  None = None
  Order <- MCOrder
  FnOf <- MCFnOf
  Deps <- MCDeps
  ItemsFrom <- MCItemsFrom
  Scan = {"scan"}
  Entries <- MCEntries
  Files <- MCFiles
  ItemFiles <- MCItemFiles
  Returns <- MCReturns
  Consumes <- MCConsumes
  View <- MCView
  CarryOf <- MCCarryOf
  Aggregate <- MCAggregate
  Policy <- MCPolicy
  Gated = {"sum"}
  Forcible = {}
  MaxEdits = 1
  MaxCrashes = 0
  MaxTogether = 1
  LiveEdits = TRUE
INVARIANTS NothingStale
