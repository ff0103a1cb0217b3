SPECIFICATION FairSpec
CONSTANTS
  A = A
  B = B
  C = C
  M = M
  S = S
  i1 = i1
  i2 = i2
  k1 = k1
  k2 = k2
  NoOne = NoOne
  Node = {A, B, C, M, S}
  Item = {i1, i2, k1, k2}
  Order <- MixOrder
  Deps <- MixDeps
  Dynamic = {M, S}
  Scan = {S}
  Entries <- MixEntries
  Pool = {"api", "gpu"}
  Declared <- MixDeclared
  Needs <- MixNeeds
  Rank <- ByName
  Limit <- MixLimit
  Workers = 3
  Restricted = TRUE
  Outcome = {"success", "pending", "failed", "exceeded"}
INVARIANTS PermitsConserved AllAccounted ItemsSound
PROPERTIES RunEnds
CHECK_DEADLOCK FALSE
