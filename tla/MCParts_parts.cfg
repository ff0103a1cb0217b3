SPECIFICATION PartsSpec
CHECK_DEADLOCK FALSE
CONSTANTS
  None = None
  n1 = n1
  n2 = n2
  twice = twice
  item = item
  map = map
  Producer = {n1, n2, twice, item, map}
  Output = {"a", "alias", "b", "c"}
  Place = {P, Q, R}
  PlaceOf <- MCPlaceOf
  Declares <- MCDeclares
  ItemsOf <- MCItemsOf
  MaxFaults = 2
  P = P
  Q = Q
  R = R
  Older = Older
  NoFile = NoFile
  Process = {p1, p2}
  Key = {theKey}
  Blob = {b1, b2}
  Nil = Nil
  KeepLast = 1
  Alone = FALSE
  MaxJobs = 2
  MaxGC = 1
  p1 = p1
  p2 = p2
  theKey = theKey
  b1 = b1
  b2 = b2
  Client = {c1, c2, c3}
  MaxSlots = 2
  MinSlots = 1
  Ramp = 2
  MaxAttempts = 2
  InitialDelay = 1
  Multiplier = 2
  MaxDelay = 1
  RetryAfter = {0, 2}
  Fractions = {4}
  MaxTime = 2
  MaxCrashes = 1
  Version = {0, 1}
  Nothing = Nothing
  MaxReads = 3
  MaxChanges = 3
  Dir = {"root", "skill", "deep"}
  CapsuleFile = {"agent.toml", "a", "b", "c", "d"}
  Content <- MCContent
  Resources <- MCResources
  Skill = {"skill", "deep"}
  Missing = Missing
  MaxRevisions = 2
  Outer = {"a", "b"}
  Namespace = {"m", "n"}
  Local = {"x", "y"}
  Port = {"p"}
  Target = "x"
  Called <- MCCalled
  Each <- MCEach
  DepLists <- MCDepLists
  LocalDeps <- MCLocalDeps
  Sources <- MCSources
  Projected <- MCProjected
  NoName = NoName
  MaxTaken = 3
SYMMETRY Symmetry
INVARIANTS PublishedKept SettledKept WholeVersion ReplacedReadable SkillWhole MountedAlike DepsHeeded FreshWithinCapacity AskedFor
PROPERTIES AllOrNothing CapacityCounted
