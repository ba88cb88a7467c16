CONSTANTS
  x = x
  c1 = c1
  c2 = c2
  r1 = r1
  r2 = r2
  Clients = {c1, c2}
  Owners = {x}
  UserOf <- MCUserOf
  Workers = {w1}
  MaxBroadcasts = 1
  MaxSweeps = 1
  Callers = {r1, r2}
  Nobody = Nobody
  Threshold = 2
  Keep = 1
  MaxMessages = 3
  MaxCrashes = 1
  MaxFailures = 1
  Requesters = {r1, r2}
  MaxRequests = 3
  MaxNotices = 2
  Users = {u1, u2, u3}
  Scalers = {c1, c2}
  MinSize = 2
  MaxSize = 3
  TargetSize = 1
  MaxCreated = 4
  Takers = {u1, u2}
  Resizers = {r1, r2}
  PoolMin = 1
  PoolMax = 2
  MaxMade = 4
  g1 = g1
  g2 = g2
  own = own
  shared = shared
  v1 = v1
  v2 = v2
  v3 = v3
  Clerks = {g1, g2}
  KeysOf <- MCKeysOf
  Contents = {v1, v2, v3}
  Absent = Absent
  Unencodable = {v3}
  Bytes <- MCBytes
  HotBytes = 2
  n1 = n1
  n2 = n2
  n3 = n3
  n4 = n4
  n5 = n5
  NodeIds = {n1, n2, n3, n4, n5}
  StartGraphs <- MCStartGraphs
  Depths = {2, 4}
  NodeLimits = {0, 2}
  MaxDeletions = 1
  None = None
SYMMETRY MCSymmetry
SPECIFICATION Spec
INVARIANTS
  OneUserPerAgent
  PoolCountsHold
  OnePlace
  HubTablesHold
  ConversationWhole
  AckedDurable
  AnswersAreOwn
  OwnKeysAreAMap
  HotWithinLimit
  WalksAreExact
  StructureIsFound
PROPERTIES
  StoppedOnlyInWindow
CHECK_DEADLOCK FALSE
