CONSTANTS
  Named = {n1, n2}
  Decisions = {d1}
  Weights = {1, 3}
  EdgeIds = {i1, i2, i3}
  None = None
  Parts = {p1, p2}
  CheckpointIds = {s1}
  NoFile = NoFile
  Partial = Partial
  MaxUpdates = 2
  MaxObjects = 2
  MaxNodes = 3
  Missing = 4
  MaxAdditions = 1
  MaxTasks = 2
  MaxParts = 2
  MaxDepth = 5
  HttpRequests = {q1, q2}
  Addresses = {host}
  Limiters = {l1, l2}
  NoLimiter = NoLimiter
  BurstSize = 2
  Users = {u1, u2}
  SessionIds = {t1, t2, t3, t4}
  MaxSessionsPerUser = 2
  Callers = {k1, k2}
  Instances = {m1, m2}
  Processes = {x1, x2}
  NoOne = NoOne
SPECIFICATION Spec
SYMMETRY MCSymmetry
INVARIANTS
  EdgesHaveEnds
  PathsAreShortest
  CheckpointsAreMoments
  SchedulesFollowDependencies
  PlanIsOrdered
  BurstUntilCleanup
  UserSessionsHold
  ProcessIsReachable
CHECK_DEADLOCK FALSE
