CONSTANTS
  x = x
  Clients = {c1}
  Owners = {x}
  UserOf <- MCUserOf
  Workers = {w1}
  MaxBroadcasts = 1
  MaxSweeps = 1
  Callers = {g1, g2}
  Nobody = Nobody
  Threshold = 1
  Keep = 0
  MaxMessages = 2
  MaxCrashes = 0
  MaxFailures = 0
  Contexts = {k1, k2}
  MaxStarts = 2
SPECIFICATION FairSpec
PROPERTIES
  ClosedLeaves
  CallsReturn
  StopsCleanly
CHECK_DEADLOCK FALSE
