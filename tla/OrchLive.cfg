CONSTANTS
  t1 = t1
  t2 = t2
  t3 = t3
  t4 = t4
  a1 = a1
  a2 = a2
  Tasks = {t1, t2, t3, t4}
  DepChoices <- PlanDeps
  Agents = {a1}
  Slots = {s1, s2}
  NoCall = NoCall
  NoTask = NoTask
  NoAgent = NoAgent
  MaxResumes = 0
  MaxConcurrent = 2
  MaxSubmitters = 1
  MaxRetries = 1
  Verified = {t3}
  Matches <- AllMatch
  Plan <- T4Plan
  Managed = {}
SPECIFICATION FairSpec
INVARIANTS
  AcceptedAcyclic
PROPERTIES
  QueuedSettles
CHECK_DEADLOCK FALSE
