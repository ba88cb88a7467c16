CONSTANTS
  t1 = t1
  t2 = t2
  t3 = t3
  t4 = t4
  a1 = a1
  a2 = a2
  Tasks = {t1, t2, t3}
  DepChoices <- NoDeps
  Agents = {a1}
  Slots = {s1, s2}
  NoCall = NoCall
  NoTask = NoTask
  NoAgent = NoAgent
  MaxResumes = 0
  MaxConcurrent = 2
  MaxSubmitters = 1
  MaxRetries = 1
  Verified = {t1}
  Matches <- AllMatch
  Plan <- T3Plan
  Managed = {}
SPECIFICATION FairSpec
PROPERTIES
  PlannedParentResolves
CHECK_DEADLOCK FALSE
