CONSTANTS
  t1 = t1
  t2 = t2
  t3 = t3
  t4 = t4
  a1 = a1
  a2 = a2
  Tasks = {t1, t2}
  DepChoices <- PairDeps
  Agents = {a1, a2}
  Slots = {s1, s2}
  NoCall = NoCall
  NoTask = NoTask
  NoAgent = NoAgent
  MaxResumes = 1
  MaxConcurrent = 2
  MaxSubmitters = 2
  MaxRetries = 1
  Verified = {t1}
  Matches <- OnlyFirst
  Plan <- NoPlan
  Managed = {a1}
SPECIFICATION Spec
SYMMETRY SlotSymmetry
INVARIANTS
  SingleDispatch
  LoadIsExact
PROPERTIES
  ImplementsLifecycle
CHECK_DEADLOCK FALSE
