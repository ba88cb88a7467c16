CONSTANTS
  ChatCallers = {g1}
  Prompts = {p1, p2, p3}
  KeyOf <- MCKeyOf
  CacheSize = 2
  Ttl = 5
  MaxAttempts = 1
  MaxTime = 4
SPECIFICATION CacheSpec
PROPERTIES
  EvictsLeastRecentlyUsed
CHECK_DEADLOCK FALSE
