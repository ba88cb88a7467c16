CONSTANTS
  Agents = {a1}
  Slots = {s1, s2, s3}
  NoCall = NoCall
  MaxResumes = 2
  BufferSize = 3
  MaxAdded = 5
  agent = agent
  task = task
  c1 = c1
  Streams = {c1, c2}
  TopicOf <- MCTopicOf
  AgentTopics = {agent}
  Broken = {2}
  MaxChanges = 3
  Clients = {h1, h2}
  RecordIds = {r1}
  MaxWrites = 2
  Nobody = Nobody
  Callers = {k1, k2}
  Instances = {i1}
  Processes = {p1}
  NoOne = NoOne
  east = east
  west = west
  lint = lint
  go = go
  tag = tag
  Registries = {east, west}
  Skills = {lint}
  LocalSkills <- MCLocalSkills
  KeysOf <- MCKeysOf
  Blank = Blank
  PageSize = 1
SPECIFICATION Spec
INVARIANTS
  AgentAccountsHold
  ChangesAreWhole
PROPERTIES
  TerminatedForever
  AddedGoesOutWhileArmed
  StreamsEnd
  EditsAreLoaded
  EveryRequestAnswered
  LoaderCallsReturn
  DiscoveryEnds
CHECK_DEADLOCK FALSE
