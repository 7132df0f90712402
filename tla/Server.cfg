SPECIFICATION MCSpec
CONSTANTS
  a = a
  b = b
  c = c
  d = d
  e = e
  Nodes <- MCNodes
  Edges <- MCEdges
  Source <- MCSource
  Target <- MCTarget
  Confidence <- MCConfidence
  Asked <- MCAsked
  DepthOptions = {0, 2}
  MinOptions = {"", "definite"}
  DefaultDepth = 3
  MaxChanges = 2
  None = None
  Count = 3
  KindsOf <- MCKinds
  AskedOf <- MCCalls
  MaxRows = 2
CHECK_DEADLOCK FALSE
INVARIANTS
  TypeOK
  FoundIsPath
  SteadyPathFound
  AnswersInOrder
PROPERTIES
  SearchTerminates
  EveryCallAnswered
