SPECIFICATION MCSpec
CONSTANTS
  a = a
  b = b
  c = c
  d = d
  e = e
  Nodes <- MCNodes
  Edges <- MCEdges
  Source <- MCSource
  Target <- MCTarget
  Confidence <- MCConfidence
  TypeOf <- MCType
  NodeSets <- MCNodeSets
  Asked <- MCAsked
  DepthOptions = {0, 2}
  LimitOptions = {0, 1}
  MinOptions = {"", "possible"}
  DefaultDepth = 3
  DefaultLimit = 2
  MaxChanges = 1
  None = None
  QueryChanges = 1
  QueryNodes <- QNodes
  QueryEdges <- QEdges
  QuerySource <- QSource
  QueryTarget <- QTarget
  QueryConfidence <- QConfidence
  Order <- QOrder
  QueryType <- QTypes
  NameOf <- QName
  PlaceOf <- QPlace
  Internet = "internet"
  CrossAccount = {5}
  ReachableFrom = {6, 8}
  PrivilegeEdges = {1, 2, 4}
  Graphs <- QGraphs
  Commands <- QCommands
  ToolCalls <- QToolCalls
CHECK_DEADLOCK FALSE
INVARIANTS
  TypeOK
  OutIsAnswers
  OutInOrder
  SteadyPathsFound
  ReachIsListed
  RankingIsEarned
