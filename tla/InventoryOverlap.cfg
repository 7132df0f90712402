SPECIFICATION Spec
CONSTANTS
  Procs = {p1, p2}
  Accounts = {"a1"}
  Regions = {"r1", "r2"}
  InUse <- PairInUse
  Nodes <- PairNodes
  Edges <- PairEdges
  Derived <- PairDerived
  Describe <- PairDescribe
  Connects <- PairConnects
  NodeEmitters <- PairEmitters
  Supports <- PairSupports
  PassOf <- PairPass
  Internet = "internet"
  None = None
  MaxSnapshots = 2
  MaxChanges = 0
CHECK_DEADLOCK FALSE
PROPERTIES
  PruneSparesObserved
