SPECIFICATION SerialSpec
CONSTANTS
  Procs = {p1}
  Accounts = {"a1", "a2"}
  Regions = {"r1", "r2"}
  InUse <- MultiInUse
  Nodes <- MultiNodes
  Edges <- MultiEdges
  Derived <- MultiDerived
  Describe <- MultiDescribe
  Connects <- MultiConnects
  NodeEmitters <- MultiEmitters
  Supports <- MultiSupports
  PassOf <- MultiPass
  Internet = "internet"
  None = None
  MaxSnapshots = 2
  MaxChanges = 1
CHECK_DEADLOCK FALSE
INVARIANTS
  NodesReconciled
  ForceRebuilds
