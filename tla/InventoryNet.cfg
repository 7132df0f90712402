SPECIFICATION SerialSpec
CONSTANTS
  Procs = {p1}
  Accounts = {"a1"}
  Regions = {"r1"}
  InUse <- NetInUse
  Nodes <- NetNodes
  Edges <- NetEdges
  Derived <- NetDerived
  Describe <- NetDescribe
  Connects <- NetConnects
  NodeEmitters <- NetEmitters
  Supports <- NetSupports
  PassOf <- NetPass
  Internet = "internet"
  None = None
  MaxSnapshots = 3
  MaxChanges = 1
CHECK_DEADLOCK FALSE
INVARIANTS
  EdgesReconciled
  DerivedCurrent
