SPECIFICATION SerialSpec
CONSTANTS
  Procs = {p1, p2}
  Fingerprints = {f1, f2}
  None = None
INVARIANTS
  TablesAgree
PROPERTIES
  ImplementsLedger
  SuppressedStaysSuppressed
