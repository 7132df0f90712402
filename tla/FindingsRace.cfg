SPECIFICATION Spec
CONSTANTS
  Procs = {p1, p2}
  Fingerprints = {f1}
  None = None
PROPERTIES
  UpsertKeepsSuppressed
