SPECIFICATION Spec
CONSTANTS
  Procs = {p1, p2}
  Fingerprints = {f1, f2}
  None = None
SYMMETRY Symmetry
INVARIANTS
  TypeOK
  QuietScanSettles
