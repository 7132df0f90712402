----------------------------- MODULE MCFindings -----------------------------
EXTENDS FindingsRefinement, TLC
Symmetry == Permutations(Procs) \cup Permutations(Fingerprints)
=============================================================================
