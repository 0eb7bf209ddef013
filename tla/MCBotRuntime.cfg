SPECIFICATION Spec
CONSTANTS
  Notes = {v1, v2}
  Texts = {m1}
  MaxRuns = 2
SYMMETRY Alike
INVARIANTS  RestoredWhole
CHECK_DEADLOCK FALSE
