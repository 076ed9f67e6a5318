SPECIFICATION Spec
CONSTANTS
  p1 = p1
  p2 = p2
  Procs = {p1, p2}
  MaxBuilds = 4
  MaxTroubles = 1
  MaxRemovals = 1
SYMMETRY Symmetric
INVARIANTS AliasWhole StaysUsable StaleTold
CHECK_DEADLOCK FALSE
