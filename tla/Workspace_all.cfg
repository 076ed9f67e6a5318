SPECIFICATION MCSpec
CONSTANTS
  Procs = {p1, p2}
  Conts = {c1, c2}
  MaxCommands = 3
  MaxTroubles = 1
  Workspaces <- MCWorkspaces
  MaxReuses = 2
  MaxEdits = 2
  MaxFailures = 1
  Shells = {p1, p2}
  Boxes = {c1, c2}
  Numbers <- MCNumbers
  Wishes <- MCWishes
  MaxLaunches = 3
  MaxChanges = 1
  Users = {p1, p2}
  Insts = {c1, c2}
  SnapNames = {n1, n2}
  MaxRequests = 3
  MaxWork = 1
  MaxRuns = 2
  MaxMishaps = 1
  Setups = {p1, p2}
  Files <- MCFiles
  Given <- MCGiven
  Mine <- MCMine
  MaxSetups = 3
  MaxSlips = 1
SYMMETRY MCSymmetry
INVARIANTS Recorded LocksHeld Covered NeverWedged Truthful Reconciled
PROPERTIES OnlyAsked
CHECK_DEADLOCK FALSE
