SPECIFICATION ESpec
CONSTANTS
  Bridge = "bridge"
  Private = {"nas"}
  Meta = {"meta"}
  Public = {"pub", "resolver"}
  Configs <- MCConfigs
  Mixed <- MCMixed
  Entries <- MCEntries
  Callers = {c1, c2}
  MaxStarts = 2
  MaxCommands = 2
SYMMETRY MCSymmetry
INVARIANTS  BoundaryHeld StaysShut
CHECK_DEADLOCK FALSE
