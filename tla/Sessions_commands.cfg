CONSTANTS
  p1 = p1
  p2 = p2
  p3 = p3
  Procs = {p1, p2}
  NumSlots = 2
  Ways <- MCWays
  Modes = {"yes", "unset"}
  Troubles = {"attach", "kill", "clean", "persist", "pull", "incus", "launch", "restore", "crash"}
  Streak = 3
  Enqueued = 2
SPECIFICATION Spec
INVARIANTS SlotsExclusive
PROPERTIES PowerOffDeletes ShellHarmless 
CHECK_DEADLOCK FALSE
