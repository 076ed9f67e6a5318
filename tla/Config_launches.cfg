SPECIFICATION CSpec
CONSTANTS
  p1 = p1
  p2 = p2
  Procs = {p1, p2}
  Worlds <- MCWorlds
  Versions = {"v1", "v2"}
  CommandLines <- MCCommandLines
  MaxEvents = 3
INVARIANTS ChosenByUser UsersOwn OnlyApproved
CHECK_DEADLOCK FALSE
