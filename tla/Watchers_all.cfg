SPECIFICATION Spec
CONSTANTS
  Sessions <- MCSessions
  Names <- MCNames
  Destinations <- MCDestinations
  Large = 2
  Crowd = 4
  Spawn = 1
  Width = 4
  MaxIO = 6
  MaxProcesses = 5
  MaxRestarts = 1
  MaxBlips = 1
  Daemons = {d1, d2}
  Boxes = {A, B}
  Pairings <- MCPairings
  Addresses = {"10.0.0.5", "10.0.0.50"}
  Within <- MCWithin
  Allowed = {"web"}
  MaxLeases = 2
  MaxTroubles = 1
  MaxLines = 3
  MaxInodes = 2
  MaxFaults = 2
SYMMETRY Symmetry
INVARIANTS  AlarmsAreReal NothingMissed EachLineOnce
CHECK_DEADLOCK FALSE
