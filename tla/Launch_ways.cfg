SPECIFICATION Spec
CONSTANTS
  Hosts <- MCHosts
  MaxLaunches = 3
  MaxTroubles = 3
INVARIANTS FailClosed RightWorkspace IsolationKept
CHECK_DEADLOCK FALSE
