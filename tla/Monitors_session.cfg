CONSTANTS
  Confs <- MCConfs
  Levels = {"high", "critical"}
  Troubles = {"audit", "incus", "address"}
SPECIFICATION FairSpec
INVARIANTS RunningIsFenced BeliefsHold
PROPERTIES CriticalKills LimitEnforced TeardownEnds
CHECK_DEADLOCK FALSE
