CONSTANTS
  n1 = n1
  n2 = n2
  a1 = a1
  a2 = a2
  s1 = s1
  Sessions = {s1}
  Names = {n1, n2}
  Addrs = {a1, a2}
  Persistent = TRUE
  Ways = {"create", "restart", "reenter"}
  Faults = {"nft", "hosts", "save", "load", "crash"}
  Port <- NamePort
SPECIFICATION NSpec
INVARIANTS Lockstep
PROPERTY NamesKept
CHECK_DEADLOCK FALSE
