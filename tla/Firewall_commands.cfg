CONSTANTS
  c1 = c1
  c2 = c2
  a1 = a1
  a2 = a2
  Containers = {c1, c2}
  IPs = {a1, a2}
  NoIP = NoIP
  Worlds <- MCWorlds
SPECIFICATION Spec
SYMMETRY Symmetry
INVARIANTS PolicyExact BootWindowClosed NoLeftovers
CHECK_DEADLOCK FALSE
