----------------------------- MODULE MCSessions -----------------------------
EXTENDS Sessions

CONSTANTS p1, p2, p3

\* The processes are alike: it is enough that one of them may start in a way.
MCWays == [p \in Procs |->
  IF p = p2 THEN {"slot", "resume", "run"} ELSE {"auto"}]
=============================================================================
