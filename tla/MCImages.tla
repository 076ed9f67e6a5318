------------------------------ MODULE MCImages -------------------------------
EXTENDS Images, TLC

CONSTANTS p1, p2
Symmetric == Permutations(Procs)
=============================================================================
