------------------------------- MODULE Picking -------------------------------
(***************************************************************************)
(* What a deletion leaves of a list: rules of an nft chain, entries of a   *)
(* configuration.  SelectSeq says the same by recursion, about which       *)
(* nothing can be proved; here the elements are counted.                   *)
(***************************************************************************)
EXTENDS Integers, Sequences, FiniteSets

\* How many of the positions P are at or before i.
Rank(P, i) == Cardinality({j \in P : j <= i})

\* The elements of s at the positions P, in the order of s.
Pick(s, P) ==
  [n \in 1..Cardinality(P) |-> s[CHOOSE i \in P : Rank(P, i) = n]]
=============================================================================
