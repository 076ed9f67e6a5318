----------------------------- MODULE MCNameSync -----------------------------
(* Instances of NameSync for TLC: two names on different ports; one process   *)
(* with two addresses, or two of them, side by side, with one.                *)
EXTENDS NameSync, TLC

CONSTANTS n1, n2

NamePort == n1 :> 443 @@ n2 :> 22

Crowded == Cardinality({s \in Sessions : Active(s)} \cup writer \cup outdated) > 1
Met == addrs \cup UNION {saved[d] \cup file[d] : d \in Names}
       \cup UNION {sess[s].seen \cup sess[s].found[d] : s \in Sessions, d \in Names}

MCNext == NNext /\ (Crowded' => Cardinality(Met') <= 1)
MCSpec == NInit /\ [][MCNext]_nvars

Symmetry == Permutations(Sessions) \cup Permutations(Addrs)

=============================================================================
