----------------------------- MODULE MCFirewall -----------------------------
(* The worlds of Firewall for TLC.  Container names are interchangeable: the  *)
(* worlds are closed under exchanging them.                                   *)
EXTENDS Firewall, TLC

\* Ephemeral coi shell sessions that share one address, with crashes and coi kill,
\* or with guests powering off and coi clean --orphans.
Shells ==
  {[flow |-> "shell", modes |-> {"open", "allowlist"}, pool |-> {CHOOSE a \in IPs : TRUE},
    persistent |-> {}, reentered |-> {}, faults |-> {}, commands |-> {"crash", "kill"},
    maxStarts |-> 2]}

Sweeps ==
  {[flow |-> "shell", modes |-> {"open", "allowlist"}, pool |-> {CHOOSE a \in IPs : TRUE},
    persistent |-> {}, reentered |-> {}, faults |-> {"poweroff"},
    commands |-> {"crash", "orphans"}, maxStarts |-> 2]}

\* A persistent container restarted or entered again beside an ephemeral one,
\* with guests powering off and coi clean: every failing step of the setup, or
\* one more start.
Keeping(f, n) ==
  {[flow |-> "shell", modes |-> {"open", "restricted"}, pool |-> {CHOOSE a \in IPs : TRUE},
    persistent |-> {c}, reentered |-> {c}, faults |-> f, commands |-> {"clean"},
    maxStarts |-> n] : c \in Containers}

Kept ==
  Keeping({"boot", "address", "ip6", "hosts", "apply", "poweroff"}, 2)
    \cup Keeping({"address", "apply", "poweroff"}, 3)

\* coi run in all three modes, with two addresses.
Runs ==
  {[flow |-> "run", modes |-> {"open", "restricted", "allowlist"}, pool |-> IPs,
    persistent |-> {}, reentered |-> {}, faults |-> {"boot"}, commands |-> {},
    maxStarts |-> 4]}

MCWorlds == Shells \cup Sweeps \cup Kept \cup Runs

Symmetry == Permutations(Containers)

=============================================================================
