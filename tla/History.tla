------------------------------ MODULE History -------------------------------
(***************************************************************************)
(* What coi promises about the history of its sessions, without slots,     *)
(* containers or commands.  A piece of history is made in a container,     *)
(* where it is live; saving makes it safe; it may be gone only when that   *)
(* was ordered or announced.  Sessions implements this module.             *)
(***************************************************************************)
CONSTANT Pieces

VARIABLES
  where,  \* [Pieces -> "none", "live", "safe" or "gone"]
  waived  \* the pieces that may go: ordered, announced, or never promised

Init ==
  /\ where = [t \in Pieces |-> "none"]
  /\ waived = {}

\* A piece is made where it is live; a save, or the removal of a safe copy
\* of what is still live, moves it; only what was waived may get lost.
Make(t) == where[t] = "none" /\ where'[t] = "live"
Move(t) == {where[t], where'[t]} \subseteq {"live", "safe"}
Lose(t) == where[t] \in {"live", "safe"} /\ where'[t] = "gone" /\ t \in waived'

\* One request may touch several pieces.
Next ==
  /\ waived \subseteq waived'
  /\ where' \in [Pieces -> {"none", "live", "safe", "gone"}]
  /\ \A t \in Pieces :
       where'[t] = where[t] \/ Make(t) \/ Move(t) \/ Lose(t)

Spec == Init /\ [][Next]_<<where, waived>>
=============================================================================
