------------------------------ MODULE MCWorkspace ------------------------------
(***************************************************************************)
(* Five parts of a session that share no state (Locks, Protection, Ports,  *)
(* Snapshots, Context) in one run: part says which of them moves.          *)
(***************************************************************************)
EXTENDS Locks, Protection, Ports, Snapshots, Context, TLC

VARIABLE part

\* A repository of its own with every kind of entry, and a worktree that
\* points to one elsewhere and whose secret is a link.
MCEmpty == [e \in Nodes |-> IF e = "data" THEN "file" ELSE "none"]
MCWorkspaces == {
  [MCEmpty EXCEPT !.git = "dir", !.hooks = "dir", !.env = "file", !.claude = "dir", !.extra = "file"],
  [MCEmpty EXCEPT !.git = "file", !.common = "dir", !.env = "inner"]}

\* Nothing, a pool and a named port, and a pool with a port pinned in it.
MCNumbers == <<1, 2>>
MCWish(pool, free, pin) == [pool |-> pool, auto |-> free, pin |-> pin]
MCWishes == {MCWish(0, FALSE, 0), MCWish(1, TRUE, 0), MCWish(1, FALSE, 2)}

\* No file, the host's, and what old versions and an interrupted session left.
MCHost == <<"host", 0>>
MCGiven == {MCHost}
MCMine == {<<"mine", 1>>}
MCText(lines) == [lines |-> lines, kept |-> {MCHost} \cap {lines[1]}]
MCFiles ==
  LET old == Rendered(0) IN
  {[lines |-> <<>>, kept |-> {}]} \cup
  {MCText(lines) : lines \in {
     <<MCHost>>, <<old, Separator, old>>, <<MCHost, Separator, old, Separator, old>>,
     <<old, MCHost>>, <<MCHost, Separator, old, BeginMark, old, EndMark>>,
     <<MCHost, BeginMark, old>>}}

\* The commands and the containers are the same of all parts.
MCSymmetry == Permutations(Procs) \cup Permutations(Conts)

\* The parts that stand still start from one of their states.
MCInit ==
  /\ Init /\ PInit /\ RInit /\ SInit /\ XInit
  /\ part \in {"locks", "protection", "ports", "snapshots", "context"}
  /\ part # "protection" => fs = CHOOSE w \in Workspaces : TRUE
  /\ part # "ports" => wish = [b \in Boxes |-> CHOOSE w \in Wishes : TRUE]
  /\ part # "context" => auto = <<>>

MCNext ==
  \/ part = "locks" /\ Next /\ UNCHANGED <<pvars, rvars, svars, xvars, part>>
  \/ part = "protection" /\ PNext /\ UNCHANGED <<vars, rvars, svars, xvars, part>>
  \/ part = "ports" /\ RNext /\ UNCHANGED <<vars, pvars, svars, xvars, part>>
  \/ part = "snapshots" /\ SNext /\ UNCHANGED <<vars, pvars, rvars, xvars, part>>
  \/ part = "context" /\ XNext /\ UNCHANGED <<vars, pvars, rvars, svars, part>>

MCSpec == MCInit /\ [][MCNext]_<<vars, pvars, rvars, svars, xvars, part>>
=============================================================================
