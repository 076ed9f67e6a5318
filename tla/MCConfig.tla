------------------------------ MODULE MCConfig ------------------------------
EXTENDS Config

CONSTANTS p1, p2

File(sets, mount, pool, web) ==
  [sets |-> sets, mount |-> mount, pool |-> pool, web |-> web,
   inherits |-> None, profile |-> None]

World(d, h, r, i, j) ==
  [s \in Sources |->
     CASE s = "user" -> [File({"guard", "name"}, "v1", 1, FALSE) EXCEPT !.profile = d]
       [] s = "env" -> File({"image"}, None, 0, FALSE)
       [] s = "cwd" -> File(Settings, "v1", 2, TRUE)
       [] s = "there" -> File({"image", "guard"}, "v1", 3, FALSE)
       [] s = "home" -> [File(Settings, None, h, h > 0) EXCEPT !.inherits = i]
       [] s = "repo" -> [File({"guard"}, None, r, FALSE) EXCEPT !.inherits = j]]

\* The profiles inherit from each other or the built-in one and bring ports of
\* their own or not, and one of them may be the default profile.
MCWorlds ==
  {World(None, h, 5, None, j) : h \in {0, 4}, j \in {None, "home", "default"}}
  \cup {World("home", 4, r, i, None) : r \in {0, 5}, i \in {"repo", "default"}}

MCCommandLines == [p \in Procs |->
  {w \in [cmd : {"shell", "run", "trust", "untrust"},
          profile : {None, "home", "repo", "default"}, at : {"cwd", "there"},
          alias : {None, "cwd", "there"}, resume : BOOLEAN] :
     /\ w.alias # None => w.cmd = "shell" /\ w.at = "there"
     /\ w.resume => w.cmd = "shell" /\ w.profile = None
     /\ w.cmd \in {"trust", "untrust"} => w.profile \in {None, "repo"}
     /\ p = p2 => w.cmd \in {"trust", "untrust"} /\ w.at = "cwd" /\ w.profile = None}]
=============================================================================
