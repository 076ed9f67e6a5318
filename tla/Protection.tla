------------------------------ MODULE Protection ------------------------------
(***************************************************************************)
(* The read-only mounts over the protected paths of a workspace, over the  *)
(* git directory that a worktree points to, and the masks of its secrets,  *)
(* set up again whenever a persistent container is reused                  *)
(* (session/security.go, worktree.go, secret_masks.go, and their callers   *)
(* in session/setup.go and cli/run.go).  One container and one command at  *)
(* a time; between any two steps the host may change the workspace, the    *)
(* agent what it can write, and the command may be killed.                 *)
(***************************************************************************)
EXTENDS Naturals, Sequences, FiniteSets, Picking

CONSTANTS Workspaces,   \* the workspaces to begin with
          MaxReuses, MaxEdits, MaxFailures

VARIABLES fs,     \* the workspace and the git directory outside it
          cont,   \* the container
          cmd,    \* the command that runs
          late,   \* entries changed since a command looked at them
          wedged, \* a start failed for a source that was long gone
          snap,   \* the devices in its snapshot
          reuses, edits, failures

pvars == <<fs, cont, cmd, late, wedged, snap, reuses, edits, failures>>

\* .git/hooks, .git/info/attributes, .claude/settings.json, a path the
\* user added, and .git/worktrees/w/config.worktree.
Listed == <<"hooks", "attributes", "settings", "extra">>
InGit == {"hooks", "attributes", "config.worktree"}
Protected == {Listed[i] : i \in DOMAIN Listed} \cup {"config.worktree"}

\* What has to be a directory for an entry to be there: the ones above it.
Above == [e \in {"git", "claude", "extra", "env", "data", "common"} |-> {}]
Below == [hooks |-> {"git"}, info |-> {"git"}, attributes |-> {"git", "info"},
          settings |-> {"claude"}, chooks |-> {"common"}]
Nodes == DOMAIN Above \cup DOMAIN Below \cup {"config.worktree"}
Over(e) == IF e \in DOMAIN Above THEN Above[e] ELSE IF e \in DOMAIN Below THEN Below[e] ELSE {"git"}

\* env is the secret; inner links to data, outer to a file elsewhere; a link
\* in place of a directory leads to one that has none of the entries.
Kinds(e) == IF e = "git" THEN {"none", "dir", "link", "file"}
            ELSE IF e \in {"info", "claude", "chooks"} THEN {"none", "dir", "link"}
            ELSE IF e \in {"hooks", "common"} THEN {"none", "dir"}
            ELSE IF e = "env" THEN {"none", "file", "inner", "outer"}
            ELSE IF e \in {"settings", "extra"} THEN {"none", "file", "link"}
            ELSE IF e = "data" THEN {"file"}
            ELSE {"none", "file"}

ASSUME PAssumption ==
  Workspaces \subseteq [Nodes -> {"none", "dir", "link", "file", "inner", "outer"}]

\* base: the git directory is mounted writable; by: who started it; told: its
\* command printed a warning.
NoCont == [st |-> "none", devs |-> {}, base |-> FALSE, by |-> "none", told |-> FALSE]
NoCmd == [pc |-> "idle", own |-> FALSE, layout |-> FALSE, todo |-> <<>>,
          told |-> FALSE, stuck |-> {}]

PInit ==
  /\ fs \in Workspaces
  /\ cont = NoCont /\ cmd = NoCmd
  /\ late = {} /\ wedged = FALSE /\ snap = {"none"}
  /\ reuses = 0 /\ edits = 0 /\ failures = 0

-----------------------------------------------------------------------------
Stage(pc) == cmd.pc = pc /\ UNCHANGED <<reuses, edits, snap>>
Plain == UNCHANGED <<failures, wedged>>
Failure == failures < MaxFailures /\ failures' = failures + 1 /\ UNCHANGED wedged
GoOn(pc) == cmd' = [cmd EXCEPT !.pc = pc]
Seen(es) == late' = late \ es

\* ResolveGitWorktree: the pointer leads to a git directory that points back.
Layout == fs.git = "file" /\ fs.common = "dir"
Broken == fs.git \in {"file", "link"} /\ ~Layout

\* StripGitProtectedPaths, and then ExpandGitWorktreeProtectedPaths.
ToProtect(layout) ==
  Pick(Listed, {i \in DOMAIN Listed : ~(layout /\ Listed[i] \in InGit)})
  \o (IF fs["config.worktree"] = "file" THEN <<"config.worktree">> ELSE <<>>)

\* A new container, or one that is stopped, is prepared; only a shell enters
\* one that runs, and it leaves the devices as they are.  own: a run that
\* fails removes the container it created.
Begin ==
  /\ cmd.pc = "idle" /\ reuses < MaxReuses /\ reuses' = reuses + 1
  /\ Plain /\ UNCHANGED <<fs, snap, edits>>
  /\ \/ /\ cont.st = "none"
        /\ cont' = [NoCont EXCEPT !.st = "stopped", !.base = Layout]
        /\ \E own \in BOOLEAN :
             cmd' = [NoCmd EXCEPT !.pc = "protect", !.own = own, !.layout = Layout,
                                  !.todo = ToProtect(Layout), !.told = Broken]
        /\ Seen({"config.worktree"})
     \/ /\ cont.st = "stopped"
        /\ cmd' = [NoCmd EXCEPT !.pc = "strip", !.layout = Layout, !.told = Broken]
        /\ UNCHANGED <<cont, late>>

\* As if a reused container kept its devices, as before #610.
Kept(devs, stuck) == devs
\* StripSecurityDevices: what cannot be removed, or even listed, stays.
Stripped(devs, stuck) == devs \cap stuck

Strips(stuck) ==
  /\ Stage("strip") /\ UNCHANGED fs
  /\ cont' = [cont EXCEPT !.devs = Stripped(@, stuck)]
  /\ cmd' = [cmd EXCEPT !.pc = "protect", !.todo = ToProtect(cmd.layout), !.stuck = stuck,
                        !.told = @ \/ stuck # {}]
  /\ Seen({"config.worktree"})
Strip == Strips({}) /\ Plain
StripFails == Failure /\ \E d \in cont.devs : Strips({d}) \/ Strips(cont.devs)

-----------------------------------------------------------------------------
(* SetupSecurityMounts, path by path.                                       *)

\* ensureProtectedExists: what may be created, and what keeps it from that.
\* As if no directory were created for a file.
OnlyBelow(p) == p \notin {"extra", "settings"}
Creatable(p) == p # "extra"
Parent(p) == IF p = "attributes" THEN "info" ELSE "claude"
Barred(p) == \/ fs[p] = "link"
             \/ fs[p] = "none" /\ p \in {"attributes", "settings"} /\ fs[Parent(p)] = "link"
Absent(p) == \/ p \in InGit /\ fs.git = "none"
             \/ fs[p] = "none" /\ ~Creatable(p)
             \/ fs[p] = "none" /\ p = "attributes" /\ fs.info = "none"
Indirect(p) == p \in InGit /\ fs.git \in {"link", "file"}

Result(p) == IF Indirect(p) THEN "indirect"
             ELSE IF Absent(p) THEN "absent"
             ELSE IF Barred(p) \/ p \in cont.devs THEN "refused" ELSE "mounted"

Made(p) == [e \in Nodes |->
  IF fs[e] # "none" THEN fs[e]
  ELSE IF e = p THEN IF p \in {"hooks", "chooks"} THEN "dir" ELSE "file"
  ELSE IF e = "claude" /\ p = "settings" THEN "dir" ELSE fs[e]]

Protects(p) == Stage("protect") /\ cmd.todo # <<>> /\ p = Head(cmd.todo) /\ Seen({p})

\* Skipped in silence, or with a warning; any other failure ends the list.
Skip(p) == /\ Protects(p) /\ Result(p) = "absent" /\ Plain
           /\ cmd' = [cmd EXCEPT !.todo = Tail(@)] /\ UNCHANGED <<fs, cont>>
Indirection(p) == /\ Protects(p) /\ Result(p) = "indirect" /\ Plain
                  /\ cmd' = [cmd EXCEPT !.todo = Tail(@), !.told = TRUE] /\ UNCHANGED <<fs, cont>>
GiveUp(p) == /\ Protects(p) /\ Result(p) = "refused" /\ Plain
             /\ cmd' = [cmd EXCEPT !.todo = <<>>, !.told = TRUE] /\ UNCHANGED <<fs, cont>>
Mount(p) == /\ Protects(p) /\ Result(p) = "mounted" /\ Plain
            /\ fs' = Made(p) /\ cont' = [cont EXCEPT !.devs = @ \cup {p}]
            /\ cmd' = [cmd EXCEPT !.todo = Tail(@)]
MountFails(p) == /\ Protects(p) /\ Result(p) = "mounted" /\ Failure
                 /\ fs' = Made(p) /\ cmd' = [cmd EXCEPT !.todo = <<>>, !.told = TRUE]
                 /\ UNCHANGED cont

\* SetupCommonDirProtection: a sink that is refused is only warned about.
Overlay == /\ Stage("protect") /\ cmd.todo = <<>> /\ Plain
           /\ Seen(IF cmd.layout THEN {"chooks"} ELSE {})
           /\ IF ~cmd.layout THEN GoOn("mask") /\ UNCHANGED <<fs, cont>>
              ELSE IF fs.common = "none" \/ fs.chooks = "link" \/ "chooks" \in cont.devs
              THEN cmd' = [cmd EXCEPT !.pc = "mask", !.told = TRUE] /\ UNCHANGED <<fs, cont>>
              ELSE /\ fs' = Made("chooks") /\ GoOn("mask")
                   /\ cont' = [cont EXCEPT !.devs = @ \cup {"chooks"}]
OverlayFails == /\ Stage("protect") /\ cmd.todo = <<>> /\ cmd.layout /\ Failure /\ Seen({"chooks"})
                /\ cmd' = [cmd EXCEPT !.pc = "mask", !.told = TRUE]
                /\ fs' = (IF fs.common = "none" \/ fs.chooks = "link" THEN fs ELSE Made("chooks")) /\ UNCHANGED cont

-----------------------------------------------------------------------------
(* SetupSecretMasks, which fails closed, and the start.                     *)

\* ExpandSecretPaths: the file that is read, if it is in the workspace.
Secrets == IF fs.env = "file" THEN {"env"} ELSE IF fs.env = "inner" THEN {"data"} ELSE {}
Skipped == fs.env = "outer"

\* What a command that fails leaves: the container as it is, but a run removes
\* the one it created.
Leaves == /\ cmd' = NoCmd
          /\ cont' = IF cmd.own THEN NoCont ELSE cont

Mask == /\ Stage("mask") /\ Plain /\ UNCHANGED fs /\ Seen({"env"})
        /\ IF Secrets \cap cont.devs # {} THEN Leaves
           ELSE /\ cont' = [cont EXCEPT !.devs = @ \cup Secrets]
                /\ cmd' = [cmd EXCEPT !.pc = "start", !.told = @ \/ Skipped]
MaskFails == Stage("mask") /\ Secrets # {} /\ Failure /\ UNCHANGED fs /\ Seen({"env"}) /\ Leaves

\* Incus refuses to start a container with a device whose source is missing;
\* a mask comes from a directory of coi.
Missing == {d \in cont.devs \ {"env", "data"} : fs[d] = "none"}
Startable == Missing = {} /\ ~(cont.base /\ fs.common = "none")

StartCont == /\ Stage("start") /\ Startable /\ Plain
             /\ cont' = [cont EXCEPT !.st = "running", !.by = "coi", !.told = cmd.told]
             /\ cmd' = NoCmd /\ UNCHANGED <<fs, late>>
\* The writable mounts below the read-only ones are not reconciled.
StartRefused == /\ Stage("start") /\ ~Startable /\ UNCHANGED <<fs, late, failures>>
                /\ wedged' = (wedged \/ Missing \ (late \cup cmd.stuck) # {})
                /\ Leaves
StartContFails == Stage("start") /\ Failure /\ Leaves /\ UNCHANGED <<fs, late>>

Cut == /\ cmd.pc # "idle" /\ Stage(cmd.pc) /\ Failure /\ cmd' = NoCmd /\ UNCHANGED <<fs, cont, late>>

-----------------------------------------------------------------------------
(* The container and the workspace between the commands.                    *)

Quiet == cmd.pc = "idle" /\ UNCHANGED <<fs, cmd, late, wedged, reuses, edits, failures>>

Stop == Quiet /\ cont.st = "running" /\ cont' = [cont EXCEPT !.st = "stopped"] /\ UNCHANGED snap
Discard == Quiet /\ cont.st = "stopped" /\ cont' = NoCont /\ snap' = {"none"}
\* coi container start takes the devices as they are.
ByHand == /\ Quiet /\ cont.st = "stopped" /\ Startable /\ UNCHANGED snap
          /\ cont' = [cont EXCEPT !.st = "running", !.by = "hand"]
\* coi snapshot: the devices are part of what is saved and restored.
TakeSnapshot == Quiet /\ cont.st # "none" /\ snap = {"none"} /\ snap' = cont.devs /\ UNCHANGED cont
RevertDevices == /\ Quiet /\ cont.st = "stopped" /\ snap # {"none"}
                 /\ cont' = [cont EXCEPT !.devs = snap] /\ UNCHANGED snap

\* An entry becomes something else, and all that is below it disappears.
Becomes(e, k) ==
  /\ edits < MaxEdits /\ edits' = edits + 1
  /\ k \in Kinds(e) \ {fs[e]} /\ \A d \in Over(e) : fs[d] = "dir"
  /\ fs' = [x \in Nodes |-> IF x = e THEN k ELSE IF e \in Over(x) THEN "none" ELSE fs[x]]
  /\ late' = late \cup {x \in Nodes : x = e \/ e \in Over(x) \/ (e = "git" /\ x = "chooks")}
  /\ UNCHANGED <<cont, cmd, wedged, snap, reuses, failures>>
HostEdit == \E e \in Nodes : \E k \in Kinds(e) : Becomes(e, k)

PNext == \/ Begin
         \/ Strip \/ StripFails
         \/ \E p \in Protected : Skip(p) \/ Indirection(p) \/ GiveUp(p) \/ Mount(p) \/ MountFails(p)
         \/ Overlay \/ OverlayFails \/ Mask \/ MaskFails
         \/ StartCont \/ StartRefused \/ StartContFails \/ Cut
         \/ Stop \/ Discard \/ ByHand \/ TakeSnapshot \/ RevertDevices \/ HostEdit

-----------------------------------------------------------------------------
(* Properties.                                                              *)

\* A protected path that is there, or that could have been created.
Expected(p) ==
  IF p = "chooks" THEN Layout
  ELSE IF p \in InGit /\ fs.git # "dir" THEN FALSE
  ELSE IF p = "config.worktree" THEN fs[p] = "file"
  ELSE IF p = "attributes" THEN fs.info = "dir" \/ fs[p] # "none"
  ELSE p \in {"hooks", "settings"} \/ fs[p] # "none"

\* In a container that a command of coi started, every protected path and
\* every secret of the workspace as it was then is covered by a read-only
\* device, unless a path has changed since or the command printed a warning;
\* a secret is never left to a warning (SetupSecurityMounts and
\* SetupSecretMasks: never launch with an exposed secret).
Covered ==
  cont.st = "running" /\ cont.by = "coi" =>
    /\ \A p \in (Protected \cup {"chooks"}) \ late :
         Expected(p) => p \in cont.devs \/ cont.told
    /\ late \cap {"env", "data"} = {} => Secrets \subseteq cont.devs

\* A protected path that was removed while the container was stopped never
\* keeps a later command from starting it, unless its device could not be
\* removed (StripSecurityDevices, issue #610).
NeverWedged == ~wedged

PSpec == PInit /\ [][PNext]_pvars
=============================================================================
