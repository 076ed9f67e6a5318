------------------------------- MODULE Launch -------------------------------
(***************************************************************************)
(* How a container is prepared and started, and how it is prepared again   *)
(* when a later command reuses it: the decision between idmapped ("shift") *)
(* mounts and raw.idmap, the devices of the workspace, of the protected    *)
(* paths and of the secret masks, and the fallbacks of a failing start     *)
(* (container/commands.go, session/setup.go, setup_helpers.go, cli/run.go, *)
(* cli/container.go).  One container and one command at a time; a command  *)
(* may be killed between any two steps, every call of Incus may fail, and  *)
(* configuration, workspace and host may change between two commands.      *)
(***************************************************************************)
EXTENDS Naturals, FiniteSets

CONSTANTS Hosts,        \* the hosts: records, see HostType
          MaxLaunches,  \* commands of a behaviour
          MaxTroubles   \* failing calls of Incus, kills and changes of the world

VARIABLES host,      \* what the machine can do
          conf,      \* disable_shift of the configuration
          here,      \* the directory the commands are run in
          inst,      \* the container as Incus keeps it
          cmd,       \* the command that runs
          launches, troubles

vars == <<host, conf, here, inst, cmd, launches, troubles>>

HostType == [shift : {"ok", "refused", "broken"}, \* idmapped mounts: work, fail
                                                  \* the start, or give junk owners
             iso : BOOLEAN,      \* enough subordinate IDs for isolated ranges
             vm : BOOLEAN,       \* Colima or Lima map the IDs themselves
             sameUID : BOOLEAN,  \* the host user has the uid of code
             sound : BOOLEAN]    \* nothing else keeps a container from starting

ASSUME LaunchAssumption == Hosts \subseteq HostType

Security == {"protect", "mask"}
Devices == {"workspace"} \cup Security
\* task: an ephemeral coi run; enter: a shell in a running container.
Ways == {"shell", "run", "task", "start", "enter"}

\* unmapped remembers that raw.idmap was wanted and could not be set; byHand
\* (history) that the container was started last without being prepared: by
\* coi container start, by incus start, or by Incus after a reboot.
NoInst == [st |-> "none", iso |-> FALSE, idmap |-> FALSE, unmapped |-> FALSE,
           src |-> "none", devs |-> {}, shift |-> {}, byHand |-> FALSE]

NoCmd == [way |-> "none", pc |-> "idle", fresh |-> FALSE, shift |-> FALSE,
          err |-> "none", iso |-> FALSE, was |-> FALSE, isolated |-> FALSE,
          blips |-> 0, warned |-> FALSE, lost |-> FALSE]

InstType == [st : {"none", "stopped", "running"}, iso : BOOLEAN,
             idmap : BOOLEAN, unmapped : BOOLEAN, src : {"none", "A", "B"},
             devs : SUBSET Devices, shift : SUBSET Devices, byHand : BOOLEAN]

Init ==
  /\ host \in Hosts
  /\ conf \in BOOLEAN
  /\ here = "A"
  /\ inst = NoInst
  /\ cmd = NoCmd
  /\ launches = 0
  /\ troubles = 0

-----------------------------------------------------------------------------
Going(pc) == cmd.pc = pc /\ UNCHANGED <<host, conf, here, launches>>

Goto(pc) == cmd' = [cmd EXCEPT !.pc = pc]

Fine == UNCHANGED troubles
\* A call of Incus that fails.  The failing ones are counted.
Trouble == troubles < MaxTroubles /\ troubles' = troubles + 1

Off == conf \/ host.shift = "broken" \/ host.vm
\* decideUIDMapping: raw.idmap, idmapped mounts, or neither.
Mapping == IF ~host.sameUID \/ (Off /\ ~host.vm) THEN "idmap"
           ELSE IF Off THEN "none" ELSE "shift"

\* What Incus says of a start: the errors it may report.
Errors == (IF inst.idmap /\ inst.shift # {} THEN {"mixed"} ELSE {})
          \cup (IF inst.shift # {} /\ host.shift = "refused" THEN {"idmapping"} ELSE {})
          \cup (IF inst.iso /\ ~host.iso THEN {"isolation"} ELSE {})
          \cup (IF host.sound THEN {} ELSE {"other"})

-----------------------------------------------------------------------------
(* A command begins.                                                        *)

Begin(way, pc, fresh) ==
  /\ cmd.pc = "idle" /\ launches < MaxLaunches
  /\ launches' = launches + 1
  /\ cmd' = [NoCmd EXCEPT !.way = way, !.pc = pc, !.fresh = fresh, !.iso = inst.iso]
  /\ UNCHANGED <<host, conf, here, inst, troubles>>

BeginFresh(way) == way \in {"shell", "run", "task"} /\ inst.st = "none" /\ Begin(way, "create", TRUE)
BeginReuse(way) == way \in {"shell", "run"} /\ inst.st = "stopped" /\ Begin(way, "strip", FALSE)
BeginStart == inst.st = "stopped" /\ Begin("start", "resolve", FALSE)

\* A shell, persistent or with --resume, meets a container that runs.
BeginEnter == inst.st = "running" /\ Begin("enter", "enter", FALSE)

\* It enters it as it is: nothing is put back, and only the source of the
\* workspace is compared, where it can be read.
Enters(warned) == UNCHANGED inst /\ cmd' = [cmd EXCEPT !.pc = "on", !.warned = warned]
Enter == Going("enter") /\ inst.src \in {"none", here} /\ Fine /\ Enters(inst.src = "none")
EnterUnread == Going("enter") /\ Trouble /\ Enters(TRUE)
EnterOther == /\ Going("enter") /\ inst.src \notin {"none", here} /\ Fine
              /\ cmd' = NoCmd /\ UNCHANGED inst

\* An ephemeral run deletes the stopped container it finds.
BeginOver == inst.st = "stopped" /\ Begin("task", "over", TRUE)
DeleteOld == Going("over") /\ inst' = NoInst /\ Goto("create") /\ Fine
DeleteOldFails == Going("over") /\ Trouble /\ cmd' = NoCmd /\ UNCHANGED inst

-----------------------------------------------------------------------------
(* A fresh container.                                                       *)

Create == /\ Going("create") /\ Fine
          /\ inst' = [NoInst EXCEPT !.st = "stopped"]
          /\ Goto("map")
CreateFails == /\ Going("create") /\ Trouble
               /\ inst' \in {inst, [NoInst EXCEPT !.st = "stopped"]}
               /\ Goto("failed")

Map ==
  /\ Going("map") /\ Fine
  /\ inst' = [inst EXCEPT !.idmap = (Mapping = "idmap")]
  /\ cmd' = [cmd EXCEPT !.pc = "mount", !.shift = (Mapping = "shift")]
\* The failure is only a warning.
MapFails ==
  /\ Going("map") /\ Mapping = "idmap" /\ Trouble
  /\ inst' = [inst EXCEPT !.unmapped = TRUE]
  /\ cmd' = [cmd EXCEPT !.pc = "mount", !.shift = FALSE]

WithDevice(d) == [inst EXCEPT !.devs = @ \cup {d},
                              !.shift = IF cmd.shift THEN @ \cup {d} ELSE @]

Mount == /\ Going("mount") /\ Fine
         /\ inst' = [WithDevice("workspace") EXCEPT !.src = here]
         /\ Goto("protect")
MountFails == Going("mount") /\ Trouble /\ Goto("failed") /\ UNCHANGED inst

\* A read-only mount that fails is a warning, a mask that fails ends the
\* launch.  Incus refuses to add a device that exists.
Protect == /\ Going("protect") /\ "protect" \notin inst.devs /\ Fine
           /\ inst' = WithDevice("protect")
           /\ Goto("mask")
ProtectExists == Going("protect") /\ "protect" \in inst.devs /\ Fine /\ Goto("mask") /\ UNCHANGED inst
ProtectFails == Going("protect") /\ Trouble /\ Goto("mask") /\ UNCHANGED inst
AfterMask == IF cmd.fresh THEN "isolate" ELSE "first"
Mask == /\ Going("mask") /\ "mask" \notin inst.devs /\ Fine
        /\ inst' = WithDevice("mask")
        /\ Goto(AfterMask)
MaskExists == Going("mask") /\ "mask" \in inst.devs /\ Fine /\ Goto("failed") /\ UNCHANGED inst
\* As if the launch went on like after a protected path.
MaskWarns == Going("mask") /\ Trouble /\ Goto(AfterMask) /\ UNCHANGED inst

MaskFails == Going("mask") /\ Trouble /\ Goto("failed") /\ UNCHANGED inst
Isolate == /\ Going("isolate") /\ Fine
           /\ inst' = [inst EXCEPT !.iso = TRUE]
           /\ cmd' = [cmd EXCEPT !.pc = "first", !.iso = TRUE, !.isolated = TRUE]
IsolateFails == Going("isolate") /\ Trouble /\ Goto("first") /\ UNCHANGED inst

-----------------------------------------------------------------------------
(* A stopped container is used again: shell and run by the same steps.      *)

\* Devices that cannot be removed stay, with a warning.
Strip == /\ Going("strip") /\ Fine
         /\ inst' = [inst EXCEPT !.devs = @ \ Security, !.shift = @ \ Security]
         /\ Goto("remap")
StripFails ==
  /\ Going("strip") /\ Trouble
  /\ \E left \in SUBSET (inst.devs \cap Security) \ {{}} :
       inst' = [inst EXCEPT !.devs = (@ \ Security) \cup left,
                            !.shift = @ \ (Security \ left)]
  /\ Goto("remap")

\* raw.idmap that is there already wins over the configuration.
Remapped(set) == cmd' = [cmd EXCEPT !.shift = Mapping = "shift" /\ ~inst.idmap,
                         !.pc = IF set /\ ~inst.idmap THEN "convert" ELSE "moved"]
Remap == /\ Going("remap") /\ Fine
         /\ inst' = [inst EXCEPT !.idmap = @ \/ Mapping = "idmap"]
         /\ Remapped(Mapping = "idmap")
RemapFails ==
  /\ Going("remap") /\ Mapping = "idmap" /\ Trouble
  /\ inst' = [inst EXCEPT !.unmapped = ~inst.idmap]
  /\ cmd' = [cmd EXCEPT !.pc = "moved", !.shift = FALSE]
AfterConvert == IF cmd.way = "start" THEN "first" ELSE "moved"
Convert == Going("convert") /\ Fine /\ inst' = [inst EXCEPT !.shift = {}] /\ Goto(AfterConvert)
ConvertFails ==
  /\ Going("convert") /\ Trouble
  /\ \E left \in SUBSET inst.shift \ {{}} : inst' = [inst EXCEPT !.shift = left]
  /\ Goto(AfterConvert)

\* As if the container were always taken to be of this directory.
MovedNever == Going("moved") /\ Fine /\ Goto("protect") /\ UNCHANGED inst
\* RemountMovedWorkspace: without a source to compare it is skipped.
Moved ==
  /\ Going("moved") /\ Fine
  /\ cmd' = [cmd EXCEPT !.pc = IF inst.src \in {"none", here} THEN "protect" ELSE "unmount",
                        !.warned = @ \/ inst.src = "none"]
  /\ UNCHANGED inst
\* The source cannot be read: a warning.
MovedUnread == /\ Going("moved") /\ Trouble /\ UNCHANGED inst
               /\ cmd' = [cmd EXCEPT !.pc = "protect", !.warned = TRUE]
Unmount == /\ Going("unmount") /\ Fine
           /\ inst' = [inst EXCEPT !.devs = @ \ {"workspace"}, !.shift = @ \ {"workspace"},
                                   !.src = "none"]
           /\ Goto("mount")
UnmountFails == Going("unmount") /\ Trouble /\ Goto("failed") /\ UNCHANGED inst

\* coi container start looks at the devices of the container it was given.
Resolve ==
  /\ Going("resolve") /\ Fine
  /\ IF inst.shift = {} \/ inst.src = "none" \/ Mapping # "idmap"
     THEN Goto("first") /\ UNCHANGED inst
     ELSE /\ inst' = [inst EXCEPT !.idmap = TRUE]
          /\ Goto(IF inst.idmap THEN "first" ELSE "convert")
ResolveFails == Going("resolve") /\ Trouble /\ UNCHANGED inst /\ Goto("first")

-----------------------------------------------------------------------------
(* The start and its fallbacks.                                             *)

Started == inst' = [inst EXCEPT !.st = "running", !.byHand = (cmd.way = "start")]
Starting == {"first", "again", "healed", "bare"}

Start(pc) == Going(pc) /\ Errors = {} /\ Fine /\ Started /\ Goto("on")

\* Where a start that failed leads; the first error is remembered.
Heals == cmd.err = "idmapping" /\ inst.shift # {}
Failing(pc) == CASE pc = "first" -> "poll"
                 [] pc = "again" -> (IF Heals THEN "heal" ELSE "giveup")
                 [] pc = "healed" -> "giveup"
                 [] pc = "bare" -> "restore"
FailsBy(pc, e) == cmd' = [cmd EXCEPT !.pc = Failing(pc),
                                     !.err = IF pc = "first" THEN e ELSE @]
Rejected(pc) == Going(pc) /\ Fine /\ (\E e \in Errors : FailsBy(pc, e)) /\ UNCHANGED inst

\* A start that fails for a passing reason.
Blip(pc) ==
  /\ Going(pc) /\ Errors = {} /\ Trouble
  /\ cmd' = [cmd EXCEPT !.pc = Failing(pc), !.err = IF pc = "first" THEN "other" ELSE @,
                        !.blips = @ + 1]
  /\ UNCHANGED inst

\* forkstart reports an error though the container came up.
SoftError(pc) ==
  /\ Going(pc) /\ Errors = {} /\ Trouble /\ Started
  /\ cmd' = [cmd EXCEPT !.pc = IF pc = "first" THEN "poll" ELSE "on",
                        !.err = IF pc = "first" THEN "other" ELSE @]

PollUp == Going("poll") /\ inst.st = "running" /\ Fine /\ Goto("on") /\ UNCHANGED inst
\* As if the fallbacks followed a failing start at once.
PollNoRetry == /\ Going("poll") /\ inst.st = "stopped" /\ Fine /\ UNCHANGED inst
               /\ Goto(IF Heals THEN "heal" ELSE "giveup")
\* An ephemeral container is not started again unchanged.
PollDown == /\ Going("poll") /\ inst.st = "stopped" /\ Fine /\ UNCHANGED inst
            /\ Goto(IF cmd.way # "task" THEN "again" ELSE IF Heals THEN "heal" ELSE "giveup")
\* Incus deleted the ephemeral container: once more without isolation.
PollGone == /\ Going("poll") /\ cmd.way = "task" /\ inst.st = "stopped" /\ Fine
            /\ inst' = NoInst /\ Goto("recreate")
\* Create, map, mount and mask again, then one plain start.
Recreated == [NoInst EXCEPT !.st = "stopped", !.idmap = (Mapping = "idmap"), !.src = here,
               !.devs = Devices, !.shift = IF Mapping = "shift" THEN Devices ELSE {}]
Recreate == Going("recreate") /\ Fine /\ inst' = Recreated /\ Goto("last")
RecreateFails == /\ Going("recreate") /\ Trouble /\ Goto("failed")
                 /\ inst' \in {NoInst, [NoInst EXCEPT !.st = "stopped"]}
Last == Going("last") /\ Errors = {} /\ Fine /\ Started /\ Goto("on")
LastFails == Going("last") /\ Errors # {} /\ Fine /\ Goto("failed") /\ UNCHANGED inst
LastBlip == Going("last") /\ Trouble /\ Goto("failed") /\ UNCHANGED inst

\* fallbackShiftToRawIdmap: what it cannot convert stays, raw.idmap is set.
Heal == /\ Going("heal") /\ Fine /\ Goto("healed")
        /\ inst' = [inst EXCEPT !.shift = {}, !.idmap = TRUE]
HealFails ==
  /\ Going("heal") /\ Trouble
  /\ \E left \in SUBSET inst.shift, set \in BOOLEAN :
       /\ left # {} \/ ~set
       /\ inst' = [inst EXCEPT !.shift = left, !.idmap = @ \/ set, !.unmapped = @ \/ ~set]
  /\ Goto("healed")

\* Only a container that was isolated by this start is started without it:
\* not the one of coi container start, nor a shell's that never was.
Unset == cmd.way \in {"run", "task"} \/ (cmd.way = "shell" /\ (cmd.isolated \/ ~cmd.fresh))
GiveUp == Going("giveup") /\ ~Unset /\ Fine /\ Goto("failed") /\ UNCHANGED inst
UnsetIsolation ==
  /\ Going("giveup") /\ Unset /\ Fine
  /\ inst' = [inst EXCEPT !.iso = FALSE]
  /\ cmd' = [cmd EXCEPT !.pc = "bare", !.was = (cmd.way # "task" /\ inst.iso)]
\* What the isolation was could not be read: it counts as none.
UnsetBlind ==
  /\ Going("giveup") /\ Unset /\ cmd.way # "task" /\ Trouble
  /\ inst' = [inst EXCEPT !.iso = FALSE]
  /\ cmd' = [cmd EXCEPT !.pc = "bare", !.was = FALSE, !.lost = TRUE]
UnsetFails ==
  /\ Going("giveup") /\ Unset /\ Trouble
  /\ cmd' = [cmd EXCEPT !.pc = "bare", !.was = (cmd.way # "task" /\ inst.iso)]
  /\ UNCHANGED inst
Restore == /\ Going("restore") /\ Fine
           /\ inst' = [inst EXCEPT !.iso = @ \/ cmd.was]
           /\ Goto("failed")
RestoreFails == /\ Going("restore") /\ cmd.was /\ Trouble /\ UNCHANGED inst
                /\ cmd' = [cmd EXCEPT !.pc = "failed", !.lost = TRUE]

-----------------------------------------------------------------------------
(* The end of a command, and the world around it.                           *)

Over(i) == inst' = i /\ cmd' = NoCmd /\ Fine

\* coi run removes what it half made, never a running container.
Failed == /\ Going("failed")
          /\ Over(IF cmd.fresh /\ cmd.way # "shell" /\ inst.st = "stopped" THEN NoInst ELSE inst)

\* The session ends: the container is kept stopped, or deleted; a shell that
\* is left, and coi container start, leave it running.
Kept == Going("on") /\ cmd.way \in {"shell", "run", "enter"} /\ Over([inst EXCEPT !.st = "stopped"])
Dropped == Going("on") /\ cmd.way \in {"shell", "task", "enter"} /\ Over(NoInst)
Left == Going("on") /\ cmd.way \in {"shell", "start", "enter"} /\ Over(inst)

Killed == /\ cmd.pc # "idle" /\ Trouble /\ cmd' = NoCmd
          /\ UNCHANGED <<host, conf, here, inst, launches>>

Idle == cmd.pc = "idle" /\ UNCHANGED <<cmd, launches>>
StoppedOutside == /\ Idle /\ inst.st = "running" /\ Fine
                  /\ inst' = [inst EXCEPT !.st = "stopped"]
                  /\ UNCHANGED <<host, conf, here>>
\* incus start, or Incus after a reboot.
StartedOutside == /\ Idle /\ inst.st = "stopped" /\ Errors = {} /\ Trouble
                  /\ inst' = [inst EXCEPT !.st = "running", !.byHand = TRUE]
                  /\ UNCHANGED <<host, conf, here>>
Reconfigured == Idle /\ Trouble /\ conf' = ~conf /\ UNCHANGED <<host, here, inst>>
WorkspaceMoves == Idle /\ Trouble /\ here = "A" /\ here' = "B" /\ UNCHANGED <<host, conf, inst>>
\* Another kernel: no container survives the reboot.
HostUpdated == /\ Idle /\ Trouble
               /\ \E s \in {"refused", "broken"}, k \in BOOLEAN :
                    /\ host.shift = "ok"
                    /\ host' = [host EXCEPT !.shift = s, !.sound = k]
               /\ inst' = [inst EXCEPT !.st = IF @ = "running" THEN "stopped" ELSE @]
               /\ UNCHANGED <<conf, here>>

Begins == (\E w \in Ways : BeginFresh(w) \/ BeginReuse(w)) \/ BeginStart \/ BeginOver
          \/ DeleteOld \/ DeleteOldFails
          \/ BeginEnter \/ Enter \/ EnterUnread \/ EnterOther
Prepares == Create \/ CreateFails \/ Map \/ MapFails \/ Mount \/ MountFails
            \/ Protect \/ ProtectExists \/ ProtectFails \/ Mask \/ MaskExists \/ MaskFails
            \/ Isolate \/ IsolateFails
Reuses == Strip \/ StripFails \/ Remap \/ RemapFails \/ Convert \/ ConvertFails
          \/ Moved \/ MovedUnread \/ Unmount \/ UnmountFails \/ Resolve \/ ResolveFails
Starts == (\E pc \in Starting : Start(pc) \/ Rejected(pc) \/ Blip(pc) \/ SoftError(pc))
          \/ PollUp \/ PollDown \/ PollGone \/ Recreate \/ RecreateFails \/ Last \/ LastFails \/ LastBlip
          \/ Heal \/ HealFails \/ GiveUp \/ UnsetIsolation \/ UnsetBlind \/ UnsetFails \/ Restore \/ RestoreFails
Ends == Failed \/ Kept \/ Dropped \/ Left \/ Killed
World == StoppedOutside \/ StartedOutside \/ Reconfigured \/ WorkspaceMoves \/ HostUpdated

Next == Begins \/ Prepares \/ Reuses \/ Starts \/ Ends \/ World

Spec == Init /\ [][Next]_vars

-----------------------------------------------------------------------------
(* Properties.                                                              *)

TypeOK ==
  /\ host \in HostType /\ conf \in BOOLEAN /\ here \in {"A", "B"}
  /\ inst \in InstType /\ inst.shift \subseteq inst.devs
  /\ cmd.way \in Ways \cup {"none"}
  /\ launches \in 0..MaxLaunches /\ troubles \in 0..MaxTroubles

Session == cmd.pc = "on" /\ cmd.way # "start"

\* A shell is in a container that was started without being prepared.  Neither
\* of the two commands puts anything back.
Unprepared == cmd.way = "enter" /\ inst.byHand

\* A session never runs with a secret exposed, entered by a launch or by a
\* shell that joins later: whatever failed when the masks were taken off and
\* put on again (StripSecurityDevices, applySessionSecurity), the launch ended
\* instead, and what a failed or killed launch left stripped does not run.
\* Only coi container start, or Incus itself, starts such a container, and a
\* shell that enters it then (setup.go: "do NOT reconcile") has no masks.
FailClosed == Session /\ ~Unprepared => "mask" \in inst.devs

\* The user of the container owns the files of the workspace.
Writable == IF inst.idmap THEN "workspace" \notin inst.shift
            ELSE IF "workspace" \in inst.shift THEN host.shift = "ok" /\ host.sameUID
            ELSE host.vm /\ host.sameUID

\* The workspace of a session is the directory it was started in, or a
\* warning said that this could not be told (RemountMovedWorkspace), also
\* after a remount that was cut short; and whatever the configuration, the
\* host and the starts before it were like, it is mapped so that it can be
\* written, unless setting raw.idmap failed, it is not mounted at all, or the
\* container was not prepared for its start (decideUIDMapping,
\* ResolveReuseUIDMapping, fallbackShiftToRawIdmap).
RightWorkspace ==
  Session => /\ inst.src = here \/ cmd.warned
             /\ "workspace" \in inst.devs /\ ~inst.unmapped /\ ~Unprepared => Writable

\* A start that failed leaves the isolation of the container as it was
\* (StartWithIsolationFallback: the failed run leaves no trace), unless what it
\* was could not be read, or not be set again (lost); and one that
\* came up gave isolation away only for a host without it, or after two
\* failures in a row that had another reason; one is enough where idmapped
\* mounts fail, as the start after the conversion is not repeated.
IsolationKept ==
  cmd.way \in {"shell", "run", "start"} /\ cmd.iso /\ ~inst.iso =>
    /\ cmd.pc # "failed" \/ cmd.lost
    /\ cmd.pc = "on" =>
         ~host.iso \/ cmd.blips >= (IF host.shift = "refused" THEN 1 ELSE 2)

=============================================================================
