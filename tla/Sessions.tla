------------------------------ MODULE Sessions ------------------------------
(***************************************************************************)
(* The commands that create, enter, leave and remove the containers of one *)
(* workspace (internal/cli: phases_shell.go, phases_run.go, run.go,        *)
(* attach.go, kill.go, shutdown.go, clean.go, persist.go) and the parts of *)
(* internal/session they use: naming.go, setup.go, cleanup.go.             *)
(*                                                                         *)
(* Every command is a process of its own; there is no lock between them,   *)
(* and a container is known by its slot only.  One action is one request   *)
(* to Incus, or one change of the saved sessions.                          *)
(***************************************************************************)
EXTENDS Naturals, FiniteSets, FiniteSetsExt

CONSTANTS
  Procs,     \* coi shell and coi run processes
  NumSlots,  \* the workspace's slots
  Ways,      \* bound: how each may start: "auto", "slot", "resume", "run"
  Modes,     \* [container] persistent: "yes", "no", "unset"
  Troubles,  \* what may go wrong, or be done from outside: see the actions
  Streak,    \* healthyConfirmChecks
  Enqueued   \* healthy answers a guest gives after poweroff was enqueued

Slots == 1..NumSlots

\* The steps of a command before and after its work.
Entering == {"enter", "leftover", "create", "start", "failed", "ready"}
Leaving == {"exists", "pull", "look", "ask", "wait", "again", "delete"}

ASSUME SessionsAssumption ==
  /\ NumSlots \in Nat \ {0}
  /\ Ways \in [Procs -> SUBSET {"auto", "slot", "resume", "run"}]
  /\ Modes \subseteq {"yes", "no", "unset"}
  /\ Streak \in Nat \ {0} /\ Enqueued \in Nat
  /\ "attach" \notin Procs

VARIABLES
  mode,     \* [container] persistent in the configuration
  trouble,  \* bound: the one kind of trouble this behaviour has met
  inst,     \* the container of each slot
  saved,    \* the saved sessions
  proc,     \* the processes
  used,     \* bound: somebody else has given the one command they have
  listed,   \* the slots it is about to delete
  made,     \* history: the pieces of history ever made
  announced,\* history: pieces whose removal was ordered or reported
  disturbed,\* history: commands that set up one slot at a time, and commands
            \* whose container was started again while they left it
  outside   \* history: pieces made when no coi shell was there to save them,
            \* or while two of them had the session open

vars == <<mode, trouble, inst, saved, proc, used, listed, made, announced,
          disturbed, outside>>

\* A piece of history: what one process adds to the conversation, and what
\* is added by somebody attached to the container.
Pieces == Procs \union {"attach"}

\* st: "none", "created" (never started), "running", "queued" (poweroff is
\* enqueued, systemd does not know), "stopping", "stopped".  users: the
\* processes that entered this very container.  work: the conversation in it.
\* asked: healthy answers since poweroff was enqueued.  eph: it is an incus
\* --ephemeral container (of coi run), which goes away when it stops.
NoInst == [st |-> "none", users |-> {}, work |-> {}, asked |-> 0, eph |-> FALSE]

\* A saved session: metadata.json (slot 0: there is none) and the config dir.
NoSession == [slot |-> 0, keep |-> FALSE, data |-> {}]

\* way, slot, sid: session ID; keep: a.persistent; new: a container was
\* launched; failed: saveFailed; healthy: the streak; off:
\* history, its user powered the guest off.
NoProc(p) ==
  [pc |-> "idle", way |-> "auto", slot |-> 1, sid |-> p, keep |-> FALSE,
   new |-> FALSE, failed |-> FALSE, healthy |-> 0, off |-> FALSE]

Init ==
  /\ mode \in Modes
  /\ trouble = "none"
  /\ inst = [s \in Slots |-> NoInst]
  /\ saved = [p \in Procs |-> NoSession]
  /\ proc = [p \in Procs |-> NoProc(p)]
  /\ used = FALSE
  /\ listed = {}
  /\ made = {} /\ announced = {} /\ disturbed = {} /\ outside = {}

\* What Incus says: a poweroff in flight is still "Running".
Exists(s) == inst[s].st # "none"
Up(s) == inst[s].st \in {"running", "queued", "stopping"}

At(p, label) == proc[p].pc = label
\* A process that ends forgets what it knew.
Goto(p, label) ==
  proc' = [proc EXCEPT ![p] = IF label \in {"done", "dead"}
                                THEN [NoProc(p) EXCEPT !.pc = label]
                                ELSE [@ EXCEPT !.pc = label, !.healthy = 0]]
Box(p) == inst[proc[p].slot]
\* What p destroys of a container that took the place of its own: a container
\* has no identity but its name.
Foreign(p) == IF p \in Box(p).users THEN {} ELSE Box(p).work
SetBox(p, value) == inst' = [inst EXCEPT ![proc[p].slot] = value]

\* A container after its start, which does nothing if it is up, and after its
\* stop.
Running(box) ==
  IF box.st \in {"running", "queued", "stopping"} THEN box
  ELSE [box EXCEPT !.st = "running", !.asked = 0]
Stopped(box) == IF box.eph THEN NoInst ELSE [box EXCEPT !.st = "stopped", !.asked = 0]

Kept == UNCHANGED <<mode, used, listed, made, announced, outside>>
Rest == Kept /\ UNCHANGED disturbed
Worked == Rest /\ UNCHANGED trouble

\* Bound: a behaviour meets one kind of trouble.
Trouble(kind) ==
  /\ kind \in Troubles
  /\ trouble \in {"none", kind}
  /\ trouble' = kind

-----------------------------------------------------------------------------
(* Choosing a slot *)

FreeFrom(n) == {s \in Slots : s >= n /\ ~Exists(s)}
Reusable == {s \in Slots : inst[s].st \in {"created", "stopped"}}

\* Mutant: only running containers occupy their slot.
AllocateRunning(n) == {s \in Slots : s >= n /\ ~Up(s)}

\* AllocateSlot and AllocateSlotFrom: a container occupies its slot in
\* whatever state it is.
Allocate(n) == FreeFrom(n)

\* Mutant: an explicit slot is taken as it comes.
AnySlotAvailable(s) == TRUE

IsSlotAvailable(s) == ~Up(s)

\* resumePersistence, and the plain flag (an unset one is false).
Persistence(recorded) == mode = "yes" \/ (mode = "unset" /\ recorded)

\* The commands that set up the container of slot s.
SettingUp(s) == {q \in Procs : proc[q].pc \in Entering /\ proc[q].slot = s}

Launch(p, way, sid, keep, slot) ==
  LET others == SettingUp(slot) IN
  /\ At(p, "idle")
  /\ way \in Ways[p]
  /\ disturbed' = disturbed \union others \union (IF others = {} THEN {} ELSE {p})
  /\ proc' = [proc EXCEPT ![p] = [NoProc(p) EXCEPT !.pc = "enter",
                !.way = way, !.sid = sid, !.keep = keep, !.slot = slot]]
  /\ UNCHANGED <<mode, trouble, inst, saved, used, listed, made, announced>>

\* configure-session and validate-env without --slot.
ConfigureAuto(p) == \E way \in {"auto", "run"} :
  LET keep == Persistence(FALSE)
      slots == IF keep /\ Reusable # {} THEN Reusable ELSE Allocate(1) IN
  /\ slots # {}
  /\ Launch(p, way, p, keep, Min(slots))
  /\ UNCHANGED outside

\* configure-session with --slot n.
ConfigureSlot(p) == \E n \in Slots :
  LET slots == IF IsSlotAvailable(n) THEN {n} ELSE Allocate(n + 1) IN
  /\ slots # {}
  /\ Launch(p, "slot", p, Persistence(FALSE), Min(slots))
  /\ UNCHANGED outside

\* coi run --slot n takes the slot as it is.
ConfigureRun(p) == \E n \in Slots :
  /\ Launch(p, "run", p, Persistence(FALSE), n)
  /\ UNCHANGED outside

Active(p) == proc[p].pc \notin {"idle", "done", "dead", "bug"}

\* Another process has the session open.
Open(p, sid) == \E q \in Procs \ {p} : proc[q].sid = sid /\ Active(q)

\* configure-session with --resume: mode and slot come from the metadata; the
\* slot is not checked.
ConfigureResume(p) == \E sid \in Procs :
  LET meta == saved[sid] IN
  /\ meta.slot # 0
  /\ Launch(p, "resume", sid, Persistence(meta.keep), meta.slot)
  /\ outside' = outside \union IF Open(p, sid) THEN inst[meta.slot].work ELSE {}

-----------------------------------------------------------------------------
(* session.Setup and launchOrReuseContainer *)

Shell(p) == proc[p].way # "run"

Enter(p, label, users) ==
  /\ Goto(p, label)
  /\ SetBox(p, [Box(p) EXCEPT !.users = users])
  /\ outside' = outside \union IF proc[p].way = "resume" /\ label \in {"ready", "start"}
                                THEN saved[proc[p].sid].data \ Box(p).work ELSE {}
  /\ UNCHANGED <<mode, trouble, saved, used, listed, made, announced, disturbed>>

Absent(p) ==
  /\ At(p, "enter") /\ ~Exists(proc[p].slot)
  /\ Enter(p, "create", {})

\* "slot %d is already in use by a running container": for a shell, a bug in
\* slot allocation.
Refuse(p) ==
  /\ At(p, "enter") /\ Up(proc[p].slot)
  /\ Shell(p) => ~proc[p].keep /\ proc[p].way # "resume"
  /\ Enter(p, IF Shell(p) THEN "bug" ELSE "done", Box(p).users)

\* A running container: persistent, or the one of the session.
Reuse(p) ==
  /\ At(p, "enter") /\ Up(proc[p].slot)
  /\ Shell(p) /\ (proc[p].keep \/ proc[p].way = "resume")
  /\ Enter(p, "ready", Box(p).users \union {p})

\* restartStoppedContainer.
Restart(p) ==
  /\ At(p, "enter") /\ Exists(proc[p].slot) /\ ~Up(proc[p].slot)
  /\ proc[p].keep
  /\ Enter(p, "start", Box(p).users \union {p})

\* Mutant: the leftover of a resumed session is replaced, running or not.
LeftoverRunning(p) ==
  /\ At(p, "enter") /\ Exists(proc[p].slot)
  /\ ~proc[p].keep
  /\ Enter(p, "leftover", Box(p).users)

\* What p deletes belongs to somebody: p set it up beside another command, or
\* came by its number while somebody has it open.
Taken(p) ==
  \/ p \in disturbed
  \/ proc[p].way # "auto" /\ \E q \in Box(p).users \ {p} : Active(q)

\* A stopped container of an ephemeral session gives way.
Leftover(p) ==
  /\ At(p, "enter") /\ Exists(proc[p].slot) /\ ~Up(proc[p].slot)
  /\ ~proc[p].keep
  /\ Enter(p, "leftover", Box(p).users)

DeleteLeftover(p) ==
  /\ At(p, "leftover")
  /\ Goto(p, "create")
  /\ SetBox(p, NoInst)
  /\ outside' = outside \union IF Taken(p) THEN Box(p).work ELSE {}
  /\ UNCHANGED <<mode, trouble, saved, used, listed, made, announced, disturbed>>

\* incus init; the name may be taken by now.
Create(p) ==
  /\ At(p, "create")
  /\ IF Exists(proc[p].slot)
       THEN Goto(p, IF Shell(p) THEN "done" ELSE "failed") /\ UNCHANGED inst
       ELSE /\ proc' = [proc EXCEPT ![p].pc = "start", ![p].new = TRUE]
            /\ SetBox(p, [NoInst EXCEPT !.st = "created", !.users = {p},
                                       !.eph = ~Shell(p) /\ ~proc[p].keep])
  /\ Worked
  /\ UNCHANGED saved

\* The commands that are leaving the container of slot s, and have seen it
\* stop or were told that it would.
LeftBehind(s) == {q \in Procs :
  /\ proc[q].slot = s /\ proc[q].pc \in Leaving
  /\ (proc[q].off \/ proc[q].pc \in {"wait", "again", "delete"})}

Started(p) ==
  disturbed' = disturbed \union IF Up(proc[p].slot) THEN {} ELSE LeftBehind(proc[p].slot)

\* incus start; a container that runs already counts as started.
Start(p) ==
  /\ At(p, "start") /\ Exists(proc[p].slot)
  /\ Goto(p, "ready")
  /\ SetBox(p, Running(Box(p)))
  /\ Started(p)
  /\ Kept
  /\ UNCHANGED <<trouble, saved>>

\* The start fails.  coi shell leaves the container behind; coi run removes
\* what it launched.
StartFails(p) ==
  /\ At(p, "start")
  /\ Trouble("launch") \/ (~Exists(proc[p].slot) /\ UNCHANGED trouble)
  /\ Goto(p, IF ~Shell(p) /\ proc[p].new THEN "failed" ELSE "done")
  /\ Rest
  /\ UNCHANGED <<inst, saved>>

\* It starts, and the boot block fails: coi shell stops it again, coi run
\* tears down.
BootBlockFails(p) ==
  /\ Trouble("launch")
  /\ At(p, "start") /\ Exists(proc[p].slot)
  /\ Goto(p, IF Shell(p) THEN "done" ELSE "exists")
  /\ SetBox(p, IF Shell(p) THEN Stopped(Box(p)) ELSE Running(Box(p)))
  /\ Started(p)
  /\ Kept
  /\ UNCHANGED saved

\* The failed launch of a coi run: whatever has the name is deleted, unless
\* it runs.
RemoveFailed(p) ==
  /\ At(p, "failed")
  /\ Goto(p, "done")
  /\ SetBox(p, IF Up(proc[p].slot) THEN Box(p) ELSE NoInst)
  /\ outside' = outside \union IF Taken(p) THEN Box(p).work ELSE {}
  /\ UNCHANGED <<mode, trouble, saved, used, listed, made, announced, disturbed>>

\* The rest of Setup: SaveMetadataEarly, and the history of a resumed session,
\* which only a new container gets.
Ready(p) ==
  /\ At(p, "ready") /\ Up(proc[p].slot)
  /\ Goto(p, "work")
  /\ IF proc[p].new /\ proc[p].way = "resume"
       THEN SetBox(p, [Box(p) EXCEPT !.work = saved[proc[p].sid].data])
       ELSE UNCHANGED inst
  /\ saved' = IF Shell(p)
                THEN [saved EXCEPT ![proc[p].sid].slot = proc[p].slot,
                                   ![proc[p].sid].keep = proc[p].keep]
                ELSE saved
  /\ Worked

\* A restore that fails is a warning, and the next save replaces the data.
RestoreFails(p) ==
  /\ Trouble("restore")
  /\ At(p, "ready") /\ Up(proc[p].slot)
  /\ proc[p].new /\ proc[p].way = "resume"
  /\ Goto(p, "work")
  /\ saved' = [saved EXCEPT ![proc[p].sid].slot = proc[p].slot,
                            ![proc[p].sid].keep = proc[p].keep]
  /\ announced' = announced \union saved[proc[p].sid].data
  /\ UNCHANGED <<mode, inst, used, listed, made, outside, disturbed>>

\* Setup ends with an error, or an alias conflict after it: a shell has no
\* teardown registered yet, and the container stays.
SetupFails(p) ==
  /\ At(p, "ready")
  /\ Trouble("launch") \/ (~Up(proc[p].slot) /\ UNCHANGED trouble)
  /\ Goto(p, IF Shell(p) THEN "done" ELSE "exists")
  /\ Rest
  /\ UNCHANGED <<inst, saved>>

-----------------------------------------------------------------------------
(* The session *)

Work(p) ==
  /\ At(p, "work") /\ Shell(p)
  /\ Box(p).st = "running"
  /\ p \in Box(p).users
  /\ p \notin made
  /\ SetBox(p, [Box(p) EXCEPT !.work = @ \union {p}])
  /\ made' = made \union {p}
  /\ outside' = outside \union IF Open(p, proc[p].sid) THEN {p} ELSE {}
  /\ UNCHANGED <<mode, trouble, saved, proc, used, listed, announced, disturbed>>

\* exit, or the tool ends, or the container went away under it.
Exit(p) ==
  /\ At(p, "work")
  /\ Goto(p, "exists")
  /\ Worked
  /\ UNCHANGED <<inst, saved>>

\* close or poweroff: the shell dies before the guest does.
PowerOff(p) ==
  /\ At(p, "work") /\ Shell(p)
  /\ Box(p).st = "running"
  /\ p \in Box(p).users
  /\ SetBox(p, [Box(p) EXCEPT !.st = "queued"])
  /\ proc' = [proc EXCEPT ![p].pc = "exists", ![p].off = TRUE]
  /\ Worked
  /\ UNCHANGED saved

GuestStops(s) ==
  /\ inst[s].st \in {"queued", "stopping"}
  /\ inst' = [inst EXCEPT ![s] =
       IF @.st = "queued" THEN [@ EXCEPT !.st = "stopping", !.asked = 0] ELSE Stopped(@)]
  /\ Worked
  /\ UNCHANGED <<saved, proc>>

\* The process dies without a teardown (SIGKILL, the host goes down).
Crash(p) ==
  /\ Trouble("crash")
  /\ Active(p)
  /\ Goto(p, "dead")
  /\ outside' = outside \union (made \intersect {p})
                       \union IF At(p, "pull") THEN Box(p).work ELSE {}
  /\ UNCHANGED <<mode, inst, saved, used, listed, made, announced, disturbed>>

-----------------------------------------------------------------------------
(* session.Cleanup and the teardown of coi run *)

\* Ephemeral: deleted.  Persistent: stopped, when it runs.
RunTeardown(p) ==
  /\ At(p, "exists") /\ ~Shell(p)
  /\ Goto(p, "done")
  /\ SetBox(p, IF proc[p].keep /\ Up(proc[p].slot)
                 THEN Stopped(Box(p))
               ELSE IF proc[p].keep THEN Box(p) ELSE NoInst)
  /\ announced' = announced \union (IF proc[p].keep THEN {} ELSE Box(p).work)
  /\ UNCHANGED <<mode, trouble, saved, used, listed, made, outside, disturbed>>

\* A container that is gone leaves nothing to save.  saveSessionData: the old
\* copy goes before the new one comes.
CheckExists(p) ==
  /\ At(p, "exists") /\ Shell(p)
  /\ IF Exists(proc[p].slot)
       THEN /\ Goto(p, "pull")
            /\ saved' = [saved EXCEPT ![proc[p].sid].data = {}]
       ELSE Goto(p, "done") /\ UNCHANGED saved
  /\ Worked
  /\ UNCHANGED inst

\* An error counts as "does not exist": nothing is saved, which only a
\* warning tells.
CheckExistsFails(p) ==
  /\ At(p, "exists") /\ Shell(p)
  /\ Trouble("incus")
  /\ Goto(p, "done")
  /\ announced' = announced \union Box(p).work
  /\ UNCHANGED <<mode, inst, saved, used, listed, made, outside, disturbed>>

\* "not found" ends the save without an error, be it the directory that is
\* missing or the container; the metadata stays as it was.
Pull(p) ==
  /\ At(p, "pull")
  /\ Goto(p, "look")
  /\ saved' = IF Exists(proc[p].slot)
                THEN [saved EXCEPT ![proc[p].sid] =
                       [slot |-> proc[p].slot, keep |-> proc[p].keep,
                        data |-> Box(p).work]]
                ELSE saved
  /\ Worked
  /\ UNCHANGED inst

\* Mutant: a failed save is forgotten.
PullFailsUnseen(p) ==
  /\ At(p, "pull")
  /\ Trouble("pull")
  /\ Goto(p, "look")
  /\ Rest
  /\ UNCHANGED <<inst, saved>>

\* The pull failed, three times if the guest was going down.
PullFails(p) ==
  /\ At(p, "pull")
  /\ Trouble("pull")
  /\ proc' = [proc EXCEPT ![p].pc = "look", ![p].failed = TRUE]
  /\ Rest
  /\ UNCHANGED <<inst, saved>>

\* A persistent container stays; an ephemeral one stays if it runs.
Decided(p, up) == IF proc[p].keep \/ up THEN "done" ELSE "delete"

\* containerRunning: a container that is gone is not running.
Look(p) ==
  /\ At(p, "look")
  /\ Goto(p, IF Up(proc[p].slot) THEN "ask" ELSE Decided(p, FALSE))
  /\ Worked
  /\ UNCHANGED <<inst, saved>>

\* Incus cannot tell: nothing is touched.
LookFails(p) ==
  /\ Trouble("incus")
  /\ At(p, "look")
  /\ Goto(p, Decided(p, TRUE))
  /\ Rest
  /\ UNCHANGED <<inst, saved>>

\* A healthy answer: the guest does not go down, or does not know it yet.
Healthy(p) ==
  /\ At(p, "ask")
  /\ Box(p).st = "running" \/ (Box(p).st = "queued" /\ Box(p).asked < Enqueued)
  /\ SetBox(p, [Box(p) EXCEPT !.asked = IF Box(p).st = "queued" THEN @ + 1 ELSE @])
  /\ Worked
  /\ UNCHANGED saved

\* Mutant: one healthy answer is enough.
AskHealthyOnce(p) == Healthy(p) /\ Goto(p, Decided(p, TRUE))

\* shutdownInProgress: so many healthy answers in a row mean an exit.
AskHealthy(p) ==
  /\ Healthy(p)
  /\ IF proc[p].healthy + 1 = Streak
       THEN Goto(p, Decided(p, TRUE))
       ELSE proc' = [proc EXCEPT ![p].healthy = @ + 1]

\* Positive evidence: not running any more, or "stopping", or no bus.
AskStopping(p) ==
  /\ At(p, "ask")
  /\ ~Up(proc[p].slot) \/ Box(p).st = "stopping"
  /\ Goto(p, "wait")
  /\ Worked
  /\ UNCHANGED <<inst, saved>>

\* No answer, or one that says nothing: the streak is over.
AskUnknown(p) ==
  /\ Trouble("incus")
  /\ At(p, "ask")
  /\ Up(proc[p].slot)
  /\ proc' = [proc EXCEPT ![p].healthy = 0]
  /\ Rest
  /\ UNCHANGED <<inst, saved>>

\* The window is over without evidence; or the image has no systemd.
AskGivesUp(p) ==
  /\ Trouble("incus")
  /\ At(p, "ask")
  /\ Up(proc[p].slot)
  /\ Goto(p, Decided(p, TRUE))
  /\ Rest
  /\ UNCHANGED <<inst, saved>>

\* waitForStopped.
WaitEnds(p) ==
  /\ At(p, "wait")
  /\ ~Up(proc[p].slot)
  /\ Goto(p, "again")
  /\ Worked
  /\ UNCHANGED <<inst, saved>>

\* Too slow, or interrupted: the stop is forced.
WaitForces(p) ==
  /\ At(p, "wait")
  /\ Up(proc[p].slot)
  /\ Goto(p, "again")
  /\ SetBox(p, Stopped(Box(p)))
  /\ Worked
  /\ UNCHANGED saved

\* The forced stop fails, which is a warning.
WaitFails(p) ==
  /\ Trouble("incus")
  /\ At(p, "wait")
  /\ Up(proc[p].slot)
  /\ Goto(p, "again")
  /\ Rest
  /\ UNCHANGED <<inst, saved>>

\* The second containerRunning.
LookAgain(p) ==
  /\ At(p, "again")
  /\ Goto(p, Decided(p, Up(proc[p].slot)))
  /\ Worked
  /\ UNCHANGED <<inst, saved>>

\* No answer: the shutdown that was seen is the best evidence.
LookAgainFails(p) ==
  /\ Trouble("incus")
  /\ At(p, "again")
  /\ Goto(p, Decided(p, FALSE))
  /\ Rest
  /\ UNCHANGED <<inst, saved>>

\* After the network teardown: Delete(true), and the last message, which
\* says whether the session data was saved.
CleanupDelete(p) ==
  /\ At(p, "delete")
  /\ Goto(p, "done")
  /\ SetBox(p, NoInst)
  /\ announced' = announced \union IF proc[p].failed THEN Box(p).work ELSE {}
  /\ outside' = outside \union Foreign(p)
  /\ UNCHANGED <<mode, trouble, saved, used, listed, made, disturbed>>

CleanupDeleteFails(p) ==
  /\ At(p, "delete")
  /\ Trouble("incus")
  /\ Goto(p, "done")
  /\ Rest
  /\ UNCHANGED <<inst, saved>>

-----------------------------------------------------------------------------
(* The other commands.  They address a container by its name. *)

\* Bound: there is one of them.
Command(kind) == Trouble(kind) /\ ~used /\ used' = TRUE

\* coi attach: nothing is saved when it ends, whoever powers the guest off.
Attach(s) ==
  /\ Command("attach")
  /\ inst[s].st = "running"
  /\ inst' = [inst EXCEPT ![s].work = @ \union {"attach"}]
  /\ made' = made \union {"attach"}
  /\ outside' = outside \union {"attach"}
  /\ UNCHANGED <<mode, saved, proc, listed, announced, disturbed>>

AttachPowerOff(s) ==
  /\ Command("attach")
  /\ inst[s].st = "running"
  /\ inst' = [inst EXCEPT ![s].st = "queued"]
  /\ UNCHANGED <<mode, saved, proc, listed, made, announced, outside, disturbed>>

\* coi kill stops by force, coi shutdown asks the guest first.
KillStops(s) == \E force \in BOOLEAN :
  /\ Command("kill")
  /\ Exists(s)
  /\ listed' = {s}
  /\ inst' = [inst EXCEPT ![s] =
       IF force /\ Up(s) THEN Stopped(@)
       ELSE IF @.st = "running" THEN [@ EXCEPT !.st = "queued"] ELSE @]
  /\ announced' = announced \union inst[s].work
  /\ UNCHANGED <<mode, saved, proc, made, outside, disturbed>>

\* coi clean: the stopped containers of one listing, after a confirmation.
CleanLists ==
  /\ Command("clean")
  /\ listed' = Reusable
  /\ UNCHANGED <<mode, inst, saved, proc, made, announced, outside, disturbed>>

\* The delete of all three: whatever has the name by now; that it is gone
\* already is fine.
DeletesListed(s) ==
  /\ s \in listed
  /\ listed' = listed \ {s}
  /\ inst' = [inst EXCEPT ![s] = NoInst]
  /\ announced' = announced \union inst[s].work
  /\ UNCHANGED <<mode, trouble, saved, proc, used, made, outside, disturbed>>

\* coi clean --sessions: all that is saved.
CleanSessions ==
  /\ Command("clean")
  /\ saved' = [p \in Procs |-> NoSession]
  /\ announced' = announced \union UNION {saved[p].data : p \in Procs}
  /\ UNCHANGED <<mode, inst, proc, listed, made, outside, disturbed>>

\* coi persist: the first metadata that names the container, which need not
\* be the latest.
Persist(s) == \E sid \in Procs :
  /\ Trouble("persist")
  /\ Exists(s)
  /\ saved[sid].slot = s /\ ~saved[sid].keep
  /\ saved' = [saved EXCEPT ![sid].keep = TRUE]
  /\ Rest
  /\ UNCHANGED <<inst, proc>>

-----------------------------------------------------------------------------
Enters(p) ==
  \/ ConfigureAuto(p) \/ ConfigureSlot(p) \/ ConfigureRun(p) \/ ConfigureResume(p)
  \/ Absent(p) \/ Refuse(p) \/ Reuse(p) \/ Restart(p) \/ Leftover(p)
  \/ DeleteLeftover(p) \/ Create(p) \/ Start(p) \/ StartFails(p)
  \/ BootBlockFails(p) \/ RemoveFailed(p) \/ Ready(p) \/ RestoreFails(p)
  \/ SetupFails(p)

Leaves(p) ==
  \/ RunTeardown(p) \/ CheckExists(p) \/ CheckExistsFails(p)
  \/ Pull(p) \/ PullFails(p) \/ Look(p) \/ LookFails(p)
  \/ AskHealthy(p) \/ AskStopping(p) \/ AskUnknown(p) \/ AskGivesUp(p)
  \/ WaitEnds(p) \/ WaitForces(p) \/ WaitFails(p) \/ LookAgain(p) \/ LookAgainFails(p)
  \/ CleanupDelete(p) \/ CleanupDeleteFails(p)

Step(p) == Enters(p) \/ Leaves(p) \/ Work(p) \/ Exit(p) \/ PowerOff(p) \/ Crash(p)

Next ==
  \/ \E p \in Procs : Step(p)
  \/ \E s \in Slots : \/ GuestStops(s)
                     \/ Attach(s) \/ AttachPowerOff(s)
                     \/ KillStops(s) \/ DeletesListed(s) \/ Persist(s)
  \/ CleanLists \/ CleanSessions

Spec == Init /\ [][Next]_vars

-----------------------------------------------------------------------------
(* Properties *)

\* Every variable has its type.
TypeOK ==
  /\ mode \in {"yes", "no", "unset"} /\ trouble \in Troubles \union {"none"}
  /\ inst \in [Slots -> [st : {"none", "created", "running", "queued", "stopping", "stopped"},
                         users : SUBSET Procs, work : SUBSET Pieces,
                         asked : 0..Enqueued, eph : BOOLEAN]]
  /\ saved \in [Procs -> [slot : 0..NumSlots, keep : BOOLEAN, data : SUBSET Pieces]]
  /\ proc \in [Procs -> [pc : {"idle", "work", "done", "dead", "bug"}
                              \union Entering \union Leaving,
                         way : {"auto", "slot", "resume", "run"}, slot : Slots,
                         sid : Procs, keep : BOOLEAN, new : BOOLEAN,
                         failed : BOOLEAN, healthy : 0..Streak, off : BOOLEAN]]
  /\ used \in BOOLEAN
  /\ listed \subseteq Slots
  /\ disturbed \subseteq Procs
  /\ made \subseteq Pieces /\ announced \subseteq Pieces /\ outside \subseteq Pieces

\* Setup never finds the running container that AllocateSlot and
\* IsSlotAvailable should have kept it from (setup.go, "this should not
\* happen").
SlotsExclusive == \A p \in Procs : proc[p].pc = "bug" => p \in disturbed

\* No shell, before or after its work, stops or deletes a container whose
\* guest nobody told to stop, its own ("it can never force-stop a container
\* the user meant to keep") or another's, and leaving it changes nothing of
\* such a container; unless another command set up the same slot next to it,
\* or started the container that it was about to delete.
ShellHarmless ==
  [][\A p \in Procs \ disturbed :
       proc'[p] # proc[p] /\ Shell(p) /\ Box(p).st = "running" =>
         LET s == proc[p].slot IN
         /\ proc[p].pc \in Entering => inst'[s].st = "running"
         /\ proc[p].pc \in Leaving => inst'[s] = inst[s]]_vars

\* The pieces of history that some container or saved session has.
Live == UNION {inst[s].work : s \in Slots}
Safe == UNION {saved[p].data : p \in Procs}

WhereIs == [t \in Pieces |->
  IF t \notin made THEN "none"
  ELSE IF t \in Safe THEN "safe"
  ELSE IF t \in Live THEN "live" ELSE "gone"]

Promise == INSTANCE History
  WITH where <- WhereIs, waived <- announced \union outside

\* Sessions implement History: what was made under a coi shell stays in a
\* container or in a saved session, unless its removal was ordered or the
\* loss reported.
HistoryKept == Promise!Spec

\* A shell whose user powered the guest off does not leave an ephemeral
\* container behind, if Incus answers: it tells the poweroff from an exit,
\* though the shell dies before the guest knows of it.
PowerOffDeletes ==
  [][\A p \in Procs :
       proc[p].off /\ proc[p].pc \in Leaving /\ proc'[p].pc = "done" =>
         \/ proc[p].keep \/ p \in disturbed \/ trouble' = "incus"
         \/ p \notin inst'[proc[p].slot].users]_vars
=============================================================================
