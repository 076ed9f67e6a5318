------------------------------- MODULE Images --------------------------------
(***************************************************************************)
(* The images coi builds (image/builder.go, image/versions.go,             *)
(* image/meta.go, image/ubuntu_fetch.go, called from cli/build.go,         *)
(* cli/build_helpers.go and cli/images.go).  A build runs a script in the  *)
(* one container called coi-build, publishes that container as a new       *)
(* version, moves the alias that sessions launch from and records when it  *)
(* did so.  Commands run side by side; each call may fail, each command    *)
(* may be killed, and old versions are cleaned up meanwhile.               *)
(***************************************************************************)
EXTENDS Naturals, Sequences, FiniteSets, Picking

CONSTANTS Procs,
          MaxBuilds,    \* images to be built in a behaviour
          MaxTroubles,  \* failing calls and kills
          MaxRemovals   \* deletions and cleanups by the user

VARIABLES imgs,    \* the versions ever published, oldest first
          main,    \* image name -> version its alias names, 0 if none
          ubuntu,  \* the imported Ubuntu image is there
          box,     \* the container coi-build
          meta,    \* image-meta.json
          now,     \* the clock
          proc,    \* the commands
          waived,  \* why a promise may be broken: a known weakness was met
          builds, troubles, removals

vars == <<imgs, main, ubuntu, box, meta, now, proc, waived, builds, troubles, removals>>

\* The default image, and a profile's image built on the alias of the first.
Names == {"base", "child"}

NoBox == [by |-> "none", on |-> 0, up |-> FALSE, began |-> {}, ran |-> {}]
NoMeta == [n \in Names |-> 0]
NoProc == [pc |-> "idle", n |-> "none", forced |-> FALSE, new |-> 0,
           snap |-> NoMeta, todo |-> <<>>, next |-> <<>>]

Init ==
  /\ imgs = <<>> /\ main = [n \in Names |-> 0] /\ ubuntu = FALSE
  /\ box = NoBox /\ meta = NoMeta /\ now = 0
  /\ proc = [p \in Procs |-> NoProc]
  /\ waived = {} /\ builds = 0 /\ troubles = 0 /\ removals = 0

At(p, pc) == proc[p].pc = pc /\ UNCHANGED <<builds, removals>>
Fine == UNCHANGED troubles
Trouble == troubles < MaxTroubles /\ troubles' = troubles + 1
Goto(p, pc) == proc' = [proc EXCEPT ![p].pc = pc]
Idle(p) == proc' = [proc EXCEPT ![p] = NoProc]

\* The version is there: nobody deleted it.
There(i) == i # 0 /\ ~imgs[i].gone
Versions(n) == {i \in DOMAIN imgs : imgs[i].of = n /\ There(i)}

\* From the publication to the end of the record, the build's container may
\* be another's and what it found may have moved.
Late == {"clean", "find", "drop", "point", "load", "write"}

-----------------------------------------------------------------------------
(* Build: the container and the script in it.                               *)

\* The build of the next name of a command.
Turn(forced, names) ==
  [NoProc EXCEPT !.pc = "check", !.n = Head(names), !.forced = forced, !.next = Tail(names)]
Done(p) == proc' = [proc EXCEPT ![p] =
  IF proc[p].next = <<>> THEN NoProc ELSE Turn(proc[p].forced, proc[p].next)]

Begins(p, forced, names) ==
  /\ proc[p].pc = "idle" /\ builds + Len(names) <= MaxBuilds /\ Fine
  /\ builds' = builds + Len(names)
  /\ proc' = [proc EXCEPT ![p] = Turn(forced, names)]
  /\ UNCHANGED <<imgs, main, ubuntu, box, meta, now, waived, removals>>

BuildCommand(p) == \E n \in Names, forced \in BOOLEAN : Begins(p, forced, <<n>>)
\* The default profile comes first; a failing build does not end the command.
BuildAll(p) == \E forced \in BOOLEAN : Begins(p, forced, <<"base", "child">>)
\* What coi shell and coi run offer when the image is missing.
AutoBuild(p) == \E n \in Names : main[n] = 0 /\ Begins(p, FALSE, <<n>>)

\* Unless forced, a build is skipped when the alias exists.
Check(p) ==
  LET n == proc[p].n IN
  /\ At(p, "check")
  /\ \/ Fine /\ IF proc[p].forced \/ main[n] = 0
                 THEN Goto(p, IF n = "base" THEN "fetch" ELSE "launch") ELSE Done(p)
     \/ Trouble /\ Done(p)
  /\ UNCHANGED <<imgs, main, ubuntu, box, meta, now, waived>>

\* The Ubuntu image is imported once its files have the published checksums.
Cached(p) == /\ At(p, "fetch") /\ ubuntu /\ Fine /\ Goto(p, "launch")
             /\ UNCHANGED <<imgs, main, ubuntu, box, meta, now, waived>>
Download(p) == /\ At(p, "fetch") /\ ~ubuntu /\ Fine /\ Goto(p, "import")
               /\ UNCHANGED <<imgs, main, ubuntu, box, meta, now, waived>>
Import(p) == /\ At(p, "import") /\ ~ubuntu /\ Fine /\ Goto(p, "launch")
             /\ ubuntu' = TRUE
             /\ UNCHANGED <<imgs, main, box, meta, now, waived>>

\* What the container is launched from; version 0 stands for Ubuntu.
Parent(n) == IF n = "base" THEN 0 ELSE main["base"]
Launchable(n) == IF n = "base" THEN ubuntu ELSE main["base"] # 0

\* A launch while another build is between its publication and its record
\* may take the old version of what that build replaces.
Launch(p) ==
  LET n == proc[p].n IN
  /\ At(p, "launch") /\ box = NoBox /\ Launchable(n) /\ Fine
  /\ box' = [NoBox EXCEPT !.by = p, !.on = Parent(n), !.up = TRUE]
  /\ Goto(p, "network")
  /\ waived' = waived \cup
       (IF \E q \in Procs : proc[q].pc \in Late THEN {"crossed"} ELSE {})
  /\ UNCHANGED <<imgs, main, ubuntu, meta, now>>

\* The container is called coi-build in every build, so a command may work on
\* the container of another.
Shared(p) == IF box.by = p THEN {} ELSE {"shared"}

\* The wait for the network looks, for minutes, at whatever carries the name.
Network(p) ==
  /\ At(p, "network") /\ box.up /\ Fine /\ Goto(p, "script")
  /\ waived' = waived \cup Shared(p)
  /\ UNCHANGED <<imgs, main, ubuntu, box, meta, now>>
ScriptBegins(p) ==
  /\ At(p, "script") /\ box.up /\ Fine /\ Goto(p, "running")
  /\ box' = [box EXCEPT !.began = @ \cup {proc[p].n}]
  /\ waived' = waived \cup Shared(p)
  /\ UNCHANGED <<imgs, main, ubuntu, meta, now>>
\* As if the exit status of the script were not looked at.
ScriptEndsAnyhow(p) ==
  /\ At(p, "running") /\ box.up /\ Fine /\ Goto(p, "stop")
  /\ waived' = waived \cup Shared(p)
  /\ UNCHANGED <<imgs, main, ubuntu, box, meta, now>>
ScriptEnds(p) ==
  /\ At(p, "running") /\ box.up /\ Fine /\ Goto(p, "stop")
  /\ box' = [box EXCEPT !.ran = @ \cup {proc[p].n}]
  /\ waived' = waived \cup Shared(p)
  /\ UNCHANGED <<imgs, main, ubuntu, meta, now>>

-----------------------------------------------------------------------------
(* createImage: stop, publish, and the container is not needed any more.    *)

\* As if the alias were freed for the new version at once.
StopFreesAlias(p) ==
  /\ At(p, "stop") /\ box.up /\ Fine /\ Goto(p, "publish")
  /\ box' = [box EXCEPT !.up = FALSE]
  /\ main' = [main EXCEPT ![proc[p].n] = 0]
  /\ waived' = waived \cup Shared(p)
  /\ UNCHANGED <<imgs, ubuntu, meta, now>>
Stop(p) ==
  /\ At(p, "stop") /\ box.up /\ Fine /\ Goto(p, "publish")
  /\ box' = [box EXCEPT !.up = FALSE]
  /\ waived' = waived \cup Shared(p)
  /\ UNCHANGED <<imgs, main, ubuntu, meta, now>>

\* The image is what is in the container: whole if the script of its name,
\* and no other, ran in it from its first line to its last.
Publish(p) ==
  LET n == proc[p].n IN
  /\ At(p, "publish") /\ box # NoBox /\ ~box.up /\ Fine
  /\ imgs' = Append(imgs, [of |-> n, on |-> box.on, gone |-> FALSE,
                           whole |-> box.began = {n} /\ box.ran = {n}])
  /\ proc' = [proc EXCEPT ![p].pc = "clean", ![p].new = Len(imgs) + 1]
  /\ waived' = waived \cup Shared(p)
  /\ UNCHANGED <<main, ubuntu, box, meta, now>>

\* cleanup stops and deletes the container called coi-build, best effort,
\* after a success as after a failure.
Clean(p) ==
  /\ At(p, "clean") /\ Fine /\ Goto(p, "find")
  /\ box' = NoBox
  /\ UNCHANGED <<imgs, main, ubuntu, meta, now, waived>>
CleanFails(p) ==
  /\ At(p, "clean") /\ box # NoBox /\ Trouble /\ Goto(p, "find")
  /\ UNCHANGED <<imgs, main, ubuntu, box, meta, now, waived>>

-----------------------------------------------------------------------------
(* Every call of Build up to the publication may fail, for trouble or for   *)
(* what another command did; then cleanup runs and the build is over.       *)

Refused(p) ==
  LET b == proc[p] IN
  \/ b.pc = "import" /\ ubuntu
  \/ b.pc = "launch" /\ (box # NoBox \/ ~Launchable(b.n))
  \/ b.pc \in {"network", "script", "running", "stop"} /\ ~box.up
  \/ b.pc = "publish" /\ (box = NoBox \/ box.up)

Fails(p) ==
  /\ At(p, proc[p].pc) /\ Goto(p, "undo")
  /\ \/ Refused(p) /\ Fine /\ UNCHANGED box
     \/ /\ proc[p].pc \in {"fetch", "import", "launch", "network", "script", "running",
                               "stop", "publish"}
        /\ Trouble
        /\ \/ UNCHANGED box
           \* The container was created and did not start.
           \/ proc[p].pc = "launch" /\ box = NoBox /\ Launchable(proc[p].n)
              /\ box' = [NoBox EXCEPT !.by = p, !.on = Parent(proc[p].n)]
  /\ UNCHANGED <<imgs, main, ubuntu, meta, now, waived>>

Undo(p) ==
  /\ At(p, "undo") /\ Done(p)
  /\ \/ Fine /\ box' = NoBox
     \/ Trouble /\ UNCHANGED box
  /\ UNCHANGED <<imgs, main, ubuntu, meta, now, waived>>

-----------------------------------------------------------------------------
(* updateAlias: look the version up, delete the old alias, create the new.  *)

Find(p) ==
  /\ At(p, "find")
  /\ \/ Fine /\ IF There(proc[p].new) THEN Goto(p, "drop") /\ UNCHANGED waived
                                      ELSE Done(p) /\ waived' = waived \cup {"orphan"}
     \/ Trouble /\ Done(p) /\ waived' = waived \cup {"orphan"}
  /\ UNCHANGED <<imgs, main, ubuntu, box, meta, now>>

\* Best effort.
Drop(p) ==
  /\ At(p, "drop") /\ Goto(p, "point")
  /\ \/ Fine /\ main' = [main EXCEPT ![proc[p].n] = 0]
     \/ Trouble /\ UNCHANGED main
  /\ UNCHANGED <<imgs, ubuntu, box, meta, now, waived>>

Point(p) ==
  /\ At(p, "point") /\ main[proc[p].n] = 0 /\ There(proc[p].new) /\ Fine
  /\ main' = [main EXCEPT ![proc[p].n] = proc[p].new]
  /\ Goto(p, "load")
  /\ UNCHANGED <<imgs, ubuntu, box, meta, now, waived>>
\* Neither the old version nor the new has the alias now, unless another
\* build has just set it.
PointFails(p) ==
  /\ At(p, "point") /\ Done(p)
  /\ \/ Trouble
     \/ (main[proc[p].n] # 0 \/ ~There(proc[p].new)) /\ Fine
  /\ waived' = waived \cup {"orphan", "gap"}
  /\ UNCHANGED <<imgs, main, ubuntu, box, meta, now>>

-----------------------------------------------------------------------------
(* RecordBuild: read the file, write it with the new entry.                 *)

Load(p) ==
  /\ At(p, "load") /\ Fine
  /\ proc' = [proc EXCEPT ![p].pc = "write", ![p].snap = meta]
  /\ UNCHANGED <<imgs, main, ubuntu, box, meta, now, waived>>

\* As if the file held the last build only.
WriteOnlyOwn(p) ==
  /\ At(p, "write") /\ Done(p) /\ now' = now + 1 /\ Fine
  /\ meta' = [NoMeta EXCEPT ![proc[p].n] = now + 1]
  /\ UNCHANGED <<imgs, main, ubuntu, box, waived>>
\* Errors are ignored; a truncated file reads as an empty one.
Write(p) ==
  /\ At(p, "write") /\ Done(p) /\ now' = now + 1
  /\ \/ Fine /\ meta' = [proc[p].snap EXCEPT ![proc[p].n] = now + 1] /\ UNCHANGED waived
     \/ Trouble /\ meta' \in {meta, NoMeta} /\ waived' = waived \cup {"unrecorded"}
  /\ UNCHANGED <<imgs, main, ubuntu, box>>

\* CheckStaleBase, before coi shell and coi run launch from the child.
Reported == meta["child"] # 0 /\ meta["base"] # 0 /\ meta["base"] > meta["child"]

-----------------------------------------------------------------------------
(* The user's own commands, and the end of a process.                       *)

\* A killed build leaves the container, a version without the alias, or no
\* alias at all.
Kill(p) ==
  LET pc == proc[p].pc IN
  /\ pc # "idle" /\ Trouble /\ Idle(p)
  /\ waived' = waived
       \cup (IF pc \in {"clean", "find", "drop", "point"} THEN {"orphan"} ELSE {})
       \cup (IF pc = "point" THEN {"gap"} ELSE {})
       \cup (IF pc \in {"load", "write"} THEN {"unrecorded"} ELSE {})
  /\ UNCHANGED <<imgs, main, ubuntu, box, meta, now, builds, removals>>

\* An image goes with all its aliases.
RemoveImage(i) ==
  /\ imgs' = [imgs EXCEPT ![i].gone = TRUE]
  /\ main' = [n \in Names |-> IF main[n] = i THEN 0 ELSE main[n]]

Delete ==
  /\ removals < MaxRemovals /\ removals' = removals + 1
  /\ \E n \in Names : main[n] # 0 /\ RemoveImage(main[n])
  /\ waived' = waived \cup {"deleted"}
  /\ UNCHANGED <<ubuntu, box, meta, now, proc, builds, troubles>>

\* Oldest first; but a version with a first alias that carries no time, which
\* the alias without suffix is, comes before all others.
ByAge(set, bare) ==
  LET aged(versions) == Pick([i \in DOMAIN imgs |-> i], versions) IN
  aged(set \cap {bare}) \o aged(set \ {bare})

\* All but the newest.
Old(aged, keep) == SubSeq(aged, 1, Len(aged) - keep)

\* coi image cleanup: the prefix is that of the versions, or, without its
\* last dash, also that of the alias; which one Incus lists first is its own.
List(p) ==
  /\ proc[p].pc = "idle" /\ removals < MaxRemovals /\ removals' = removals + 1 /\ Fine
  /\ \E n \in Names, dash \in BOOLEAN, keep \in {1, 2} :
       \E bare \in IF dash THEN {0} ELSE {0, main[n]} :
         LET found == ByAge(Versions(n), bare) IN
         /\ Len(found) > keep
         /\ proc' = [proc EXCEPT ![p] = [NoProc EXCEPT !.pc = "prune", !.n = n,
                       !.todo = Old(found, keep)]]
         /\ waived' = waived \cup (IF bare = 0 THEN {} ELSE {"bare"})
  /\ UNCHANGED <<imgs, main, ubuntu, box, meta, now, builds>>

\* The first failing deletion ends the command.
Prune(p) ==
  LET i == Head(proc[p].todo) IN
  /\ At(p, "prune")
  /\ \/ /\ There(i) /\ Fine /\ RemoveImage(i)
        /\ IF Len(proc[p].todo) = 1 THEN Idle(p)
           ELSE proc' = [proc EXCEPT ![p].todo = Tail(@)]
     \/ /\ There(i) /\ Trouble /\ Idle(p) /\ UNCHANGED <<imgs, main>>
     \/ ~There(i) /\ Fine /\ Idle(p) /\ UNCHANGED <<imgs, main>>
  /\ UNCHANGED <<ubuntu, box, meta, now, waived>>

-----------------------------------------------------------------------------
Next ==
  \/ \E p \in Procs :
       \/ BuildCommand(p) \/ BuildAll(p) \/ AutoBuild(p) \/ Check(p) \/ Cached(p) \/ Download(p) \/ Import(p) \/ Launch(p)
       \/ Network(p) \/ ScriptBegins(p) \/ ScriptEnds(p) \/ Stop(p) \/ Publish(p)
       \/ Clean(p) \/ CleanFails(p) \/ Fails(p) \/ Undo(p)
       \/ Find(p) \/ Drop(p) \/ Point(p) \/ PointFails(p)
       \/ Load(p) \/ Write(p) \/ Kill(p) \/ List(p) \/ Prune(p)
  \/ Delete

Spec == Init /\ [][Next]_vars

-----------------------------------------------------------------------------
(* Properties *)

But(reasons) == waived \cap reasons # {}
Overlap == {"crossed", "shared"}  \* builds that met in coi-build or after it
Broken == {"orphan", "gap"}       \* a build that ended after its publication
Removed == {"deleted", "bare"}    \* what the user deleted
Within(n, pcs) == \E p \in Procs : proc[p].n = n /\ proc[p].pc \in pcs

\* What an alias names is there and is the outcome of a whole script of that
\* name on its own base, however builds, failures and kills interleave;
\* except that a build may have worked in the container of another.
AliasWhole ==
  \A n \in Names : main[n] # 0 =>
    /\ There(main[n]) /\ imgs[main[n]].of = n
    /\ But({"shared"}) \/ (imgs[main[n]].whole /\ (n = "child" <=> imgs[main[n]].on # 0))

\* A rebuild that fails leaves the image usable: the alias of a name that was
\* built goes only for the moment of its move, unless the user deletes the
\* image, or the build ends in that moment.
StaysUsable ==
  \A n \in Names :
    main[n] = 0 /\ (\E i \in DOMAIN imgs : imgs[i].of = n) =>
      \/ Within(n, Late) \/ But(Overlap \cup Broken \cup Removed)

\* Whoever launches from the child is told that its base was rebuilt exactly
\* when the child was built on another version of the base, although both
\* times are those of the records and not of the launch; unless a build is
\* just being recorded, was not recorded, or overlapped another's record.
StaleTold ==
  main["child"] # 0 /\ main["base"] # 0 /\ (\A n \in Names : ~Within(n, Late)) =>
    \/ Reported <=> imgs[main["child"]].on # main["base"]
    \/ But(Overlap \cup Broken \cup Removed \cup {"unrecorded"})

=============================================================================
