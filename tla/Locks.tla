-------------------------------- MODULE Locks --------------------------------
(***************************************************************************)
(* The immutable bits that a command sets on the protected paths of the    *)
(* workspace before it starts its container, the manifests that record     *)
(* them for a later coi clean, and their removal when the command ends     *)
(* (session/immutable.go, called from session/setup.go, session/cleanup.go,*)
(* cli/phases_run.go and cli/clean.go).  Commands share the workspace, each*)
(* in a container of its own or two in one; any of them may be killed, and *)
(* every ioctl and every write of a manifest may fail.                     *)
(***************************************************************************)
EXTENDS Naturals, Sequences, FiniteSets, Picking

CONSTANTS Procs, Conts,
          MaxCommands,  \* commands of a behaviour
          MaxTroubles   \* failing calls and kills

VARIABLES bits,   \* the immutable entries of the workspace
          man,    \* container -> paths of its manifest, {} if there is none
          inst,   \* container -> its state
          proc,   \* the commands
          lost,   \* entries whose bits no manifest records, for a known reason
          commands, troubles

vars == <<bits, man, inst, proc, lost, commands, troubles>>

\* A protected directory with an entry in it, and a protected file.  An entry
\* is of the path it is or lies in.
Paths == {"hooks", "conf"}
Entries == Paths \cup {"hook"}
PathOf(e) == IF e = "hook" THEN "hooks" ELSE e
Of(paths) == {e \in Entries : PathOf(e) \in paths}

Only(order, paths) == Pick(order, {i \in DOMAIN order : PathOf(order[i]) \in paths})
Setting(paths) == Only(<<"hook", "hooks", "conf">>, paths)   \* leaves first
Clearing(paths) == Only(<<"hooks", "hook", "conf">>, paths)  \* the root first
OtherPaths(steps) == Pick(steps, {i \in DOMAIN steps : PathOf(steps[i]) # PathOf(Head(steps))})
SkipPath(p) == OtherPaths(proc[p].steps)

\* want: the paths to be locked; got: those that are; steps: the entries to
\* set or clear; after: what follows the removal; loose: another command
\* cleared bits of this one, or took its container for its own; overtaken:
\* another command wrote the manifest while this one cleared it; sure: clean
\* saw that the container is gone, and nobody has made it again since.
NoProc == [pc |-> "idle", c |-> "none", want |-> {}, got |-> {},
           steps |-> <<>>, after |-> "idle", failed |-> FALSE, loose |-> FALSE,
           overtaken |-> FALSE, todo |-> {}, sure |-> FALSE]

Init ==
  /\ bits = {} /\ lost = {}
  /\ man = [c \in Conts |-> {}]
  /\ inst = [c \in Conts |-> "none"]
  /\ proc = [p \in Procs |-> NoProc]
  /\ commands = 0 /\ troubles = 0

At(p, pc) == proc[p].pc = pc /\ UNCHANGED commands
Fine == UNCHANGED troubles
Trouble == troubles < MaxTroubles /\ troubles' = troubles + 1
Set(p, r) == proc' = [proc EXCEPT ![p] = r]
Goto(p, pc) == proc' = [proc EXCEPT ![p].pc = pc]
Idle(p) == Set(p, NoProc)

-----------------------------------------------------------------------------
(* A command begins.                                                        *)

Begins(p) == /\ proc[p].pc = "idle" /\ commands < MaxCommands /\ Fine
             /\ commands' = commands + 1
             /\ UNCHANGED <<bits, man, lost>>

\* A container that is not running is created or prepared again, whatever
\* another command, or a clean that looked before, is doing with its name.
Launch(p) ==
  /\ Begins(p)
  /\ \E c \in Conts, w \in SUBSET Paths \ {{}} :
       /\ inst[c] # "running"
       /\ inst' = [inst EXCEPT ![c] = "stopped"]
       /\ proc' = [q \in Procs |->
            IF q = p THEN [NoProc EXCEPT !.pc = "apply", !.c = c, !.want = w, !.steps = Setting(w)]
            ELSE [proc[q] EXCEPT !.loose = @ \/ proc[q].c = c, !.sure = @ /\ proc[q].c # c]]
\* A shell enters a container that runs, and locks nothing.
Enter(p) ==
  /\ Begins(p) /\ UNCHANGED inst
  /\ \E c \in Conts : inst[c] = "running" /\ Set(p, [NoProc EXCEPT !.pc = "on", !.c = c])
\* A run that finds the container running is refused: the launch failed, and
\* what the hook may have locked is released.
Refused(p) ==
  /\ Begins(p) /\ UNCHANGED inst
  /\ \E c \in Conts : inst[c] = "running"
       /\ Set(p, [NoProc EXCEPT !.pc = "load", !.c = c])

-----------------------------------------------------------------------------
(* ApplyImmutable: entry by entry, then the manifest.                       *)

SetEntry(p) ==
  LET e == Head(proc[p].steps) IN
  /\ At(p, "apply") /\ proc[p].steps # <<>> /\ Fine
  /\ bits' = bits \cup {e}
  /\ proc' = [proc EXCEPT ![p].steps = Tail(@), ![p].got = @ \cup ({e} \cap Paths)]
  /\ UNCHANGED <<man, inst, lost>>

\* The entries of an unfinished path that carry the bit already.
Unfinished(p) == bits \cap Of({PathOf(Head(proc[p].steps))})

\* The path is given up with a warning, the other paths follow.
SetFails(p) ==
  /\ At(p, "apply") /\ proc[p].steps # <<>> /\ Trouble
  /\ lost' = lost \cup Unfinished(p)
  /\ proc' = [proc EXCEPT ![p].steps = SkipPath(p)]
  /\ UNCHANGED <<bits, man, inst>>

\* p leaves for the start; those who clear the manifest it writes are overtaken.
Saved(p, got) ==
  proc' = [q \in Procs |->
    IF q = p THEN [proc[q] EXCEPT !.pc = "start", !.got = got]
    ELSE [proc[q] EXCEPT !.overtaken = @ \/ (proc[q].pc = "clear" /\ proc[q].c = proc[p].c)]]

\* No capability or no such attribute: what was locked is recorded, and the
\* session goes on as if nothing were.
Degraded(p, m) ==
  /\ At(p, "apply") /\ proc[p].steps # <<>> /\ Trouble
  /\ lost' = lost \cup Unfinished(p)
             \cup (IF m = man[proc[p].c] THEN {} ELSE bits \cap Of(man[proc[p].c] \ m))
  /\ man' = [man EXCEPT ![proc[p].c] = m]
  /\ Saved(p, {})
  /\ UNCHANGED <<bits, inst>>
SetUnsupported(p) == Degraded(p, IF proc[p].got = {} THEN man[proc[p].c] ELSE proc[p].got)

\* The manifest of an earlier session of the container is overwritten.
Save(p) ==
  /\ At(p, "apply") /\ proc[p].steps = <<>> /\ proc[p].got # {} /\ Fine
  /\ man' = [man EXCEPT ![proc[p].c] = proc[p].got]
  /\ lost' = lost \cup (bits \cap Of(man[proc[p].c] \ proc[p].got))
  /\ Saved(p, proc[p].got)
  /\ UNCHANGED <<bits, inst>>
NothingToSave(p) == /\ At(p, "apply") /\ proc[p].steps = <<>> /\ proc[p].got = {} /\ Fine
                    /\ Goto(p, "start") /\ UNCHANGED <<bits, man, inst, lost>>
SaveFails(p) ==
  /\ At(p, "apply") /\ proc[p].steps = <<>> /\ proc[p].got # {} /\ Trouble
  /\ lost' = lost \cup (bits \cap Of(proc[p].got))
  /\ Goto(p, "start") /\ UNCHANGED <<bits, man, inst>>

Start(p) ==
  /\ At(p, "start") /\ inst[proc[p].c] = "stopped" /\ Fine
  /\ inst' = [inst EXCEPT ![proc[p].c] = "running"]
  /\ Goto(p, "on") /\ UNCHANGED <<bits, man, lost>>
\* A shell whose launch fails leaves things as they are, run cleans up.
StartFailsShell(p) == /\ At(p, "start") /\ Trouble /\ Idle(p)
                      /\ UNCHANGED <<bits, man, inst, lost>>
StartFailsRun(p) ==
  /\ At(p, "start") /\ Trouble
  /\ inst' = [inst EXCEPT ![proc[p].c] = IF @ = "running" THEN @ ELSE "none"]
  /\ proc' = [proc EXCEPT ![p].pc = "load", ![p].after = "idle"]
  /\ UNCHANGED <<bits, man, lost>>

-----------------------------------------------------------------------------
(* The end: first RemoveImmutable, then the container.                      *)

End(p) ==
  /\ At(p, "on") /\ Fine
  /\ \E a \in {"delete", "keep"} : proc' = [proc EXCEPT ![p].pc = "load", ![p].after = a]
  /\ UNCHANGED <<bits, man, inst, lost>>

Load(p) ==
  /\ At(p, "load") /\ Fine
  /\ proc' = [proc EXCEPT ![p].pc = "clear", ![p].steps = Clearing(man[proc[p].c]),
                          ![p].failed = FALSE, ![p].overtaken = FALSE]
  /\ UNCHANGED <<bits, man, inst, lost>>

\* The commands whose bit this is, other than the one that clears it; those of
\* a container that is gone have lost nothing by it.
Loosened(p, e) ==
  {q \in Procs \ {p} : /\ proc[q].pc \in {"apply", "start", "on"} /\ PathOf(e) \in proc[q].want
                       /\ ~(proc[p].sure /\ proc[q].c = proc[p].c)}

ClearEntry(p) ==
  LET e == Head(proc[p].steps) IN
  /\ At(p, "clear") /\ proc[p].steps # <<>> /\ Fine
  /\ bits' = bits \ {e} /\ lost' = lost \ {e}
  /\ proc' = [q \in Procs |->
       IF q = p THEN [proc[q] EXCEPT !.steps = Tail(@)]
       ELSE IF q \in Loosened(p, e) THEN [proc[q] EXCEPT !.loose = TRUE] ELSE proc[q]]
  /\ UNCHANGED <<man, inst>>
\* As if a missing capability were like a file system without the attribute.
ClearIgnored(p) ==
  /\ At(p, "clear") /\ proc[p].steps # <<>> /\ Trouble
  /\ proc' = [proc EXCEPT ![p].steps = SkipPath(p)]
  /\ UNCHANGED <<bits, man, inst, lost>>
ClearFails(p) ==
  /\ At(p, "clear") /\ proc[p].steps # <<>> /\ Trouble
  /\ proc' = [proc EXCEPT ![p].steps = SkipPath(p), ![p].failed = TRUE]
  /\ UNCHANGED <<bits, man, inst, lost>>

\* The manifest goes only if everything was cleared, whoever wrote it.
Forget(p) ==
  /\ At(p, "clear") /\ proc[p].steps = <<>> /\ Fine
  /\ man' = [man EXCEPT ![proc[p].c] = IF proc[p].failed THEN @ ELSE {}]
  /\ lost' = IF proc[p].overtaken THEN lost \cup (bits \cap Of(man[proc[p].c])) ELSE lost
  /\ IF proc[p].after = "idle" THEN Idle(p) ELSE Goto(p, proc[p].after)
  /\ UNCHANGED <<bits, inst>>

Delete(p) == /\ At(p, "delete") /\ Fine /\ Idle(p)
             /\ inst' = [inst EXCEPT ![proc[p].c] = "none"]
             /\ UNCHANGED <<bits, man, lost>>
\* Kept: stopped, or running when the shell was only left.
Keep(p) == /\ At(p, "keep") /\ Fine /\ Idle(p)
           /\ \E s \in {"stopped", "running"} :
                inst' = [inst EXCEPT ![proc[p].c] = IF @ = "none" THEN @ ELSE s]
           /\ UNCHANGED <<bits, man, lost>>

-----------------------------------------------------------------------------
(* coi clean, and what happens outside.                                     *)

Clean(p) == /\ Begins(p) /\ UNCHANGED inst
            /\ Set(p, [NoProc EXCEPT !.pc = "clean", !.todo = {c \in Conts : man[c] # {}}])

CleanNext(p, c) == c \in proc[p].todo /\ At(p, "clean") /\ UNCHANGED <<bits, man, inst, lost>>
CleanSkips(p, c) == /\ CleanNext(p, c) /\ inst[c] # "none" /\ Fine
                    /\ proc' = [proc EXCEPT ![p].todo = @ \ {c}]
Unlocks(p, c, sure) ==
  proc' = [proc EXCEPT ![p].todo = @ \ {c}, ![p].pc = "load", ![p].c = c,
                       ![p].after = "clean", ![p].sure = sure]
\* As if every stopped container were gone.
CleanStopped(p, c) == CleanNext(p, c) /\ Fine /\ Unlocks(p, c, TRUE)
CleanUnlocks(p, c) == CleanNext(p, c) /\ inst[c] = "none" /\ Fine /\ Unlocks(p, c, TRUE)
\* An error of Incus counts as gone.
CleanUnsure(p, c) == CleanNext(p, c) /\ Trouble /\ Unlocks(p, c, FALSE)
CleanEnds(p) == /\ At(p, "clean") /\ proc[p].todo = {} /\ Fine /\ Idle(p)
                /\ UNCHANGED <<bits, man, inst, lost>>

\* A kill while the bits are set leaves those no manifest has yet.
Kill(p) ==
  /\ proc[p].pc # "idle" /\ Trouble /\ Idle(p)
  /\ lost' = IF proc[p].pc = "apply" THEN lost \cup (bits \cap Of(proc[p].want)) ELSE lost
  /\ UNCHANGED <<bits, man, inst, commands>>

DeletedOutside(c) == /\ inst[c] # "none" /\ Trouble
                     /\ inst' = [inst EXCEPT ![c] = "none"]
                     /\ UNCHANGED <<bits, man, proc, lost, commands>>

Applies(p) == SetEntry(p) \/ SetFails(p) \/ SetUnsupported(p) \/ Save(p) \/ NothingToSave(p) \/ SaveFails(p)
              \/ Start(p) \/ StartFailsShell(p) \/ StartFailsRun(p)
Removes(p) == End(p) \/ Load(p) \/ ClearEntry(p) \/ ClearFails(p) \/ Forget(p)
              \/ Delete(p) \/ Keep(p)
Cleans(p) == Clean(p) \/ CleanEnds(p)
             \/ \E c \in Conts : CleanSkips(p, c) \/ CleanUnlocks(p, c) \/ CleanUnsure(p, c)

Next == \/ \E p \in Procs : \/ Launch(p) \/ Enter(p) \/ Refused(p)
                            \/ Applies(p) \/ Removes(p) \/ Cleans(p) \/ Kill(p)
        \/ \E c \in Conts : DeletedOutside(c)

Spec == Init /\ [][Next]_vars

-----------------------------------------------------------------------------
(* Properties.                                                              *)

TypeOK ==
  /\ bits \subseteq Entries /\ lost \subseteq bits
  /\ man \in [Conts -> SUBSET Paths]
  /\ inst \in [Conts -> {"none", "stopped", "running"}]
  /\ \A p \in Procs : proc[p].got \subseteq proc[p].want

\* Every bit is in a manifest from which coi clean can clear it, or the
\* command that sets it is at it; lost are those of a path that was given up
\* half way, of a kill before the manifest, of a manifest that could not be
\* written, that a later session overwrote, or that a command removed when
\* another had just written it (ApplyImmutable and
\* RemoveImmutable: no immutable files with no recovery record).
Recorded ==
  \A e \in bits \ lost :
    \/ \E c \in Conts : PathOf(e) \in man[c]
    \/ \E p \in Procs : proc[p].pc = "apply" /\ PathOf(e) \in proc[p].want

\* A session that was told its paths are locked has them locked while it
\* runs, until another command of the workspace ends or is refused, another
\* is launched into its container, or a clean could not tell that the
\* container exists or looked before it did: a clean that can tell never
\* unlocks a container that was there when it looked
\* (CleanStaleImmutableLocks).
LocksHeld ==
  \A p \in Procs :
    proc[p].pc = "on" /\ inst[proc[p].c] = "running" /\ ~proc[p].loose =>
      Of(proc[p].got) \subseteq bits

=============================================================================
