--------------------------- MODULE SessionsProofs ---------------------------
(***************************************************************************)
(* The commands of a workspace, for any number of commands and slots, with *)
(* every failure, crash and outside command of Sessions: setup never meets *)
(* a container that runs (naming.go, setup.go), a cleanup tells a poweroff *)
(* from an exit (cleanup.go), and neither harms a container in use.        *)
(*                                                                         *)
(* The invariant says what an undisturbed command may count on of the      *)
(* container that has its name by now (OwnAt).  Turns and Goes say what    *)
(* one step does to a command and to its container, Yields what is done to *)
(* a container from outside; the induction is over these.                  *)
(***************************************************************************)
EXTENDS Sessions, PickingProofs

-----------------------------------------------------------------------------
(* The commands of a workspace: types, and what is known of each command.   *)

Cell == [st : {"none", "created", "running", "queued", "stopping", "stopped"},
         users : SUBSET Procs, work : SUBSET Pieces, asked : 0..Enqueued, eph : BOOLEAN]
Saved == [slot : 0..NumSlots, keep : BOOLEAN, data : SUBSET Pieces]
Process == [pc : {"idle", "work", "done", "dead", "bug"} \union Entering \union Leaving,
            way : {"auto", "slot", "resume", "run"}, slot : Slots, sid : Procs,
            keep : BOOLEAN, new : BOOLEAN, failed : BOOLEAN, healthy : 0..Streak, off : BOOLEAN]

Over == {"idle", "done", "dead", "bug"}
Ups == {"running", "queued", "stopping"}

\* Two commands that set up one slot know that they are disturbed.
OverlapInv == \A p, q \in Procs :
  /\ p # q /\ proc[p].slot = proc[q].slot
  /\ proc[p].pc \in Entering /\ proc[q].pc \in Entering
  => p \in disturbed
\* A container that is gone leaves nothing.
NoneInv == \A s \in Slots : inst[s].st = "none" => inst[s] = NoInst

\* Where a command is down, or may count on its container being so.
Expects(r, kind) ==
  \/ r.pc = "enter" /\ ~r.keep /\ r.way \in {"auto", "slot"}
  \/ r.pc \in {"leftover", "start"}
  \/ r.pc = "again" /\ kind # "incus"
Stopping(r) == r.off \/ r.pc \in {"wait", "again", "delete"}

\* What a command with record r may count on of the container u that has its
\* name: nobody starts it before, and nobody after, it did; d says whether the
\* command was disturbed.
OwnAt(d, r, u, kind) ==
  /\ r.pc = "failed" => r.way = "run"
  /\ r.pc = "delete" => ~r.keep
  /\ r.pc \in Leaving \ {"exists"} => r.way # "run"
  /\ r.off => r.way # "run" /\ r.pc \in Leaving
  /\ r.healthy < Streak /\ (r.healthy # 0 => r.pc = "ask")
  /\ ~d => /\ r.pc # "bug"
           /\ Expects(r, kind) => u.st \notin Ups
           /\ Stopping(r) => u.st # "running"
           /\ r.off /\ u.st = "queued" => r.healthy <= u.asked

OwnInv == \A p \in Procs : OwnAt(p \in disturbed, proc[p], Box(p), trouble)
IInv == TypeOK /\ OverlapInv /\ NoneInv /\ OwnInv

\* The slots are there, and so are the records of before.
LEMMA Typing ==
  /\ 1 \in Slots /\ 0 \in 0..Streak /\ 0 \in 0..Enqueued /\ Slots \subseteq 0..NumSlots
  /\ NoInst \in Cell /\ NoSession \in Saved
  /\ \A p \in Procs : NoProc(p) \in Process
<1>1. NumSlots \in Nat \ {0} /\ Streak \in Nat \ {0} /\ Enqueued \in Nat
  BY SessionsAssumption
<1>2. 1 \in Slots /\ 0 \in 0..Streak /\ 0 \in 0..Enqueued /\ Slots \subseteq 0..NumSlots /\ 0 \in 0..NumSlots
  BY <1>1 DEF Slots
<1> QED  BY <1>2 DEF NoInst, Cell, NoSession, Saved, NoProc, Process

LEMMA Types == TypeOK <=> /\ mode \in {"yes", "no", "unset"} /\ trouble \in Troubles \union {"none"}
                          /\ inst \in [Slots -> Cell] /\ saved \in [Procs -> Saved]
                          /\ proc \in [Procs -> Process] /\ used \in BOOLEAN /\ listed \subseteq Slots
                          /\ disturbed \subseteq Procs
                          /\ made \subseteq Pieces /\ announced \subseteq Pieces /\ outside \subseteq Pieces
  BY DEF TypeOK, Cell, Saved, Process

LEMMA SessionsInit == Init => IInv
<1> SUFFICES ASSUME Init PROVE IInv
  OBVIOUS
<1>1. TypeOK
  BY SessionsAssumption, Typing, Types DEF Init
<1>2. /\ \A p \in Procs : proc[p] = NoProc(p)
      /\ \A s \in Slots : inst[s] = NoInst
  BY DEF Init
<1>3. ASSUME NEW p \in Procs
      PROVE  proc[p].pc = "idle" /\ ~proc[p].off /\ proc[p].healthy = 0 /\ proc[p].slot = 1
  <2>1. PICK x : x = NoProc(p)
    OBVIOUS
  <2>2. x.pc = "idle" /\ ~x.off /\ x.healthy = 0 /\ x.slot = 1
    BY <2>1 DEF NoProc
  <2> QED  BY <1>2, <2>1, <2>2
<1>4. OverlapInv /\ NoneInv
  BY <1>2, <1>3 DEF OverlapInv, NoneInv, Entering
<1>5. OwnInv
  BY <1>3, SessionsAssumption DEF OwnInv, OwnAt, Expects, Stopping, Leaving
<1> QED  BY <1>1, <1>4, <1>5 DEF IInv

-----------------------------------------------------------------------------
(* The step of one command.                                                 *)

\* The container of slot s becomes v.  Only a command that starts it makes it
\* run, and those who are leaving it are disturbed by that.
BoxTurns(p, s, v) ==
  LET u == inst[s]
      starts == /\ proc[p].pc = "start" /\ proc[p].slot = s
                /\ LeftBehind(s) \subseteq disturbed' IN
  /\ v \in Cell
  /\ v.st = "none" => v = NoInst
  /\ v.st \in Ups => u.st \in Ups \/ starts
  /\ v.st = "running" => u.st = "running" \/ starts
  /\ v.st = "queued" => u.st = "running" \/ (u.st = "queued" /\ u.asked <= v.asked)
\* The command becomes r: it ends, goes on, or begins; then those who set up the
\* slot are disturbed, and so is the command.
ProcTurns(p, s, r) ==
  /\ r \in Process
  /\ \/ r.pc \notin Entering
     \/ proc[p].pc \in Entering /\ r.slot = proc[p].slot
     \/ /\ r.slot = s /\ SettingUp(s) \subseteq disturbed'
        /\ SettingUp(s) # {} => p \in disturbed'
\* What is known of it.
Knows(p, s, r, v) ==
  \/ r.pc \in {"done", "dead"} /\ ~r.off /\ r.healthy = 0
  \/ r.slot = s /\ OwnAt(p \in disturbed', r, v, trouble')
Turns(p, s, r, v) ==
  /\ proc' = [proc EXCEPT ![p] = r] /\ inst' = [inst EXCEPT ![s] = v]
  /\ disturbed \subseteq disturbed'
  /\ mode' = mode /\ (trouble = "incus" => trouble' = "incus")
  /\ BoxTurns(p, s, v) /\ ProcTurns(p, s, r) /\ Knows(p, s, r, v)

LEMMA TurnKeeps ==
  ASSUME IInv, TypeOK', NEW p \in Procs, NEW s \in Slots, NEW r, NEW v, Turns(p, s, r, v)
  PROVE  IInv'
<1>1. /\ inst \in [Slots -> Cell] /\ proc \in [Procs -> Process] /\ v \in Cell /\ r \in Process
  BY Types DEF IInv, Turns, BoxTurns, ProcTurns
<1>2. /\ proc'[p] = r /\ \A q \in Procs \ {p} : proc'[q] = proc[q]
      /\ inst'[s] = v /\ \A t \in Slots \ {s} : inst'[t] = inst[t]
  BY <1>1 DEF Turns
<1>3. ASSUME NEW q \in Procs \ {p}, r.pc \in Entering, proc[q].pc \in Entering,
             r.slot = proc[q].slot
      PROVE  p \in disturbed' /\ q \in disturbed'
  <2>1. CASE proc[p].pc \in Entering /\ r.slot = proc[p].slot
    BY <1>3, <2>1 DEF IInv, OverlapInv, Turns
  <2>2. CASE /\ r.slot = s /\ SettingUp(s) \subseteq disturbed'
             /\ SettingUp(s) # {} => p \in disturbed'
    <3>1. q \in SettingUp(s)
      BY <1>3, <2>2 DEF SettingUp
    <3> QED  BY <2>2, <3>1
  <2> QED  BY <1>3, <2>1, <2>2 DEF Turns, ProcTurns
<1>4. OverlapInv'
  <2>1. ASSUME NEW m \in Procs, NEW q \in Procs, m # q, proc'[m].slot = proc'[q].slot,
               proc'[m].pc \in Entering, proc'[q].pc \in Entering
        PROVE  m \in disturbed'
    <3>1. CASE m = p
      BY <1>2, <1>3, <2>1, <3>1
    <3>2. CASE q = p
      BY <1>2, <1>3, <2>1, <3>2
    <3>3. CASE m # p /\ q # p
      BY <1>2, <2>1, <3>3 DEF IInv, OverlapInv, Turns
    <3> QED  BY <3>1, <3>2, <3>3
  <2> QED  BY <2>1 DEF OverlapInv
<1>5. NoneInv'
  BY <1>2 DEF IInv, NoneInv, Turns, BoxTurns
<1>6. ASSUME NEW q \in Procs \ {p}
      PROVE  OwnAt(q \in disturbed, proc[q], Box(q), trouble)'
  <2>1. PICK y \in Process, u \in Cell : /\ y = proc[q] /\ u = inst[y.slot] /\ y.slot \in Slots
                                         /\ OwnAt(q \in disturbed, y, u, trouble)
    <3>1. proc[q] \in Process /\ proc[q].slot \in Slots /\ inst[proc[q].slot] \in Cell
      BY <1>1 DEF Process
    <3> QED  BY <3>1 DEF IInv, OwnInv, Box
  <2>2. proc'[q] = y
    BY <1>2, <2>1
  <2>3. Expects(y, trouble') => Expects(y, trouble)
    BY DEF Expects, Turns
  <2>4. CASE y.slot # s
    <3>1. Box(q)' = u
      BY <1>2, <2>1, <2>2, <2>4 DEF Box
    <3> QED  BY <2>1, <2>2, <2>3, <3>1 DEF OwnAt, Turns
  <2>5. CASE y.slot = s
    <3>1. Box(q)' = v
      BY <1>2, <2>2, <2>5 DEF Box
    <3>2. PICK starts \in BOOLEAN :
            /\ starts => /\ proc[p].pc = "start" /\ proc[p].slot = s
                         /\ LeftBehind(s) \subseteq disturbed'
            /\ v.st \in Ups => u.st \in Ups \/ starts
            /\ v.st = "running" => u.st = "running" \/ starts
            /\ v.st = "queued" => u.st = "running" \/ (u.st = "queued" /\ u.asked <= v.asked)
      BY <2>1, <2>5 DEF Turns, BoxTurns
    <3>3. ASSUME q \notin disturbed', starts, Expects(y, trouble) \/ Stopping(y) PROVE FALSE
      <4>1. q \notin disturbed
        BY <3>3 DEF Turns
      <4>2. y.pc \notin Entering
        BY <2>1, <2>5, <3>2, <3>3, <4>1 DEF IInv, OverlapInv, Entering
      <4>3. q \notin LeftBehind(s)
        BY <3>2, <3>3
      <4> QED  BY <2>1, <2>5, <3>3, <4>2, <4>3 DEF LeftBehind, Expects, Stopping, OwnAt,
               Entering, Leaving
    <3>4. y.healthy \in Int /\ u.asked \in Int /\ v.asked \in Int
      BY <1>1, <2>1, SessionsAssumption DEF Cell, Process
    <3>5. q \notin disturbed' =>
            /\ y.pc # "bug"
            /\ Expects(y, trouble') => v.st \notin Ups
            /\ Stopping(y) => v.st # "running"
            /\ y.off /\ v.st = "queued" => y.healthy <= v.asked
      <4>1. q \notin disturbed' => q \notin disturbed
        BY DEF Turns
      <4>2. y.off => Stopping(y)
        BY DEF Stopping
      <4> QED  BY <2>1, <2>3, <3>2, <3>3, <3>4, <4>1, <4>2 DEF OwnAt
    <3>6. OwnAt(q \in disturbed', y, v, trouble')
      BY <2>1, <3>5 DEF OwnAt
    <3> QED  BY <2>2, <3>1, <3>6
  <2> QED  BY <2>4, <2>5
<1>7. OwnAt(p \in disturbed, proc[p], Box(p), trouble)'
  <2>1. CASE r.pc \in {"done", "dead"} /\ ~r.off /\ r.healthy = 0
    BY <1>2, <2>1, SessionsAssumption DEF OwnAt, Expects, Stopping, Leaving
  <2>2. CASE r.slot = s /\ OwnAt(p \in disturbed', r, v, trouble')
    <3>1. Box(p)' = v
      BY <1>2, <2>2 DEF Box
    <3> QED  BY <1>2, <2>2, <3>1
  <2> QED  BY <2>1, <2>2 DEF Turns, Knows
<1> QED  BY <1>4, <1>5, <1>6, <1>7 DEF IInv, OwnInv


\* The step of p, which is at work, to label, the container being v after it.
Labels == {"idle", "work", "done", "dead", "bug"} \union Entering \union Leaving
Moved(x, label, r) ==
  /\ r.pc = label /\ r.healthy = 0
  /\ r.slot = x.slot /\ r.keep = x.keep /\ r.way = x.way /\ r.off = x.off
Goes(p, label, v) ==
  /\ Goto(p, label) /\ inst' = [inst EXCEPT ![proc[p].slot] = v]
  /\ disturbed \subseteq disturbed'
  /\ mode' = mode /\ (trouble = "incus" => trouble' = "incus")
  /\ label \in Labels
  /\ label \in Entering => proc[p].pc \in Entering
  /\ BoxTurns(p, proc[p].slot, v)
  /\ label \notin {"done", "dead"} => \A r \in Process :
       Moved(proc[p], label, r) => OwnAt(p \in disturbed', r, v, trouble')

LEMMA GoTurns ==
  ASSUME IInv, NEW p \in Procs, NEW label, NEW v, Goes(p, label, v)
  PROVE  \E s \in Slots : \E r : Turns(p, s, r, v)
<1>1. PICK x \in Process : x = proc[p] /\ x.slot \in Slots
  <2>1. proc[p] \in Process /\ proc[p].slot \in Slots
    BY Types DEF IInv, Process
  <2> QED  BY <2>1
<1>2. CASE label \in {"done", "dead"}
  <2> DEFINE r == [NoProc(p) EXCEPT !.pc = label]
  <2>1. r \in Process /\ r.pc = label /\ ~r.off /\ r.healthy = 0
    BY <1>2, Typing DEF NoProc, Process
  <2>2. proc' = [proc EXCEPT ![p] = r]
    BY <1>2 DEF Goes, Goto
  <2>3. ProcTurns(p, x.slot, r) /\ Knows(p, x.slot, r, v)
    BY <1>2, <2>1 DEF ProcTurns, Knows, Entering
  <2>4. Turns(p, x.slot, r, v)
    BY <1>1, <2>2, <2>3 DEF Goes, Turns
  <2> QED  BY <1>1, <2>4
<1>3. CASE label \notin {"done", "dead"}
  <2> DEFINE r == [x EXCEPT !.pc = label, !.healthy = 0]
  <2>1. r \in Process /\ r.pc = label /\ r.slot = x.slot /\ Moved(x, label, r)
    BY Typing DEF Goes, Labels, Process, Moved
  <2>2. proc' = [proc EXCEPT ![p] = r]
    BY <1>1, <1>3 DEF Goes, Goto
  <2>3. OwnAt(p \in disturbed', r, v, trouble')
    <3> HIDE DEF r
    <3> QED  BY <1>1, <1>3, <2>1 DEF Goes
  <2>4. ProcTurns(p, x.slot, r) /\ Knows(p, x.slot, r, v)
    <3> HIDE DEF r
    <3> QED  BY <1>1, <2>1, <2>3 DEF Goes, ProcTurns, Knows
  <2>5. Turns(p, x.slot, r, v)
    BY <1>1, <2>2, <2>4 DEF Goes, Turns
  <2> QED  BY <1>1, <2>5
<1> QED  BY <1>2, <1>3


\* The record of p is x, its container u.
Here(p, x, u) ==
  /\ x = proc[p] /\ x \in Process /\ x.slot \in Slots
  /\ u = inst[x.slot] /\ u = Box(p) /\ u \in Cell /\ (u.st = "none" => u = NoInst)
  /\ OwnAt(p \in disturbed, x, u, trouble)

LEMMA Knowing ==
  ASSUME IInv, NEW p \in Procs
  PROVE  \E x, u : Here(p, x, u)
<1>1. proc[p] \in Process /\ proc[p].slot \in Slots /\ inst[proc[p].slot] \in Cell
  BY Types DEF IInv, Process
<1>2. inst[proc[p].slot].st = "none" => inst[proc[p].slot] = NoInst
  BY <1>1 DEF IInv, NoneInv
<1> QED  BY <1>1, <1>2 DEF Here, IInv, OwnInv, Box

\* The step of a command that leaves its container alone.
LEMMA Unmoved ==
  ASSUME IInv, NEW p \in Procs, NEW x, NEW u, Here(p, x, u)
  PROVE  /\ BoxTurns(p, x.slot, u)
         /\ inst' = inst => inst' = [inst EXCEPT ![x.slot] = u]
         /\ [u EXCEPT !.users = u.users] = u
<1>1. u.asked <= u.asked
  <2>1. u.asked \in Int
    BY SessionsAssumption DEF Here, Cell
  <2> QED  BY <2>1
<1>2. inst \in [Slots -> Cell]
  BY Types DEF IInv
<1> QED  BY <1>1, <1>2 DEF Here, BoxTurns, Cell

\* The container found: absent, running, stopped.
LEMMA EnteringGoes ==
  ASSUME IInv, NEW p \in Procs,
         \/ Absent(p) \/ Refuse(p) \/ Reuse(p) \/ Restart(p) \/ Leftover(p) \/ DeleteLeftover(p)
  PROVE  \E label, v : Goes(p, label, v)
<1>1. PICK x, u : Here(p, x, u)
  BY Knowing
<1>2. /\ BoxTurns(p, x.slot, u) /\ [u EXCEPT !.users = u.users] = u
      /\ inst' = inst => inst' = [inst EXCEPT ![x.slot] = u]
  BY <1>1, Unmoved
<1>3. CASE Absent(p)
  <2>1. u = NoInst
    BY <1>1, <1>3 DEF Here, Absent, Exists
  <2>2. [u EXCEPT !.users = {}] = NoInst
    BY <2>1 DEF NoInst
  <2>3. inst' = [inst EXCEPT ![x.slot] = NoInst]
    BY <1>1, <1>3, <2>2 DEF Here, Absent, Enter, SetBox
  <2>4. Goes(p, "create", NoInst)
    BY <1>1, <1>3, <1>2, <2>1, <2>3, SessionsAssumption
    DEF Absent, Enter, Goes, Moved, Here, At, OwnAt, Expects, Stopping, Labels, Entering, Leaving, Process
  <2> QED  BY <2>4
<1>4. CASE Refuse(p)
  <2>1. inst' = [inst EXCEPT ![x.slot] = u]
    BY <1>1, <1>4, <1>2 DEF Refuse, Here, Enter, SetBox
  <2>2. p \notin disturbed' => x.way = "run"
    BY <1>1, <1>4 DEF Here, Refuse, Enter, Shell, At, Up, OwnAt, Expects, Ups, Process
  <2>3. Goes(p, IF Shell(p) THEN "bug" ELSE "done", u)
    BY <1>1, <1>4, <1>2, <2>1, <2>2, SessionsAssumption
    DEF Refuse, Enter, Shell, Goes, Moved, Here, At, OwnAt, Expects, Stopping, Labels, Entering, Leaving,
        Process
  <2> QED  BY <2>3
<1>5. CASE Reuse(p)
  <2>1. BoxTurns(p, x.slot, [u EXCEPT !.users = @ \union {p}])
    BY <1>1, <1>5, <1>2, Typing
    DEF Reuse, Enter, Up, Here, BoxTurns, At, OwnAt, Expects, Stopping, Entering, Leaving,
        Ups, NoInst, Cell
  <2>2. Goes(p, "ready", [u EXCEPT !.users = @ \union {p}])
    BY <1>1, <1>5, <2>1, Typing, SessionsAssumption
    DEF Reuse, Enter, Up, Goes, Moved, Here, SetBox, Worked, Rest, Kept, At, OwnAt, Expects,
        Stopping, Labels, Entering, Leaving, Ups, Process, NoInst, Cell
  <2> QED  BY <2>2
<1>6. CASE Restart(p)
  <2>1. BoxTurns(p, x.slot, [u EXCEPT !.users = @ \union {p}])
    BY <1>1, <1>6, <1>2, Typing
    DEF Restart, Enter, Exists, Up, Here, BoxTurns, At, OwnAt, Expects, Stopping, Entering,
        Leaving, Ups, NoInst, Cell
  <2>2. ASSUME NEW r \in Process, Moved(x, "start", r)
        PROVE  r.pc = "done" \/ OwnAt(p \in disturbed', r, [u EXCEPT !.users = @ \union {p}], trouble')
    BY <1>1, <1>6, <2>2, SessionsAssumption
    DEF Restart, Enter, Exists, Up, Moved, Here, Worked, Rest, Kept, At, OwnAt, Expects,
        Stopping, Entering, Leaving, Ups, Process, Cell
  <2>3. Goes(p, "start", [u EXCEPT !.users = @ \union {p}])
    BY <1>1, <1>6, <1>2, <2>1, <2>2, Typing, SessionsAssumption
    DEF Restart, Enter, Exists, Up, Goes, Moved, Here, SetBox, Worked, Rest, Kept, At,
        Labels, Entering, Leaving, Process
  <2> QED  BY <2>3
<1>7. CASE Leftover(p)
  <2>1. inst' = [inst EXCEPT ![x.slot] = u]
    BY <1>1, <1>7, <1>2 DEF Leftover, Here, Enter, SetBox
  <2>2. ASSUME NEW r \in Process, Moved(x, "leftover", r)
        PROVE  r.pc = "done" \/ OwnAt(p \in disturbed', r, u, trouble')
    BY <1>1, <1>7, <2>2, SessionsAssumption
    DEF Leftover, Enter, Up, Moved, Here, Worked, Rest, Kept, At, OwnAt, Expects, Stopping,
        Entering, Leaving, Ups, Process, Cell
  <2>3. Goes(p, "leftover", u)
    BY <1>1, <1>7, <1>2, <2>1, <2>2, Typing, SessionsAssumption
    DEF Leftover, Enter, Up, Goes, Moved, Here, SetBox, Worked, Rest, Kept, At, Labels,
        Entering, Leaving, Process
  <2> QED  BY <2>3
<1>8. CASE DeleteLeftover(p)
  <2>1. BoxTurns(p, x.slot, NoInst)
    BY <1>1, <1>8, <1>2, Typing
    DEF DeleteLeftover, Here, BoxTurns, At, OwnAt, Expects, Stopping, Entering, Leaving,
        Ups, NoInst, Cell
  <2>2. Goes(p, "create", NoInst)
    BY <1>1, <1>8, <2>1, Typing, SessionsAssumption
    DEF DeleteLeftover, Goes, Moved, Here, SetBox, Worked, Rest, Kept, At, OwnAt, Expects,
        Stopping, Labels, Entering, Leaving, Ups, Process, NoInst, Cell
  <2> QED  BY <2>2
<1> QED  BY <1>3, <1>4, <1>5, <1>6, <1>7, <1>8

\* The container starts; or not; the session begins.
LEMMA StartingGoes ==
  ASSUME IInv, NEW p \in Procs,
         \/ Start(p) \/ StartFails(p) \/ BootBlockFails(p) \/ RemoveFailed(p) \/ Ready(p) \/ RestoreFails(p)
         \/ SetupFails(p)
  PROVE  \E label, v : Goes(p, label, v)
<1>1. PICK x, u : Here(p, x, u)
  BY Knowing
<1>2. /\ BoxTurns(p, x.slot, u) /\ [u EXCEPT !.users = u.users] = u
      /\ inst' = inst => inst' = [inst EXCEPT ![x.slot] = u]
  BY <1>1, Unmoved
<1>3. CASE Start(p)
  <2>1. BoxTurns(p, x.slot, Running(u))
    BY <1>1, <1>3, <1>2, Typing
    DEF Start, Started, Running, Up, Here, BoxTurns, At, OwnAt, Expects, Stopping, Entering,
        Leaving, Ups, NoInst, Cell
  <2>2. Goes(p, "ready", Running(u))
    BY <1>1, <1>3, <2>1, Typing, SessionsAssumption
    DEF Start, Started, Running, Up, Goes, Moved, Here, SetBox, Worked, Rest, Kept, At,
        OwnAt, Expects, Stopping, Labels, Entering, Leaving, Ups, Process, NoInst, Cell
  <2> QED  BY <2>2
<1>4. CASE StartFails(p)
  <2>1. inst' = [inst EXCEPT ![x.slot] = u]
    BY <1>1, <1>4, <1>2 DEF StartFails, Here, Enter, SetBox
  <2>2. Goes(p, IF ~Shell(p) /\ proc[p].new THEN "failed" ELSE "done", u)
    BY <1>1, <1>4, <1>2, <2>1, SessionsAssumption
    DEF StartFails, Trouble, Shell, Goes, Moved, Here, SetBox, Worked, Rest, Kept, At,
        OwnAt, Expects, Stopping, Labels, Entering, Leaving, Ups, Process
  <2> QED  BY <2>2
<1>5. CASE BootBlockFails(p)
  <2>1. BoxTurns(p, x.slot, IF Shell(p) THEN Stopped(u) ELSE Running(u))
    BY <1>1, <1>5, <1>2, Typing
    DEF BootBlockFails, Started, Running, Stopped, Up, Trouble, Shell, Here, BoxTurns, At,
        OwnAt, Expects, Stopping, Entering, Leaving, Ups, NoInst, Cell
  <2>2. Goes(p, IF Shell(p) THEN "done" ELSE "exists", IF Shell(p) THEN Stopped(u) ELSE Running(u))
    BY <1>1, <1>5, <2>1, Typing, SessionsAssumption
    DEF BootBlockFails, Started, Running, Stopped, Up, Trouble, Shell, Goes, Moved, Here,
        SetBox, Worked, Rest, Kept, At, OwnAt, Expects, Stopping, Labels, Entering, Leaving,
        Ups, Process, NoInst, Cell
  <2> QED  BY <2>2
<1>6. CASE RemoveFailed(p)
  <2>1. BoxTurns(p, x.slot, IF Up(proc[p].slot) THEN u ELSE NoInst)
    BY <1>1, <1>6, <1>2, Typing
    DEF RemoveFailed, Here, BoxTurns, At, OwnAt, Expects, Stopping, Entering, Leaving, Ups,
        NoInst, Cell
  <2>2. Goes(p, "done", IF Up(proc[p].slot) THEN u ELSE NoInst)
    BY <1>1, <1>6, <2>1, Typing, SessionsAssumption
    DEF RemoveFailed, Goes, Moved, Here, SetBox, Worked, Rest, Kept, At, OwnAt, Expects,
        Stopping, Labels, Entering, Leaving, Ups, Process, NoInst, Cell
  <2> QED  BY <2>2
<1>7. CASE Ready(p)
  <2>1. saved[x.sid].data \in SUBSET Pieces
    BY <1>1, Types DEF IInv, Here, Process, Saved
  <2>2. PICK v \in Cell : /\ v.st = u.st /\ v.users = u.users /\ v.asked = u.asked
                         /\ inst' = [inst EXCEPT ![x.slot] = v]
    <3>1. [u EXCEPT !.work = saved[x.sid].data] \in Cell
      BY <1>1, <2>1 DEF Here, Cell
    <3> QED  BY <1>1, <1>7, <1>2, <3>1 DEF Ready, Here, SetBox, Cell
  <2>3. BoxTurns(p, x.slot, v)
    BY <1>1, <1>7, <1>2, <2>2 DEF Ready, Here, BoxTurns, Up, Ups
  <2>4. Goes(p, "work", v)
    BY <1>1, <1>7, <2>2, <2>3, SessionsAssumption
    DEF Ready, Goes, Moved, Here, Worked, Rest, Kept, At, OwnAt, Expects, Stopping, Labels, Entering,
        Leaving, Process
  <2> QED  BY <2>4
<1>8. CASE RestoreFails(p)
  <2>1. inst' = [inst EXCEPT ![x.slot] = u]
    BY <1>1, <1>8, <1>2 DEF RestoreFails, Here, Enter, SetBox
  <2>2. Goes(p, "work", u)
    BY <1>1, <1>8, <1>2, <2>1, SessionsAssumption
    DEF RestoreFails, Trouble, Goes, Moved, Here, SetBox, Worked, Rest, Kept, At, OwnAt,
        Expects, Stopping, Labels, Entering, Leaving, Ups, Process
  <2> QED  BY <2>2
<1>9. CASE SetupFails(p)
  <2>1. inst' = [inst EXCEPT ![x.slot] = u]
    BY <1>1, <1>9, <1>2 DEF SetupFails, Here, Enter, SetBox
  <2>2. Goes(p, IF Shell(p) THEN "done" ELSE "exists", u)
    BY <1>1, <1>9, <1>2, <2>1, SessionsAssumption
    DEF SetupFails, Trouble, Shell, Goes, Moved, Here, SetBox, Worked, Rest, Kept, At,
        OwnAt, Expects, Stopping, Labels, Entering, Leaving, Ups, Process
  <2> QED  BY <2>2
<1> QED  BY <1>3, <1>4, <1>5, <1>6, <1>7, <1>8, <1>9

\* The session ends, and what its cleanup does.
LEMMA LeavingGoes ==
  ASSUME IInv, NEW p \in Procs,
         \/ Exit(p) \/ Crash(p) \/ RunTeardown(p) \/ CheckExists(p) \/ CheckExistsFails(p) \/ Pull(p)
         \/ Look(p) \/ LookFails(p) \/ AskStopping(p) \/ AskGivesUp(p) \/ WaitEnds(p) \/ WaitForces(p)
         \/ WaitFails(p) \/ LookAgain(p) \/ LookAgainFails(p) \/ CleanupDelete(p) \/ CleanupDeleteFails(p)
  PROVE  \E label, v : Goes(p, label, v)
<1>1. PICK x, u : Here(p, x, u)
  BY Knowing
<1>2. /\ BoxTurns(p, x.slot, u) /\ [u EXCEPT !.users = u.users] = u
      /\ inst' = inst => inst' = [inst EXCEPT ![x.slot] = u]
  BY <1>1, Unmoved
<1>3. CASE Exit(p)
  <2>1. inst' = [inst EXCEPT ![x.slot] = u]
    BY <1>1, <1>3, <1>2 DEF Exit, Here, Enter, SetBox
  <2>2. Goes(p, "exists", u)
    BY <1>1, <1>3, <1>2, <2>1, SessionsAssumption
    DEF Exit, Goes, Moved, Here, SetBox, Worked, Rest, Kept, At, OwnAt, Expects, Stopping,
        Labels, Entering, Leaving, Ups, Process
  <2> QED  BY <2>2
<1>4. CASE Crash(p)
  <2>1. inst' = [inst EXCEPT ![x.slot] = u]
    BY <1>1, <1>4, <1>2 DEF Crash, Here, Enter, SetBox
  <2>2. Goes(p, "dead", u)
    BY <1>1, <1>4, <1>2, <2>1, SessionsAssumption
    DEF Crash, Trouble, Goes, Moved, Here, SetBox, Worked, Rest, Kept, At, OwnAt, Expects,
        Stopping, Labels, Entering, Leaving, Ups, Process
  <2> QED  BY <2>2
<1>5. CASE RunTeardown(p)
  <2>1. BoxTurns(p, x.slot, IF proc[p].keep /\ Up(proc[p].slot) THEN Stopped(u)
                  ELSE IF proc[p].keep THEN u ELSE NoInst)
    BY <1>1, <1>5, <1>2, Typing
    DEF RunTeardown, Stopped, Up, Shell, Here, BoxTurns, At, OwnAt, Expects, Stopping,
        Entering, Leaving, Ups, NoInst, Cell
  <2>2. Goes(p, "done", IF proc[p].keep /\ Up(proc[p].slot) THEN Stopped(u)
                  ELSE IF proc[p].keep THEN u ELSE NoInst)
    BY <1>1, <1>5, <2>1, Typing, SessionsAssumption
    DEF RunTeardown, Stopped, Up, Shell, Goes, Moved, Here, SetBox, Worked, Rest, Kept, At,
        OwnAt, Expects, Stopping, Labels, Entering, Leaving, Ups, Process, NoInst, Cell
  <2> QED  BY <2>2
<1>6. CASE CheckExists(p)
  <2>1. inst' = [inst EXCEPT ![x.slot] = u]
    BY <1>1, <1>6, <1>2 DEF CheckExists, Here, Enter, SetBox
  <2>2. ASSUME NEW r \in Process, Moved(x, IF Exists(proc[p].slot) THEN "pull" ELSE "done", r)
        PROVE  r.pc = "done" \/ OwnAt(p \in disturbed', r, u, trouble')
    BY <1>1, <1>6, <2>2, SessionsAssumption
    DEF CheckExists, Exists, Shell, Moved, Here, Worked, Rest, Kept, At, OwnAt, Expects,
        Stopping, Entering, Leaving, Ups, Process, Cell
  <2>3. Goes(p, IF Exists(proc[p].slot) THEN "pull" ELSE "done", u)
    BY <1>1, <1>6, <1>2, <2>1, <2>2, Typing, SessionsAssumption
    DEF CheckExists, Exists, Shell, Goes, Moved, Here, SetBox, Worked, Rest, Kept, At,
        Labels, Entering, Leaving, Process
  <2> QED  BY <2>3
<1>7. CASE CheckExistsFails(p)
  <2>1. inst' = [inst EXCEPT ![x.slot] = u]
    BY <1>1, <1>7, <1>2 DEF CheckExistsFails, Here, Enter, SetBox
  <2>2. Goes(p, "done", u)
    BY <1>1, <1>7, <1>2, <2>1, SessionsAssumption
    DEF CheckExistsFails, Trouble, Goes, Moved, Here, SetBox, Worked, Rest, Kept, At, OwnAt,
        Expects, Stopping, Labels, Entering, Leaving, Ups, Process
  <2> QED  BY <2>2
<1>8. CASE Pull(p)
  <2>1. inst' = [inst EXCEPT ![x.slot] = u]
    BY <1>1, <1>8, <1>2 DEF Pull, Here, Enter, SetBox
  <2>2. ASSUME NEW r \in Process, Moved(x, "look", r)
        PROVE  r.pc = "done" \/ OwnAt(p \in disturbed', r, u, trouble')
    BY <1>1, <1>8, <2>2, SessionsAssumption
    DEF Pull, Moved, Here, Worked, Rest, Kept, At, OwnAt, Expects, Stopping, Entering,
        Leaving, Ups, Process, Cell
  <2>3. Goes(p, "look", u)
    BY <1>1, <1>8, <1>2, <2>1, <2>2, Typing, SessionsAssumption
    DEF Pull, Goes, Moved, Here, SetBox, Worked, Rest, Kept, At, Labels, Entering, Leaving,
        Process
  <2> QED  BY <2>3
<1>9. CASE Look(p)
  <2>1. inst' = [inst EXCEPT ![x.slot] = u]
    BY <1>1, <1>9, <1>2 DEF Look, Here, Enter, SetBox
  <2>2. ASSUME NEW r \in Process, Moved(x, IF Up(proc[p].slot) THEN "ask" ELSE Decided(p, FALSE), r)
        PROVE  r.pc = "done" \/ OwnAt(p \in disturbed', r, u, trouble')
    <3>1. /\ r.pc \in {"ask", "done"} \/ (r.pc = "delete" /\ ~r.keep /\ u.st \notin Ups)
          /\ x.pc = "look" /\ trouble' = trouble /\ disturbed' = disturbed
      BY <1>1, <1>9, <2>2 DEF Look, Up, Ups, Decided, Moved, Here, Worked, Rest, At
    <3>2. u.asked \in Nat /\ 0 < Streak
      BY <1>1, SessionsAssumption DEF Here, Cell
    <3>3. x.way # "run" /\ (p \notin disturbed /\ x.off => u.st # "running")
      BY <1>1, <3>1 DEF Here, OwnAt, Stopping, Leaving
    <3>4. CASE r.pc = "ask"
      <4>1. /\ r.pc = "ask" /\ r.healthy = 0 /\ r.way # "run" /\ (r.off => x.off)
            /\ ~Expects(r, trouble') /\ (Stopping(r) => r.off)
        BY <2>2, <3>3, <3>4 DEF Moved, Expects, Stopping
      <4>2. p \notin disturbed' => (Stopping(r) => u.st # "running")
        BY <3>1, <3>3, <4>1
      <4>3. r.healthy < Streak /\ r.healthy <= u.asked
        BY <3>2, <4>1
      <4> QED  BY <4>1, <4>2, <4>3 DEF OwnAt, Leaving
    <3>5. CASE r.pc = "delete" /\ ~r.keep /\ u.st \notin Ups
      BY <2>2, <3>1, <3>2, <3>3, <3>5 DEF Moved, OwnAt, Expects, Stopping, Leaving, Ups
    <3> QED  BY <3>1, <3>4, <3>5
  <2>3. Goes(p, IF Up(proc[p].slot) THEN "ask" ELSE Decided(p, FALSE), u)
    BY <1>1, <1>9, <1>2, <2>1, <2>2, Typing, SessionsAssumption
    DEF Look, Up, Decided, Goes, Moved, Here, SetBox, Worked, Rest, Kept, At, Labels,
        Entering, Leaving, Process
  <2> QED  BY <2>3
<1>10. CASE LookFails(p)
  <2>1. inst' = [inst EXCEPT ![x.slot] = u]
    BY <1>1, <1>10, <1>2 DEF LookFails, Here, Enter, SetBox
  <2>2. ASSUME NEW r \in Process, Moved(x, Decided(p, TRUE), r)
        PROVE  r.pc = "done" \/ OwnAt(p \in disturbed', r, u, trouble')
    BY <1>1, <1>10, <2>2, SessionsAssumption
    DEF LookFails, Decided, Trouble, Moved, Here, Worked, Rest, Kept, At, OwnAt, Expects,
        Stopping, Entering, Leaving, Ups, Process, Cell
  <2>3. Goes(p, Decided(p, TRUE), u)
    BY <1>1, <1>10, <1>2, <2>1, <2>2, Typing, SessionsAssumption
    DEF LookFails, Decided, Trouble, Goes, Moved, Here, SetBox, Worked, Rest, Kept, At,
        Labels, Entering, Leaving, Process
  <2> QED  BY <2>3
<1>11. CASE AskStopping(p)
  <2>1. inst' = [inst EXCEPT ![x.slot] = u]
    BY <1>1, <1>11, <1>2 DEF AskStopping, Here, Enter, SetBox
  <2>2. Goes(p, "wait", u)
    BY <1>1, <1>11, <1>2, <2>1, SessionsAssumption
    DEF AskStopping, Up, Goes, Moved, Here, SetBox, Worked, Rest, Kept, At, OwnAt, Expects,
        Stopping, Labels, Entering, Leaving, Ups, Process
  <2> QED  BY <2>2
<1>12. CASE AskGivesUp(p)
  <2>1. inst' = [inst EXCEPT ![x.slot] = u]
    BY <1>1, <1>12, <1>2 DEF AskGivesUp, Here, Enter, SetBox
  <2>2. Goes(p, Decided(p, TRUE), u)
    BY <1>1, <1>12, <1>2, <2>1, SessionsAssumption
    DEF AskGivesUp, Decided, Trouble, Goes, Moved, Here, SetBox, Worked, Rest, Kept, At,
        OwnAt, Expects, Stopping, Labels, Entering, Leaving, Ups, Process
  <2> QED  BY <2>2
<1>13. CASE WaitEnds(p)
  <2>1. inst' = [inst EXCEPT ![x.slot] = u]
    BY <1>1, <1>13, <1>2 DEF WaitEnds, Here, Enter, SetBox
  <2>2. Goes(p, "again", u)
    BY <1>1, <1>13, <1>2, <2>1, SessionsAssumption
    DEF WaitEnds, Up, Goes, Moved, Here, SetBox, Worked, Rest, Kept, At, OwnAt, Expects,
        Stopping, Labels, Entering, Leaving, Ups, Process
  <2> QED  BY <2>2
<1>14. CASE WaitForces(p)
  <2>1. BoxTurns(p, x.slot, Stopped(u))
    BY <1>1, <1>14, <1>2, Typing
    DEF WaitForces, Stopped, Up, Here, BoxTurns, At, OwnAt, Expects, Stopping, Entering,
        Leaving, Ups, NoInst, Cell
  <2>2. Goes(p, "again", Stopped(u))
    BY <1>1, <1>14, <2>1, Typing, SessionsAssumption
    DEF WaitForces, Stopped, Up, Goes, Moved, Here, SetBox, Worked, Rest, Kept, At, OwnAt,
        Expects, Stopping, Labels, Entering, Leaving, Ups, Process, NoInst, Cell
  <2> QED  BY <2>2
<1>15. CASE WaitFails(p)
  <2>1. inst' = [inst EXCEPT ![x.slot] = u]
    BY <1>1, <1>15, <1>2 DEF WaitFails, Here, Enter, SetBox
  <2>2. ASSUME NEW r \in Process, Moved(x, "again", r)
        PROVE  r.pc = "done" \/ OwnAt(p \in disturbed', r, u, trouble')
    BY <1>1, <1>15, <2>2, SessionsAssumption
    DEF WaitFails, Trouble, Moved, Here, Worked, Rest, Kept, At, OwnAt, Expects, Stopping,
        Entering, Leaving, Ups, Process, Cell
  <2>3. Goes(p, "again", u)
    BY <1>1, <1>15, <1>2, <2>1, <2>2, Typing, SessionsAssumption
    DEF WaitFails, Trouble, Goes, Moved, Here, SetBox, Worked, Rest, Kept, At, Labels,
        Entering, Leaving, Process
  <2> QED  BY <2>3
<1>16. CASE LookAgain(p)
  <2>1. inst' = [inst EXCEPT ![x.slot] = u]
    BY <1>1, <1>16, <1>2 DEF LookAgain, Here, Enter, SetBox
  <2>2. ASSUME NEW r \in Process, Moved(x, Decided(p, Up(proc[p].slot)), r)
        PROVE  r.pc = "done" \/ OwnAt(p \in disturbed', r, u, trouble')
    BY <1>1, <1>16, <2>2, SessionsAssumption
    DEF LookAgain, Up, Decided, Moved, Here, Worked, Rest, Kept, At, OwnAt, Expects,
        Stopping, Entering, Leaving, Ups, Process, Cell
  <2>3. Goes(p, Decided(p, Up(proc[p].slot)), u)
    BY <1>1, <1>16, <1>2, <2>1, <2>2, Typing, SessionsAssumption
    DEF LookAgain, Up, Decided, Goes, Moved, Here, SetBox, Worked, Rest, Kept, At, Labels,
        Entering, Leaving, Process
  <2> QED  BY <2>3
<1>17. CASE LookAgainFails(p)
  <2>1. inst' = [inst EXCEPT ![x.slot] = u]
    BY <1>1, <1>17, <1>2 DEF LookAgainFails, Here, Enter, SetBox
  <2>2. ASSUME NEW r \in Process, Moved(x, Decided(p, FALSE), r)
        PROVE  r.pc = "done" \/ OwnAt(p \in disturbed', r, u, trouble')
    BY <1>1, <1>17, <2>2, SessionsAssumption
    DEF LookAgainFails, Decided, Trouble, Moved, Here, Worked, Rest, Kept, At, OwnAt,
        Expects, Stopping, Entering, Leaving, Ups, Process, Cell
  <2>3. Goes(p, Decided(p, FALSE), u)
    BY <1>1, <1>17, <1>2, <2>1, <2>2, Typing, SessionsAssumption
    DEF LookAgainFails, Decided, Trouble, Goes, Moved, Here, SetBox, Worked, Rest, Kept, At,
        Labels, Entering, Leaving, Process
  <2> QED  BY <2>3
<1>18. CASE CleanupDelete(p)
  <2>1. BoxTurns(p, x.slot, NoInst)
    BY <1>1, <1>18, <1>2, Typing
    DEF CleanupDelete, Here, BoxTurns, At, OwnAt, Expects, Stopping, Entering, Leaving, Ups,
        NoInst, Cell
  <2>2. Goes(p, "done", NoInst)
    BY <1>1, <1>18, <2>1, Typing, SessionsAssumption
    DEF CleanupDelete, Goes, Moved, Here, SetBox, Worked, Rest, Kept, At, OwnAt, Expects,
        Stopping, Labels, Entering, Leaving, Ups, Process, NoInst, Cell
  <2> QED  BY <2>2
<1>19. CASE CleanupDeleteFails(p)
  <2>1. inst' = [inst EXCEPT ![x.slot] = u]
    BY <1>1, <1>19, <1>2 DEF CleanupDeleteFails, Here, Enter, SetBox
  <2>2. Goes(p, "done", u)
    BY <1>1, <1>19, <1>2, <2>1, SessionsAssumption
    DEF CleanupDeleteFails, Trouble, Goes, Moved, Here, SetBox, Worked, Rest, Kept, At,
        OwnAt, Expects, Stopping, Labels, Entering, Leaving, Ups, Process
  <2> QED  BY <2>2
<1> QED  BY <1>3, <1>4, <1>5, <1>6, <1>7, <1>8, <1>9, <1>10, <1>11, <1>12, <1>13, <1>14, <1>15, <1>16, <1>17, <1>18, <1>19

\* The steps that change more of its record than where it is, or nothing.
LEMMA OwnTurns ==
  ASSUME IInv, NEW p \in Procs,
         Work(p) \/ PowerOff(p) \/ PullFails(p) \/ AskUnknown(p)
  PROVE  \E s \in Slots : \E r, v : Turns(p, s, r, v)
<1>1. PICK x, u : Here(p, x, u)
  BY Knowing
<1>2. /\ BoxTurns(p, x.slot, u) /\ [u EXCEPT !.users = u.users] = u
      /\ inst' = inst => inst' = [inst EXCEPT ![x.slot] = u]
  BY <1>1, Unmoved
<1>3. CASE Work(p)
  <2> DEFINE v == [u EXCEPT !.work = @ \union {p}]
  <2>1. v \in Cell /\ v.st = "running" /\ u.st = "running"
    BY <1>1, <1>3 DEF Work, Here, Cell, Pieces
  <2>2. inst' = [inst EXCEPT ![x.slot] = v] /\ proc' = [proc EXCEPT ![p] = x]
    BY <1>1, <1>3, Types DEF Work, Here, SetBox, IInv
  <2>3. /\ mode' = mode /\ trouble' = trouble /\ disturbed' = disturbed
        /\ x.pc = "work"
    BY <1>1, <1>3 DEF Work, Here, At
  <2> HIDE DEF v
  <2>4. BoxTurns(p, x.slot, v)
    BY <1>1, <2>1 DEF Here, BoxTurns
  <2>5. ~Expects(x, trouble') /\ x.healthy < Streak /\ x.healthy = 0 /\ ~x.off /\ ~Stopping(x)
    BY <1>1, <2>3 DEF Here, OwnAt, Expects, Stopping, Leaving
  <2>6. OwnAt(p \in disturbed', x, v, trouble')
    BY <2>3, <2>5 DEF OwnAt, Leaving
  <2>7. ProcTurns(p, x.slot, x) /\ Knows(p, x.slot, x, v)
    BY <1>1, <2>3, <2>6 DEF Here, ProcTurns, Knows, Entering
  <2>8. Turns(p, x.slot, x, v)
    BY <2>2, <2>3, <2>4, <2>7 DEF Turns
  <2> QED  BY <1>1, <2>8 DEF Here
<1>4. CASE PowerOff(p)
  <2> DEFINE v == [u EXCEPT !.st = "queued"]
             r == [x EXCEPT !.pc = "exists", !.off = TRUE]
  <2>1. v \in Cell /\ v.st = "queued" /\ v.asked = u.asked /\ u.st = "running"
    BY <1>1, <1>4 DEF PowerOff, Here, Cell
  <2>2. /\ r \in Process /\ r.slot = x.slot /\ r.way = x.way /\ r.pc = "exists" /\ r.off
        /\ r.healthy = x.healthy
    BY <1>1 DEF Here, Process, Leaving
  <2>3. inst' = [inst EXCEPT ![x.slot] = v] /\ proc' = [proc EXCEPT ![p] = r]
    BY <1>1, <1>4 DEF PowerOff, Here, SetBox
  <2>4. /\ mode' = mode /\ trouble' = trouble /\ disturbed' = disturbed
        /\ x.pc = "work" /\ x.way # "run"
    BY <1>1, <1>4 DEF PowerOff, Shell, Worked, Rest, Kept, Here, At
  <2> HIDE DEF v, r
  <2>5. BoxTurns(p, x.slot, v)
    BY <1>1, <2>1 DEF Here, BoxTurns, Ups
  <2>6. ~Expects(r, trouble') /\ r.healthy < Streak
    BY <1>1, <2>2 DEF Here, OwnAt, Expects
  <2>7. OwnAt(p \in disturbed', r, v, trouble')
    <3>1. u.asked \in Nat /\ r.healthy = 0
      BY <1>1, <2>2, <2>4, SessionsAssumption DEF Here, OwnAt, Cell
    <3> QED  BY <2>1, <2>2, <2>4, <2>6, <3>1 DEF OwnAt, Leaving
  <2>8. ProcTurns(p, x.slot, r) /\ Knows(p, x.slot, r, v)
    BY <2>2, <2>7 DEF ProcTurns, Knows, Entering
  <2>9. Turns(p, x.slot, r, v)
    BY <1>1, <2>2, <2>3, <2>4, <2>5, <2>8 DEF Turns
  <2> QED  BY <1>1, <2>9 DEF Here
<1>5. CASE PullFails(p)
  <2>1. PICK r \in Process :
       /\ proc' = [proc EXCEPT ![p] = r]
       /\ r.slot = x.slot /\ r.keep = x.keep /\ r.way = x.way
       /\ r.off = x.off /\ r.healthy = x.healthy /\ r.pc = "look"
    <3> DEFINE y == [x EXCEPT !.pc = "look", !.failed = TRUE]
    <3>1. /\ y \in Process /\ y.slot = x.slot /\ y.keep = x.keep /\ y.way = x.way
          /\ y.off = x.off /\ y.healthy = x.healthy /\ y.pc = "look"
      BY <1>1, <1>5, Typing DEF PullFails, Here, At, Entering, Leaving, Process
    <3>2. proc' = [proc EXCEPT ![p] = y]
      BY <1>1, <1>5 DEF PullFails, Here
    <3> QED  BY <3>1, <3>2
  <2>2. inst' = [inst EXCEPT ![x.slot] = u] /\ BoxTurns(p, x.slot, u)
    BY <1>1, <1>5, <1>2 DEF PullFails, Here
  <2>3. /\ mode' = mode /\ disturbed' = disturbed /\ (trouble = "incus" => trouble' = "incus")
        /\ x.pc \in Leaving \ {"exists"} /\ ~Expects(r, trouble') /\ r.pc \notin Entering
        /\ Stopping(r) => Stopping(x)
    BY <1>1, <1>5, <2>1
       DEF PullFails, Trouble, Rest, Kept, Here, At, Expects, Stopping, Entering, Leaving
  <2>4. r.healthy = 0 /\ 0 < Streak /\ u.asked \in Nat
    BY <1>1, <1>5, <2>1, SessionsAssumption DEF PullFails, Here, At, OwnAt, Cell
  <2>5. OwnAt(p \in disturbed', r, u, trouble')
    BY <1>1, <2>1, <2>3, <2>4 DEF Here, OwnAt, Leaving
  <2>6. ProcTurns(p, x.slot, r) /\ Knows(p, x.slot, r, u)
    BY <2>1, <2>3, <2>5 DEF ProcTurns, Knows
  <2>7. Turns(p, x.slot, r, u)
    BY <2>1, <2>2, <2>3, <2>6 DEF Turns
  <2> QED  BY <1>1, <2>7 DEF Here
<1>6. CASE AskUnknown(p)
  <2>1. PICK r \in Process :
       /\ proc' = [proc EXCEPT ![p] = r]
       /\ r.slot = x.slot /\ r.keep = x.keep /\ r.way = x.way
       /\ r.off = x.off /\ r.healthy = 0 /\ r.pc = x.pc
    <3> DEFINE y == [x EXCEPT !.healthy = 0]
    <3>1. /\ y \in Process /\ y.slot = x.slot /\ y.keep = x.keep /\ y.way = x.way
          /\ y.off = x.off /\ y.healthy = 0 /\ y.pc = x.pc
      BY <1>1, <1>6, Typing DEF AskUnknown, Here, At, Entering, Leaving, Process
    <3>2. proc' = [proc EXCEPT ![p] = y]
      BY <1>1, <1>6 DEF AskUnknown, Here
    <3> QED  BY <3>1, <3>2
  <2>2. inst' = [inst EXCEPT ![x.slot] = u] /\ BoxTurns(p, x.slot, u)
    BY <1>1, <1>6, <1>2 DEF AskUnknown, Here
  <2>3. /\ mode' = mode /\ disturbed' = disturbed /\ (trouble = "incus" => trouble' = "incus")
        /\ x.pc \in Leaving \ {"exists"} /\ ~Expects(r, trouble') /\ r.pc \notin Entering
        /\ Stopping(r) => Stopping(x)
    BY <1>1, <1>6, <2>1
       DEF AskUnknown, Trouble, Rest, Kept, Here, At, Expects, Stopping, Entering, Leaving
  <2>4. r.healthy = 0 /\ 0 < Streak /\ u.asked \in Nat
    BY <1>1, <1>6, <2>1, SessionsAssumption DEF AskUnknown, Here, At, OwnAt, Cell
  <2>5. OwnAt(p \in disturbed', r, u, trouble')
    BY <1>1, <2>1, <2>3, <2>4 DEF Here, OwnAt, Leaving
  <2>6. ProcTurns(p, x.slot, r) /\ Knows(p, x.slot, r, u)
    BY <2>1, <2>3, <2>5 DEF ProcTurns, Knows
  <2>7. Turns(p, x.slot, r, u)
    BY <2>1, <2>2, <2>3, <2>6 DEF Turns
  <2> QED  BY <1>1, <2>7 DEF Here
<1> QED  BY <1>3, <1>4, <1>5, <1>6


\* The streak of healthy answers: as long as the guest has given them since its
\* poweroff, it is not long enough.
LEMMA AskHealthyTurns ==
  ASSUME IInv, NEW p \in Procs, AskHealthy(p)
  PROVE  /\ \E s \in Slots : \E r, v : Turns(p, s, r, v)
         /\ Enqueued < Streak /\ proc[p].off /\ p \notin disturbed => proc'[p].pc = "ask"
<1>1. PICK x, u : Here(p, x, u)
  BY Knowing
<1>2. /\ x.pc = "ask" /\ x.healthy \in 0..(Streak - 1) /\ u.asked \in 0..Enqueued
      /\ Streak \in Nat \ {0} /\ Enqueued \in Nat
      /\ u.st = "running" \/ (u.st = "queued" /\ u.asked < Enqueued)
  BY <1>1, SessionsAssumption DEF AskHealthy, Healthy, Here, At, OwnAt, Cell, Process
<1>3. PICK v \in Cell : /\ inst' = [inst EXCEPT ![x.slot] = v]
                        /\ v.st = u.st
                        /\ v.asked = IF u.st = "queued" THEN u.asked + 1 ELSE u.asked
  <2> DEFINE w == [u EXCEPT !.asked = IF u.st = "queued" THEN @ + 1 ELSE @]
  <2>1. (IF u.st = "queued" THEN u.asked + 1 ELSE u.asked) \in 0..Enqueued
    BY <1>2
  <2>2. /\ w \in Cell /\ w.st = u.st
        /\ w.asked = IF u.st = "queued" THEN u.asked + 1 ELSE u.asked
    BY <1>1, <2>1 DEF Here, Cell
  <2>3. inst' = [inst EXCEPT ![x.slot] = w]
    BY <1>1 DEF Here, AskHealthy, Healthy, SetBox
  <2> QED  BY <2>2, <2>3
<1>4. BoxTurns(p, x.slot, v)
  BY <1>1, <1>2, <1>3 DEF Here, BoxTurns, Ups
<1>5. mode' = mode /\ trouble' = trouble /\ disturbed' = disturbed
  BY DEF AskHealthy, Healthy, Worked, Rest, Kept
<1>6. p \notin disturbed /\ x.off => u.st = "queued" /\ x.healthy + 1 <= v.asked
  <2>1. p \notin disturbed /\ x.off => u.st # "running" /\ (u.st = "queued" => x.healthy <= u.asked)
    BY <1>1 DEF Here, OwnAt, Stopping
  <2> QED  BY <1>2, <1>3, <2>1
<1>7. /\ x.way # "run" /\ (x.off => x.off)
      /\ x.healthy + 1 = Streak => ~(Enqueued < Streak /\ x.off /\ p \notin disturbed)
  <2>1. x.way # "run"
    BY <1>1, <1>2 DEF Here, OwnAt, Leaving
  <2> QED  BY <1>2, <1>3, <1>6, <2>1
<1>8. CASE x.healthy + 1 = Streak
  <2>1. Goto(p, "done")
    BY <1>1, <1>8 DEF AskHealthy, Here, Decided
  <2>2. Goes(p, "done", v)
    BY <1>1, <1>3, <1>4, <1>5, <2>1 DEF Goes, Here, Labels, Entering
  <2> QED  BY <1>1, <1>7, <1>8, <2>2, GoTurns DEF Here
<1>9. CASE x.healthy + 1 # Streak
  <2>1. x.healthy + 1 \in 0..(Streak - 1) /\ x.healthy + 1 \in 0..Streak /\ x.healthy + 1 < Streak
    BY <1>2, <1>9
  <2>2. PICK r \in Process : /\ proc' = [proc EXCEPT ![p] = r]
                             /\ r.slot = x.slot /\ r.keep = x.keep /\ r.way = x.way
                             /\ r.off = x.off /\ r.pc = "ask" /\ r.healthy = x.healthy + 1
    <3> DEFINE y == [x EXCEPT !.healthy = @ + 1]
    <3>1. /\ y \in Process /\ y.slot = x.slot /\ y.keep = x.keep /\ y.way = x.way
          /\ y.off = x.off /\ y.pc = "ask" /\ y.healthy = x.healthy + 1
      BY <1>1, <1>2, <2>1 DEF Here, Process
    <3>2. proc' = [proc EXCEPT ![p] = y]
      BY <1>1, <1>9 DEF AskHealthy, Here
    <3> QED  BY <3>1, <3>2
  <2>3. OwnAt(p \in disturbed', r, v, trouble')
    <3>1. ~Expects(r, trouble') /\ (Stopping(r) => x.off)
      BY <2>2 DEF Expects, Stopping
    <3>2. p \notin disturbed' /\ x.off => u.st = "queued" /\ r.healthy <= v.asked
      BY <1>5, <1>6, <2>2
    <3> QED  BY <1>3, <1>5, <1>7, <2>1, <2>2, <3>1, <3>2 DEF OwnAt, Leaving, Process
  <2>4. ProcTurns(p, x.slot, r) /\ Knows(p, x.slot, r, v)
    BY <2>2, <2>3 DEF ProcTurns, Knows, Entering
  <2>5. Turns(p, x.slot, r, v)
    BY <1>3, <1>4, <1>5, <2>2, <2>4 DEF Turns
  <2>6. proc'[p].pc = "ask"
    BY <2>2, Types DEF IInv
  <2> QED  BY <1>1, <2>5, <2>6 DEF Here
<1> QED  BY <1>8, <1>9

\* Nobody else is in the container that is created.
LEMMA CreateTurns ==
  ASSUME IInv, NEW p \in Procs, Create(p)
  PROVE  \E s \in Slots : \E r, v : Turns(p, s, r, v)
<1>1. PICK x, u : Here(p, x, u)
  BY Knowing
<1>2. x.pc = "create" /\ mode' = mode /\ trouble' = trouble /\ disturbed' = disturbed
  BY <1>1 DEF Create, Here, At, Worked, Rest, Kept
<1>3. ~x.off /\ x.healthy = 0 /\ 0 < Streak
  BY <1>1, <1>2, SessionsAssumption DEF Here, OwnAt, Leaving
<1>4. CASE u.st # "none"
  <2>1. inst' = [inst EXCEPT ![x.slot] = u] /\ BoxTurns(p, x.slot, u)
    <3>1. inst' = inst
      BY <1>1, <1>4 DEF Create, Here, Exists
    <3> QED  BY <1>1, <3>1, Unmoved
  <2>2. Goes(p, IF Shell(p) THEN "done" ELSE "failed", u)
    BY <1>1, <1>2, <1>3, <1>4, <2>1
    DEF Create, Exists, Shell, Goes, Moved, Here, OwnAt, Expects, Stopping, Labels, Entering,
        Leaving, Process
  <2> QED  BY <2>2, GoTurns
<1>5. CASE u.st = "none"
  <2>1. PICK v \in Cell : inst' = [inst EXCEPT ![x.slot] = v] /\ v.st = "created"
    <3> DEFINE w == [NoInst EXCEPT !.st = "created", !.users = {p},
                                   !.eph = ~Shell(p) /\ ~proc[p].keep]
    <3>1. w \in Cell /\ w.st = "created"
      BY Typing DEF NoInst, Cell
    <3>2. inst' = [inst EXCEPT ![x.slot] = w]
      BY <1>1, <1>5 DEF Here, Create, Exists, SetBox
    <3> QED  BY <3>1, <3>2
  <2>2. PICK r \in Process : /\ proc' = [proc EXCEPT ![p] = r]
                             /\ r.slot = x.slot /\ r.keep = x.keep /\ r.way = x.way
                             /\ ~r.off /\ r.pc = "start" /\ r.healthy = 0
    <3> DEFINE y == [x EXCEPT !.pc = "start", !.new = TRUE]
    <3>1. /\ y \in Process /\ y.slot = x.slot /\ y.keep = x.keep /\ y.way = x.way
          /\ ~y.off /\ y.pc = "start" /\ y.healthy = 0
      BY <1>1, <1>3 DEF Here, Process, Entering
    <3>2. proc' = [proc EXCEPT ![p] = y]
      BY <1>1, <1>5 DEF Create, Here, Exists
    <3> QED  BY <3>1, <3>2
  <2>3. BoxTurns(p, x.slot, v)
    BY <1>1, <1>2, <2>1 DEF Here, BoxTurns, Ups
  <2>4. ProcTurns(p, x.slot, r)
    BY <1>1, <1>2, <2>2 DEF Here, ProcTurns, Entering
  <2>5. Knows(p, x.slot, r, v)
    BY <1>3, <2>1, <2>2 DEF Knows, OwnAt, Stopping, Leaving, Ups
  <2>6. Turns(p, x.slot, r, v)
    BY <1>2, <2>1, <2>2, <2>3, <2>4, <2>5 DEF Turns
  <2> QED  BY <1>1, <2>6 DEF Here
<1> QED  BY <1>4, <1>5

\* A command begins with slot s, kept if keep.
Begins(p, s, keep, way) ==
  /\ \E sid \in Procs : Launch(p, way, sid, keep, s)
  /\ s \in Slots /\ keep \in BOOLEAN
  /\ ~keep /\ way \in {"auto", "slot"} => ~Up(s)

LEMMA BeginTurns ==
  ASSUME IInv, NEW p \in Procs, NEW s, NEW keep, NEW way, Begins(p, s, keep, way)
  PROVE  \E t \in Slots : \E r, v : Turns(p, t, r, v)
<1>1. PICK sid \in Procs : Launch(p, way, sid, keep, s)
  BY DEF Begins
<1>2. /\ s \in Slots /\ keep \in BOOLEAN /\ inst \in [Slots -> Cell]
      /\ way \in {"auto", "slot", "resume", "run"}
  BY <1>1, Types, SessionsAssumption DEF Begins, IInv, Launch
<1>3. PICK u \in Cell : u = inst[s]
  BY <1>2
<1>4. PICK r \in Process : /\ proc' = [proc EXCEPT ![p] = r] /\ r.pc = "enter"
                           /\ r.slot = s /\ r.keep = keep /\ r.way = way /\ ~r.off /\ r.healthy = 0
  <2> DEFINE y == [NoProc(p) EXCEPT !.pc = "enter", !.way = way, !.sid = sid, !.keep = keep,
                                    !.slot = s]
  <2>1. /\ y \in Process /\ y.pc = "enter" /\ y.slot = s /\ y.keep = keep /\ y.way = way
        /\ ~y.off /\ y.healthy = 0
    BY <1>1, <1>2, Typing DEF NoProc, Process, Entering
  <2>2. proc' = [proc EXCEPT ![p] = y]
    BY <1>1 DEF Launch
  <2> QED  BY <2>1, <2>2
<1>5. /\ inst' = [inst EXCEPT ![s] = u] /\ mode' = mode /\ trouble' = trouble
      /\ disturbed' = disturbed \union SettingUp(s) \union (IF SettingUp(s) = {} THEN {} ELSE {p})
  BY <1>1, <1>2, <1>3 DEF Launch
<1>6. BoxTurns(p, s, u)
  <2>1. u.st = "none" => u = NoInst
    BY <1>2, <1>3 DEF IInv, NoneInv
  <2>2. u.asked <= u.asked
    <3>1. u.asked \in Int
      BY <1>3, SessionsAssumption DEF Cell
    <3> QED  BY <3>1
  <2> QED  BY <1>3, <2>1, <2>2 DEF BoxTurns
<1>7. ProcTurns(p, s, r)
  BY <1>4, <1>5 DEF ProcTurns
<1>8. Knows(p, s, r, u)
  <2>1. ~keep /\ way \in {"auto", "slot"} => u.st \notin Ups
    BY <1>3 DEF Begins, Up, Ups
  <2>2. 0 < Streak
    BY SessionsAssumption
  <2>3. OwnAt(p \in disturbed', r, u, trouble')
    BY <1>4, <2>1, <2>2 DEF OwnAt, Expects, Stopping, Leaving
  <2> QED  BY <1>4, <2>3 DEF Knows
<1>9. Turns(p, s, r, u)
  BY <1>4, <1>5, <1>6, <1>7, <1>8 DEF Turns
<1> QED  BY <1>2, <1>9

\* The least of some slots is one of them.
LEMMA LeastSlot ==
  ASSUME NEW S \in SUBSET Slots, S # {}
  PROVE  Min(S) \in S
<1>1. S \in SUBSET Nat
  BY SessionsAssumption DEF Slots
<1>2. \E m \in S : \A k \in S : m <= k
  BY <1>1, Least
<1> QED  BY <1>2 DEF Min

LEMMA ConfigureBegins ==
  ASSUME IInv, NEW p \in Procs,
         ConfigureAuto(p) \/ ConfigureSlot(p) \/ ConfigureRun(p) \/ ConfigureResume(p)
  PROVE  \E s, keep, way : Begins(p, s, keep, way)
<1>1. Persistence(FALSE) \in BOOLEAN
  BY DEF Persistence
<1>2. ASSUME NEW way, NEW s \in Slots, Launch(p, way, p, Persistence(FALSE), s),
             ~Persistence(FALSE) /\ way \in {"auto", "slot"} => ~Up(s)
      PROVE  Begins(p, s, Persistence(FALSE), way)
  BY <1>1, <1>2 DEF Begins
<1>3. CASE ConfigureAuto(p)
  <2>1. PICK way \in {"auto", "run"}, S \in SUBSET Slots :
          /\ S # {} /\ Launch(p, way, p, Persistence(FALSE), Min(S))
          /\ ~Persistence(FALSE) => S = Allocate(1)
    BY <1>1, <1>3 DEF ConfigureAuto, Allocate, FreeFrom, Reusable
  <2>2. Min(S) \in S
    BY <2>1, LeastSlot
  <2>3. ~Persistence(FALSE) => ~Up(Min(S))
    BY <2>1, <2>2 DEF Allocate, FreeFrom, Exists, Up
  <2> QED  BY <1>2, <2>1, <2>2, <2>3
<1>4. CASE ConfigureSlot(p)
  <2>1. PICK n \in Slots, S \in SUBSET Slots :
          /\ S # {} /\ Launch(p, "slot", p, Persistence(FALSE), Min(S))
          /\ S = IF IsSlotAvailable(n) THEN {n} ELSE Allocate(n + 1)
    BY <1>4 DEF ConfigureSlot, Allocate, FreeFrom
  <2>2. Min(S) \in S
    BY <2>1, LeastSlot
  <2>3. ~Up(Min(S))
    BY <2>1, <2>2 DEF IsSlotAvailable, Allocate, FreeFrom, Exists, Up
  <2> QED  BY <1>2, <2>1, <2>2, <2>3
<1>5. CASE ConfigureRun(p)
  BY <1>2, <1>5 DEF ConfigureRun
<1>6. CASE ConfigureResume(p)
  <2>1. PICK sid \in Procs, meta \in Saved :
          meta.slot # 0 /\ Launch(p, "resume", sid, Persistence(meta.keep), meta.slot)
    BY <1>6, Types DEF ConfigureResume, IInv
  <2>2. meta.slot \in Slots
    BY <2>1, SessionsAssumption DEF Saved, Slots
  <2>3. Persistence(meta.keep) \in BOOLEAN
    BY <2>1 DEF Persistence, Saved
  <2>4. Begins(p, meta.slot, Persistence(meta.keep), "resume")
    BY <2>1, <2>2, <2>3 DEF Begins
  <2> QED  BY <2>4
<1> QED  BY <1>3, <1>4, <1>5, <1>6

\* Every step of a command is such a turn.
LEMMA StepTurns ==
  ASSUME IInv, NEW p \in Procs, Step(p)
  PROVE  \E s \in Slots : \E r, v : Turns(p, s, r, v)
<1>1. CASE ConfigureAuto(p) \/ ConfigureSlot(p) \/ ConfigureRun(p) \/ ConfigureResume(p)
  BY <1>1, ConfigureBegins, BeginTurns
<1>2. CASE \/ Absent(p) \/ Refuse(p) \/ Reuse(p) \/ Restart(p) \/ Leftover(p) \/ DeleteLeftover(p)
  BY <1>2, EnteringGoes, GoTurns
<1>3. CASE \/ Start(p) \/ StartFails(p) \/ BootBlockFails(p) \/ RemoveFailed(p) \/ Ready(p)
           \/ RestoreFails(p) \/ SetupFails(p)
  BY <1>3, StartingGoes, GoTurns
<1>4. CASE \/ Exit(p) \/ Crash(p) \/ RunTeardown(p) \/ CheckExists(p) \/ CheckExistsFails(p)
           \/ Pull(p) \/ Look(p) \/ LookFails(p) \/ AskStopping(p) \/ AskGivesUp(p) \/ WaitEnds(p)
           \/ WaitForces(p) \/ WaitFails(p) \/ LookAgain(p) \/ LookAgainFails(p)
           \/ CleanupDelete(p) \/ CleanupDeleteFails(p)
  BY <1>4, LeavingGoes, GoTurns
<1>5. CASE Work(p) \/ PowerOff(p) \/ PullFails(p) \/ AskUnknown(p)
  BY <1>5, OwnTurns
<1>6. CASE AskHealthy(p) \/ Create(p)
  BY <1>6, AskHealthyTurns, CreateTurns
<1> QED  BY <1>1, <1>2, <1>3, <1>4, <1>5, <1>6 DEF Step, Enters, Leaves

-----------------------------------------------------------------------------
(* What is not done by a command of its own.                                *)

\* A container that others, and its guest, make v of u.
Yields(u, v) ==
  /\ v \in Cell /\ (v.st = "none" => v = NoInst)
  /\ v.st \in Ups => u.st \in Ups
  /\ v.st = "running" => u.st = "running"
  /\ v.st = "queued" => u.st = "running" \/ (u.st = "queued" /\ u.asked <= v.asked)
Aside ==
  /\ proc' = proc /\ mode' = mode /\ disturbed' = disturbed
  /\ trouble = "incus" => trouble' = "incus"
  /\ inst' \in [Slots -> Cell] /\ \A s \in Slots : Yields(inst[s], inst'[s])

LEMMA AsideKeeps ==
  ASSUME IInv, TypeOK', Aside
  PROVE  IInv'
<1>1. OverlapInv'
  BY DEF IInv, OverlapInv, Aside
<1>2. NoneInv'
  BY DEF NoneInv, Aside, Yields
<1>3. ASSUME NEW p \in Procs
      PROVE  OwnAt(p \in disturbed, proc[p], Box(p), trouble)'
  <2>1. PICK x, u : Here(p, x, u)
    BY <1>3, Knowing
  <2>2. PICK v \in Cell : v = inst'[x.slot] /\ Yields(u, v)
    BY <2>1 DEF Here, Aside, Yields
  <2>3. proc'[p] = x /\ Box(p)' = v /\ disturbed' = disturbed
    BY <2>1, <2>2 DEF Here, Aside, Box
  <2>4. Expects(x, trouble') => Expects(x, trouble)
    BY DEF Expects, Aside
  <2>5. x.healthy \in Int /\ u.asked \in Int /\ v.asked \in Int
    BY <2>1, <2>2, SessionsAssumption DEF Here, Cell, Process
  <2>6. x.off => Stopping(x)
    BY DEF Stopping
  <2>7. OwnAt(p \in disturbed', x, v, trouble')
    BY <2>1, <2>2, <2>3, <2>4, <2>5, <2>6 DEF Here, Yields, OwnAt
  <2> QED  BY <2>3, <2>7
<1> QED  BY <1>1, <1>2, <1>3 DEF IInv, OwnInv

\* The others change one container, or none.
LEMMA OneYields ==
  ASSUME IInv, proc' = proc, mode' = mode, disturbed' = disturbed,
         trouble = "incus" => trouble' = "incus",
         NEW s \in Slots, NEW v, Yields(inst[s], v), inst' = [inst EXCEPT ![s] = v]
  PROVE  Aside
<1>1. inst \in [Slots -> Cell]
  BY Types DEF IInv
<1>2. \A t \in Slots : inst[t].asked <= inst[t].asked
  <2>1. \A t \in Slots : inst[t].asked \in Int
    BY <1>1, SessionsAssumption DEF Cell
  <2> QED  BY <2>1
<1>3. \A t \in Slots : Yields(inst[t], inst[t])
  BY <1>1, <1>2 DEF Yields, IInv, NoneInv
<1>4. v \in Cell
  BY DEF Yields
<1> QED  BY <1>1, <1>3, <1>4 DEF Aside

LEMMA NoneYields ==
  ASSUME IInv, proc' = proc, mode' = mode, disturbed' = disturbed,
         trouble = "incus" => trouble' = "incus", inst' = inst
  PROVE  Aside
<1>1. inst \in [Slots -> Cell]
  BY Types DEF IInv
<1>2. \A t \in Slots : inst[t].asked <= inst[t].asked
  <2>1. \A t \in Slots : inst[t].asked \in Int
    BY <1>1, SessionsAssumption DEF Cell
  <2> QED  BY <2>1
<1> QED  BY <1>1, <1>2 DEF Aside, Yields, IInv, NoneInv

\* GuestStops, Attach, AttachPowerOff, KillStops, DeletesListed: what the
\* container may become.
LEMMA Yielding ==
  ASSUME NEW u \in Cell, u.st = "none" => u = NoInst
  PROVE  /\ Yields(u, u) /\ Yields(u, NoInst)
         /\ u.st # "none" => Yields(u, Stopped(u))
         /\ u.st = "queued" => Yields(u, [u EXCEPT !.st = "stopping", !.asked = 0])
         /\ u.st = "running" => /\ Yields(u, [u EXCEPT !.st = "queued"])
                                /\ Yields(u, [u EXCEPT !.work = @ \union {"attach"}])
<1>1. u.asked <= u.asked
  <2>1. u.asked \in Int
    BY SessionsAssumption DEF Cell
  <2> QED  BY <2>1
<1>2. NoInst.st = "none" /\ NoInst \in Cell
  BY Typing DEF NoInst
<1>3. Yields(u, u) /\ Yields(u, NoInst)
  BY <1>1, <1>2 DEF Yields, Ups
<1>4. u.st # "none" => Yields(u, Stopped(u))
  BY <1>3, Typing DEF Yields, Cell, Ups, Stopped
<1>5. u.st = "queued" => Yields(u, [u EXCEPT !.st = "stopping", !.asked = 0])
  BY Typing DEF Yields, Cell, Ups
<1>6. u.st = "running" => /\ Yields(u, [u EXCEPT !.st = "queued"])
                          /\ Yields(u, [u EXCEPT !.work = @ \union {"attach"}])
  BY DEF Yields, Cell, Ups, Pieces
<1> QED  BY <1>3, <1>4, <1>5, <1>6

Others(s) ==
  GuestStops(s) \/ Attach(s) \/ AttachPowerOff(s) \/ KillStops(s) \/ DeletesListed(s) \/ Persist(s)

LEMMA OthersAside ==
  ASSUME IInv, (\E s \in Slots : Others(s)) \/ CleanLists \/ CleanSessions \/ UNCHANGED vars
  PROVE  Aside
<1>1. ASSUME NEW s \in Slots,
             GuestStops(s) \/ Attach(s) \/ AttachPowerOff(s) \/ KillStops(s) \/ DeletesListed(s)
      PROVE  Aside
  <2>1. PICK u \in Cell : u = inst[s] /\ (u.st = "none" => u = NoInst)
    BY Types DEF IInv, NoneInv
  <2>2. /\ proc' = proc /\ mode' = mode /\ disturbed' = disturbed
        /\ trouble = "incus" => trouble' = "incus"
    BY <1>1 DEF GuestStops, Attach, AttachPowerOff, KillStops, DeletesListed, Worked, Rest, Kept,
                Command, Trouble
  <2>3. PICK v : inst' = [inst EXCEPT ![s] = v] /\ Yields(u, v)
    <3>1. CASE GuestStops(s)
      BY <2>1, <3>1, Yielding DEF GuestStops
    <3>2. CASE Attach(s)
      BY <2>1, <3>2, Yielding DEF Attach
    <3>3. CASE AttachPowerOff(s)
      BY <2>1, <3>3, Yielding DEF AttachPowerOff
    <3>4. CASE KillStops(s)
      BY <2>1, <3>4, Yielding DEF KillStops, Exists
    <3>5. CASE DeletesListed(s)
      BY <2>1, <3>5, Yielding DEF DeletesListed
    <3> QED  BY <1>1, <3>1, <3>2, <3>3, <3>4, <3>5
  <2> QED  BY <2>1, <2>2, <2>3, OneYields
<1>2. ASSUME (\E s \in Slots : Persist(s)) \/ CleanLists \/ CleanSessions \/ UNCHANGED vars
      PROVE  Aside
  BY <1>2, NoneYields DEF Persist, CleanLists, CleanSessions, vars, Rest, Kept, Command, Trouble
<1> QED  BY <1>1, <1>2 DEF Others

-----------------------------------------------------------------------------
(* Types, of what the invariant says nothing about.                         *)

Ledger ==
  /\ trouble \in Troubles \union {"none"} /\ saved \in [Procs -> Saved]
  /\ used \in BOOLEAN /\ listed \subseteq Slots /\ disturbed \subseteq Procs
  /\ made \subseteq Pieces /\ announced \subseteq Pieces /\ outside \subseteq Pieces

LEMMA EntersLedger ==
  ASSUME IInv, NEW p \in Procs, Enters(p)
  PROVE  Ledger'
<1>1. Ledger /\ \A sid \in Procs : saved[sid].data \subseteq Pieces
  BY Types DEF IInv, Ledger, Saved
<1>2. PICK x, u : Here(p, x, u)
  BY Knowing
<1>3. /\ u.work \subseteq Pieces /\ x.sid \in Procs
      /\ \A s \in Slots : SettingUp(s) \subseteq Procs /\ LeftBehind(s) \subseteq Procs
  BY <1>2 DEF Here, Cell, Process, SettingUp, LeftBehind
<1>4. CASE ConfigureAuto(p) \/ ConfigureSlot(p) \/ ConfigureRun(p)
  BY <1>1, <1>4 DEF ConfigureAuto, ConfigureSlot, ConfigureRun, Launch, Ledger, SettingUp
<1>5. CASE ConfigureResume(p)
  <2>1. PICK sid \in Procs, t \in Slots :
          /\ outside' = outside \union (IF Open(p, sid) THEN inst[t].work ELSE {})
          /\ disturbed' \subseteq disturbed \union SettingUp(t) \union {p}
          /\ UNCHANGED <<trouble, saved, used, listed, made, announced>>
    <3>1. PICK sid \in Procs :
            /\ saved[sid].slot # 0
            /\ outside' = outside \union (IF Open(p, sid) THEN inst[saved[sid].slot].work ELSE {})
            /\ disturbed' \subseteq disturbed \union SettingUp(saved[sid].slot) \union {p}
            /\ UNCHANGED <<trouble, saved, used, listed, made, announced>>
      BY <1>5 DEF ConfigureResume, Launch
    <3>2. saved[sid].slot \in Slots
      BY <1>1, <3>1, SessionsAssumption DEF Ledger, Saved, Slots
    <3> QED  BY <3>1, <3>2
  <2>2. inst[t].work \subseteq Pieces
    BY Types DEF IInv, Cell
  <2> QED  BY <1>1, <1>3, <2>1, <2>2 DEF Ledger
<1>6. CASE \/ Absent(p) \/ Refuse(p) \/ Reuse(p) \/ Restart(p) \/ Leftover(p) \/ DeleteLeftover(p)
           \/ RemoveFailed(p)
  <2>1. /\ outside' \subseteq outside \union saved[x.sid].data \union u.work
        /\ UNCHANGED <<trouble, saved, used, listed, made, announced, disturbed>>
    BY <1>2, <1>6 DEF Here, Absent, Refuse, Reuse, Restart, Leftover, DeleteLeftover,
       RemoveFailed, Enter
  <2> QED  BY <1>1, <1>3, <2>1 DEF Ledger
<1>7. CASE Create(p) \/ StartFails(p) \/ SetupFails(p)
  BY <1>1, <1>7 DEF Create, StartFails, SetupFails, Trouble, Worked, Rest, Kept, Ledger
<1>8. CASE Start(p) \/ BootBlockFails(p)
  <2>1. disturbed' \subseteq disturbed \union LeftBehind(x.slot)
    BY <1>2, <1>8 DEF Here, Start, BootBlockFails, Started
  <2>2. disturbed' \subseteq Procs
    BY <1>1, <1>2, <1>3, <2>1 DEF Here, Ledger
  <2> QED  BY <1>1, <1>8, <2>2 DEF Start, BootBlockFails, Trouble, Kept, Ledger
<1>9. CASE Ready(p) \/ RestoreFails(p)
  <2>1. saved' = saved \/ saved' = [saved EXCEPT ![x.sid].slot = x.slot, ![x.sid].keep = x.keep]
    BY <1>2, <1>9 DEF Here, Ready, RestoreFails
  <2>2. saved' \in [Procs -> Saved]
    BY <1>1, <1>2, <2>1, Typing DEF Ledger, Here, Process, Saved
  <2> QED  BY <1>1, <1>2, <1>3, <1>9, <2>2
      DEF Here, Ready, RestoreFails, Trouble, Worked, Rest, Kept, Ledger
<1> QED  BY <1>4, <1>5, <1>6, <1>7, <1>8, <1>9 DEF Enters

LEMMA LeavesLedger ==
  ASSUME IInv, NEW p \in Procs, Leaves(p) \/ Work(p) \/ Exit(p) \/ PowerOff(p) \/ Crash(p)
  PROVE  Ledger'
<1>1. Ledger
  BY Types DEF IInv, Ledger
<1>2. PICK x, u : Here(p, x, u)
  BY Knowing
<1>3. u = Box(p) /\ u.work \subseteq Pieces /\ Foreign(p) \subseteq Pieces /\ p \in Pieces
  BY <1>2 DEF Here, Cell, Foreign, Pieces
<1>4. CASE Look(p) \/ AskHealthy(p) \/ AskStopping(p) \/ WaitEnds(p) \/ WaitForces(p) \/ Exit(p)
           \/ PowerOff(p) \/ LookAgain(p)
  BY <1>1, <1>4
     DEF Look, AskHealthy, Healthy, AskStopping, WaitEnds, WaitForces, Exit, PowerOff, LookAgain,
       Worked, Rest, Kept, Ledger
<1>5. CASE PullFails(p) \/ LookFails(p) \/ AskUnknown(p) \/ AskGivesUp(p) \/ WaitFails(p)
           \/ CleanupDeleteFails(p) \/ LookAgainFails(p)
  BY <1>1, <1>5 DEF PullFails, LookFails, AskUnknown, AskGivesUp, WaitFails, CleanupDeleteFails,
     LookAgainFails, Trouble, Rest, Kept, Ledger
<1>6. CASE RunTeardown(p) \/ CheckExistsFails(p) \/ CleanupDelete(p)
  BY <1>1, <1>3, <1>6
     DEF RunTeardown, CheckExistsFails, CleanupDelete, Trouble, Ledger
<1>7. CASE Work(p) \/ Crash(p)
  BY <1>1, <1>3, <1>7 DEF Work, Crash, Trouble, Ledger
<1>8. CASE CheckExists(p) \/ Pull(p)
  <2>1. \/ saved' = saved
        \/ saved' = [saved EXCEPT ![x.sid].data = {}]
        \/ saved' = [saved EXCEPT ![x.sid] = [slot |-> x.slot, keep |-> x.keep, data |-> u.work]]
    BY <1>2, <1>8 DEF Here, CheckExists, Pull
  <2>2. saved' \in [Procs -> Saved]
    BY <1>1, <1>2, <1>3, <2>1, Typing DEF Ledger, Here, Process, Saved
  <2> QED  BY <1>1, <1>8, <2>2 DEF CheckExists, Pull, Worked, Rest, Kept, Ledger
<1> QED  BY <1>4, <1>5, <1>6, <1>7, <1>8 DEF Leaves

LEMMA OthersLedger ==
  ASSUME IInv, (\E s \in Slots : Others(s)) \/ CleanLists \/ CleanSessions \/ UNCHANGED vars
  PROVE  Ledger'
<1>1. Ledger /\ \A s \in Slots : inst[s].work \subseteq Pieces
  BY Types DEF IInv, Ledger, Cell
<1>2. ASSUME NEW s \in Slots, GuestStops(s) \/ Attach(s) \/ AttachPowerOff(s) PROVE Ledger'
  BY <1>1, <1>2
     DEF GuestStops, Attach, AttachPowerOff, Command, Trouble, Worked, Rest, Kept, Ledger, Pieces
<1>3. ASSUME NEW s \in Slots, KillStops(s) \/ DeletesListed(s) PROVE Ledger'
  BY <1>1, <1>3 DEF KillStops, DeletesListed, Command, Trouble, Ledger
<1>4. ASSUME NEW s \in Slots, Persist(s) PROVE Ledger'
  <2>1. PICK sid \in Procs : saved' = [saved EXCEPT ![sid].keep = TRUE]
    BY <1>4 DEF Persist
  <2>2. saved' \in [Procs -> Saved]
    BY <1>1, <2>1 DEF Ledger, Saved
  <2> QED  BY <1>1, <1>4, <2>2 DEF Persist, Trouble, Rest, Kept, Ledger
<1>5. CASE CleanLists
  BY <1>1, <1>5 DEF CleanLists, Command, Trouble, Reusable, Ledger
<1>6. CASE CleanSessions
  <2>1. UNION {saved[p].data : p \in Procs} \subseteq Pieces
    BY <1>1 DEF Ledger, Saved
  <2> QED  BY <1>1, <1>6, <2>1, Typing DEF CleanSessions, Command, Trouble, Ledger
<1>7. CASE UNCHANGED vars
  BY <1>1, <1>7 DEF vars, Ledger
<1> QED  BY <1>2, <1>3, <1>4, <1>5, <1>6, <1>7 DEF Others

-----------------------------------------------------------------------------
LEMMA SessionsStep == IInv /\ [Next]_vars => IInv'
<1> SUFFICES ASSUME IInv, [Next]_vars PROVE IInv'
  OBVIOUS
<1>1. inst \in [Slots -> Cell] /\ proc \in [Procs -> Process] /\ mode \in {"yes", "no", "unset"}
  BY Types DEF IInv
<1>2. ASSUME NEW p \in Procs, Step(p) PROVE IInv'
  <2>1. PICK s, r, v : s \in Slots /\ Turns(p, s, r, v)
    BY <1>2, StepTurns
  <2>2. Ledger'
    BY <1>2, EntersLedger, LeavesLedger DEF Step
  <2>3. inst' \in [Slots -> Cell] /\ proc' \in [Procs -> Process] /\ mode' = mode
    BY <1>1, <2>1 DEF Turns, BoxTurns, ProcTurns
  <2>4. TypeOK'
    BY <1>1, <2>2, <2>3, Types DEF TypeOK, Ledger, Cell, Process, Saved
  <2> QED  BY <2>1, <2>4, TurnKeeps
<1>3. ASSUME (\E s \in Slots : Others(s)) \/ CleanLists \/ CleanSessions \/ UNCHANGED vars
      PROVE  IInv'
  <2>1. Aside /\ Ledger'
    BY <1>3, OthersAside, OthersLedger
  <2>2. TypeOK'
    BY <1>1, <2>1 DEF Aside, TypeOK, Ledger, Cell, Process, Saved
  <2> QED  BY <2>1, <2>2, AsideKeeps
<1> QED  BY <1>2, <1>3 DEF Next, Others

\* A record changes by the step of its own command.
LEMMA OwnStep ==
  ASSUME IInv, [Next]_vars, NEW p \in Procs, proc'[p] # proc[p]
  PROVE  Step(p)
<1>1. ASSUME NEW q \in Procs \ {p}, Step(q) PROVE FALSE
  <2>1. PICK s, r, v : s \in Slots /\ Turns(q, s, r, v)
    BY <1>1, StepTurns
  <2> QED  BY <2>1, Types DEF Turns, IInv
<1>2. ~((\E s \in Slots : Others(s)) \/ CleanLists \/ CleanSessions \/ UNCHANGED vars)
  BY OthersAside DEF Aside
<1> QED  BY <1>1, <1>2 DEF Next, Others

\* Every variable has its type, always.
THEOREM SessionsTypeCorrect == Spec => []TypeOK
<1>1. IInv => TypeOK
  BY DEF IInv
<1> QED  BY <1>1, SessionsInit, SessionsStep, PTL DEF Spec

\* Setup never meets the running container that AllocateSlot and IsSlotAvailable
\* should have kept it from, but by another command that sets up the same slot
\* at the same time: with any number of commands between each other, and whatever
\* goes wrong.
THEOREM SlotsAlwaysExclusive == Spec => []SlotsExclusive
<1>1. IInv => SlotsExclusive
  BY DEF IInv, OwnInv, OwnAt, SlotsExclusive
<1> QED  BY <1>1, SessionsInit, SessionsStep, PTL DEF Spec

-----------------------------------------------------------------------------
(* What the cleanup of a shell does after a poweroff.                       *)

Deletes == \A p \in Procs :
  proc[p].off /\ proc[p].pc \in Leaving /\ proc'[p].pc = "done" =>
    \/ proc[p].keep \/ p \in disturbed \/ trouble' = "incus"
    \/ p \notin inst'[proc[p].slot].users

\* A step to a label ends there.
LEMMA Going ==
  ASSUME IInv, NEW p \in Procs, NEW label, Goto(p, label)
  PROVE  proc'[p].pc = label
<1>1. proc \in [Procs -> Process]
  BY Types DEF IInv
<1>2. PICK r : r = IF label \in {"done", "dead"} THEN [NoProc(p) EXCEPT !.pc = label]
                   ELSE [proc[p] EXCEPT !.pc = label, !.healthy = 0]
  OBVIOUS
<1>3. r.pc = label
  BY <1>1, <1>2 DEF NoProc, Process
<1>4. proc' = [proc EXCEPT ![p] = r]
  BY <1>2 DEF Goto
<1> QED  BY <1>1, <1>3, <1>4

LEMMA DeletesStep ==
  ASSUME Enqueued < Streak
  PROVE  IInv /\ [Next]_vars => Deletes
<1> SUFFICES ASSUME IInv, [Next]_vars, NEW p \in Procs, proc[p].off, proc[p].pc \in Leaving,
                    proc'[p].pc = "done", ~proc[p].keep, p \notin disturbed, trouble' # "incus"
             PROVE  p \notin inst'[proc[p].slot].users
  BY DEF Deletes
<1>1. PICK x, u : Here(p, x, u)
  BY Knowing
<1>2. /\ x.off /\ ~x.keep /\ x.pc \in Leaving /\ x.way # "run" /\ trouble # "incus"
      /\ x.pc = "again" => ~Up(x.slot)
  <2>1. trouble # "incus"
    <3>1. ASSUME trouble = "incus" PROVE trouble' = "incus"
      BY <3>1, StepTurns, OthersAside DEF Next, Others, Turns, Aside
    <3> QED  BY <3>1
  <2> QED  BY <1>1, <2>1 DEF Here, OwnAt, Expects, Up, Ups
<1>3. Step(p)
  <2>1. proc'[p] # proc[p]
    BY DEF Leaving
  <2> QED  BY <2>1, OwnStep
<1>4. inst \in [Slots -> Cell] /\ proc \in [Procs -> Process] /\ x.slot \in Slots
  BY <1>1, Types DEF IInv, Here
<1>5. NoInst.users = {}
  BY DEF NoInst
<1>6. CASE CheckExists(p)
  <2>1. u.st = "none" /\ inst' = inst
    <3>1. ~Goto(p, "pull")
      BY Going
    <3> QED  BY <1>1, <1>6, <3>1 DEF Here, CheckExists, Exists
  <2> QED  BY <1>1, <1>5, <2>1 DEF Here
<1>7. CASE CleanupDelete(p)
  <2>1. inst'[x.slot] = NoInst
    BY <1>1, <1>4, <1>7 DEF Here, CleanupDelete, SetBox
  <2> QED  BY <1>1, <1>5, <2>1 DEF Here
<1>8. \/ CheckExistsFails(p) \/ LookFails(p) \/ AskUnknown(p) \/ AskGivesUp(p) \/ WaitFails(p)
      \/ LookAgainFails(p) \/ CleanupDeleteFails(p)
      => FALSE
  BY DEF CheckExistsFails, LookFails, AskUnknown, AskGivesUp, WaitFails, LookAgainFails,
         CleanupDeleteFails, Trouble
<1>9. Pull(p) \/ PullFails(p) \/ AskStopping(p) \/ WaitEnds(p) \/ WaitForces(p) => FALSE
  <2>1. ~Goto(p, "look") /\ ~Goto(p, "wait") /\ ~Goto(p, "again")
    BY Going
  <2>2. ~PullFails(p)
    BY <1>4 DEF PullFails, Process
  <2> QED  BY <2>1, <2>2 DEF Pull, AskStopping, WaitEnds, WaitForces
<1>10. Look(p) \/ LookAgain(p) => FALSE
  <2>1. ~Goto(p, "ask") /\ ~Goto(p, "delete")
    BY Going
  <2> QED  BY <1>1, <1>2, <2>1 DEF Here, Look, LookAgain, Decided, At
<1>11. AskHealthy(p) => FALSE
  BY AskHealthyTurns
<1>12. ~Enters(p)
  BY <1>1, <1>2 DEF Here, Enters, ConfigureAuto, ConfigureSlot, ConfigureRun, ConfigureResume,
     Launch, Absent, Refuse, Reuse, Restart, Leftover, DeleteLeftover, Create, Start, StartFails,
     BootBlockFails, RemoveFailed, Ready, RestoreFails, SetupFails, At, Leaving
<1>13. ~(Work(p) \/ Exit(p) \/ PowerOff(p) \/ Crash(p) \/ RunTeardown(p))
  <2>1. x.pc # "work"
    BY <1>2 DEF Leaving
  <2>2. ~Crash(p)
    BY Going DEF Crash
  <2> QED  BY <1>1, <1>2, <2>1, <2>2 DEF Here, Work, Exit, PowerOff, RunTeardown, Shell, At
<1> QED  BY <1>3, <1>6, <1>7, <1>8, <1>9, <1>10, <1>11, <1>12, <1>13 DEF Step, Leaves

\* A shell whose user powered the guest off deletes the ephemeral container, if
\* the streak it asks for is longer than a guest stays healthy after a poweroff:
\* with any number of other commands, which may set up, start or delete
\* containers of the same name meanwhile.
THEOREM PowerOffAlwaysDeletes ==
  ASSUME Enqueued < Streak
  PROVE  Spec => PowerOffDeletes
<1>1. IInv /\ [Next]_vars => [Deletes]_vars
  BY DeletesStep
<1>2. Spec => []IInv
  BY SessionsInit, SessionsStep, PTL DEF Spec
<1>3. Spec => [][Deletes]_vars
  BY <1>1, <1>2, PTL DEF Spec
<1> QED  BY <1>3 DEF Deletes, PowerOffDeletes

-----------------------------------------------------------------------------
(* What a shell does to a container that runs.                              *)

LEMMA StepMild ==
  ASSUME IInv, NEW p \in Procs, Step(p), NEW x, NEW u, Here(p, x, u), p \notin disturbed,
         u.st = "running", x.way # "run"
  PROVE  /\ x.pc \in Entering => inst'[x.slot].st = "running"
         /\ x.pc \in Leaving => inst'[x.slot] = u
<1>1. inst \in [Slots -> Cell] /\ x.slot \in Slots /\ u = inst[x.slot] /\ u \in Cell
  BY Types DEF IInv, Here
<1>2. inst' = inst => inst'[x.slot] = u
  BY <1>1
<1>3. CASE \/ ConfigureAuto(p) \/ ConfigureSlot(p) \/ ConfigureRun(p) \/ ConfigureResume(p)
           \/ Work(p) \/ PowerOff(p)
  BY <1>3 DEF Here, ConfigureAuto, ConfigureSlot, ConfigureRun, ConfigureResume, Launch, Work,
     PowerOff, At, Entering, Leaving
<1>4. CASE Absent(p) \/ Refuse(p) \/ Reuse(p) \/ Restart(p) \/ Leftover(p)
  <2>1. x.pc = "enter" /\ \E users : inst' = [inst EXCEPT ![x.slot] = [u EXCEPT !.users = users]]
    BY <1>4 DEF Here, Absent, Refuse, Reuse, Restart, Leftover, Enter, SetBox, At
  <2> QED  BY <1>1, <2>1 DEF Leaving, Cell
<1>5. CASE DeleteLeftover(p) \/ Start(p) \/ BootBlockFails(p)
  BY <1>5 DEF Here, OwnAt, Expects, Ups, DeleteLeftover, Start, BootBlockFails, At
<1>6. CASE Create(p)
  BY <1>1, <1>6 DEF Here, Create, Exists, At, Leaving
<1>7. CASE RemoveFailed(p) \/ RunTeardown(p)
  BY <1>7 DEF Here, RemoveFailed, RunTeardown, Shell, At, OwnAt
<1>8. CASE Ready(p)
  <2>1. x.pc = "ready" /\ (\/ inst' = inst
                           \/ inst' = [inst EXCEPT ![x.slot] = [u EXCEPT !.work = saved[x.sid].data]])
    BY <1>8 DEF Here, Ready, SetBox, At
  <2> QED  BY <1>1, <2>1 DEF Leaving, Cell
<1>9. CASE AskHealthy(p)
  <2>1. x.pc = "ask" /\ inst' = [inst EXCEPT ![x.slot] = [u EXCEPT !.asked = u.asked]]
    BY <1>9 DEF Here, AskHealthy, Healthy, SetBox, At
  <2>2. [u EXCEPT !.asked = u.asked] = u
    BY <1>1 DEF Cell
  <2> QED  BY <1>1, <2>1, <2>2 DEF Entering
<1>10. CASE WaitForces(p) \/ CleanupDelete(p)
  BY <1>10 DEF Here, WaitForces, CleanupDelete, At, OwnAt, Stopping, Entering
<1>11. CASE \/ StartFails(p) \/ RestoreFails(p) \/ SetupFails(p) \/ CheckExists(p)
            \/ CheckExistsFails(p) \/ Pull(p) \/ PullFails(p) \/ Look(p) \/ LookFails(p)
            \/ AskStopping(p) \/ AskUnknown(p) \/ AskGivesUp(p) \/ WaitEnds(p) \/ WaitFails(p)
            \/ LookAgain(p) \/ LookAgainFails(p) \/ CleanupDeleteFails(p) \/ Exit(p) \/ Crash(p)
  <2>1. inst' = inst
    BY <1>11 DEF StartFails, RestoreFails, SetupFails, CheckExists, CheckExistsFails, Pull,
       PullFails, Look, LookFails, AskStopping, AskUnknown, AskGivesUp, WaitEnds, WaitFails,
       LookAgain, LookAgainFails, CleanupDeleteFails, Exit, Crash
  <2> QED  BY <1>1, <1>2, <2>1
<1> QED  BY <1>3, <1>4, <1>5, <1>6, <1>7, <1>8, <1>9, <1>10, <1>11 DEF Step, Enters, Leaves

Harmless ==
  \A p \in Procs \ disturbed :
    proc'[p] # proc[p] /\ Shell(p) /\ Box(p).st = "running" =>
      LET s == proc[p].slot IN
      /\ proc[p].pc \in Entering => inst'[s].st = "running"
      /\ proc[p].pc \in Leaving => inst'[s] = inst[s]

LEMMA HarmlessStep == IInv /\ [Next]_vars => Harmless
<1> SUFFICES ASSUME IInv, [Next]_vars, NEW p \in Procs \ disturbed, proc'[p] # proc[p], Shell(p),
                    Box(p).st = "running"
             PROVE  LET s == proc[p].slot IN
                    /\ proc[p].pc \in Entering => inst'[s].st = "running"
                    /\ proc[p].pc \in Leaving => inst'[s] = inst[s]
  BY DEF Harmless
<1>1. PICK x, u : Here(p, x, u)
  BY Knowing
<1>2. Step(p)
  BY OwnStep
<1>3. u.st = "running" /\ x.way # "run" /\ x = proc[p] /\ u = inst[x.slot]
  BY <1>1 DEF Here, Shell
<1>4. /\ x.pc \in Entering => inst'[x.slot].st = "running"
      /\ x.pc \in Leaving => inst'[x.slot] = u
  BY <1>1, <1>2, <1>3, StepMild
<1> QED  BY <1>3, <1>4

\* No undisturbed shell, before or after its work, stops or deletes a container
\* whose guest nobody told to stop: with any number of other commands, step by
\* step between each other.
THEOREM ShellAlwaysHarmless == Spec => ShellHarmless
<1>1. IInv /\ [Next]_vars => [Harmless]_vars
  BY HarmlessStep
<1>2. Spec => []IInv
  BY SessionsInit, SessionsStep, PTL DEF Spec
<1>3. Spec => [][Harmless]_vars
  BY <1>1, <1>2, PTL DEF Spec
<1> QED  BY <1>3 DEF Harmless, ShellHarmless

=============================================================================
