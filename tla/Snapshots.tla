------------------------------- MODULE Snapshots -------------------------------
(***************************************************************************)
(* coi snapshot create, restore and delete (cli/snapshot.go over           *)
(* container/manager.go): each looks at its container, may ask the user,   *)
(* and then acts by name, in incus calls of their own, while other         *)
(* commands start, stop, delete and snapshot the same containers.          *)
(***************************************************************************)
EXTENDS Naturals, FiniteSets

CONSTANTS Users, Insts, SnapNames,
          MaxRequests, MaxWork, MaxRuns,
          MaxMishaps    \* failing incus calls

VARIABLES insts,   \* the containers of the workspace
          req,    \* the snapshot commands
          work,   \* the stamp of the latest work in any container
          requests, mishaps

svars == <<insts, req, work, requests, mishaps>>

\* run: how often it was started; disk: the work in it; a snapshot has a name
\* and a disk.
NoInst == [st |-> "none", run |-> 0, disk |-> 0, snaps |-> {}]
\* shown: the names typed, or listed in the question; run: that of the
\* container when it was seen stopped; done: names dealt with.
NoReq == [pc |-> "idle", kind |-> "none", c |-> "none", shown |-> {}, run |-> 0, done |-> {}]

SInit ==
  /\ insts = [c \in Insts |-> NoInst] /\ req = [u \in Users |-> NoReq]
  /\ work = 0 /\ requests = 0 /\ mishaps = 0

NamesOf(c) == {s.name : s \in insts[c].snaps}
Asking(u, pc) == req[u].pc = pc /\ UNCHANGED <<work, requests>>
Smooth == UNCHANGED mishaps
Mishap == mishaps < MaxMishaps /\ mishaps' = mishaps + 1
Put1(u, r) == req' = [req EXCEPT ![u] = r]
Done(u) == Put1(u, NoReq)

-----------------------------------------------------------------------------
\* resolveContainer: named by flag or environment, or the only one there is.
Existing == {c \in Insts : insts[c].st # "none"}
Request(u) ==
  /\ req[u].pc = "idle" /\ requests < MaxRequests /\ requests' = requests + 1
  /\ Smooth /\ UNCHANGED <<insts, work>>
  /\ \E c \in Existing, named \in BOOLEAN, kind \in {"create", "restore", "delete", "all"} :
       /\ named \/ Existing = {c}
       /\ \E n \in SnapNames :
            Put1(u, [NoReq EXCEPT !.pc = "look", !.kind = kind, !.c = c,
                                  !.shown = IF kind = "all" THEN {} ELSE {n}])

\* SnapshotExists or ListSnapshots; only delete --all and restore ask, and
\* neither with --force.
Look(u) ==
  LET r == req[u] IN
  /\ Asking(u, "look") /\ Smooth /\ UNCHANGED insts
  /\ \/ r.kind = "create" /\ r.shown \cap NamesOf(r.c) = {} /\ Put1(u, [r EXCEPT !.pc = "act"])
     \/ r.kind = "delete" /\ r.shown \subseteq NamesOf(r.c) /\ Put1(u, [r EXCEPT !.pc = "act"])
     \/ r.kind = "restore" /\ r.shown \subseteq NamesOf(r.c) /\ Put1(u, [r EXCEPT !.pc = "state"])
     \/ /\ r.kind = "all" /\ NamesOf(r.c) # {}
        /\ \E pc \in {"question", "act"} : Put1(u, [r EXCEPT !.pc = pc, !.shown = NamesOf(r.c)])
Denied(u) ==
  LET r == req[u] IN
  /\ Asking(u, "look") /\ Smooth /\ UNCHANGED insts /\ Done(u)
  /\ IF r.kind = "create" THEN r.shown \subseteq NamesOf(r.c)
     ELSE IF r.kind = "all" THEN NamesOf(r.c) = {} ELSE r.shown \cap NamesOf(r.c) = {}

\* As if restore left it to incus, which restores a container that runs, too.
AnyState(c) == TRUE
MayRestore(c) == insts[c].st # "running"

SeeState(u) ==
  LET c == req[u].c IN
  /\ Asking(u, "state") /\ Smooth /\ UNCHANGED insts
  /\ IF MayRestore(c)
     THEN \E pc \in {"question", "act"} : Put1(u, [req[u] EXCEPT !.pc = pc, !.run = insts[c].run])
     ELSE Done(u)

Confirm(u) == Asking(u, "question") /\ Smooth /\ UNCHANGED insts /\ Put1(u, [req[u] EXCEPT !.pc = "act"])
Decline(u) == Asking(u, "question") /\ Smooth /\ UNCHANGED insts /\ Done(u)

-----------------------------------------------------------------------------
(* What the commands do, by name; incus refuses what is not (any more) so.  *)

CreateSnapshot(u) ==
  LET r == req[u] IN
  /\ Asking(u, "act") /\ r.kind = "create" /\ Smooth /\ Done(u)
  /\ IF insts[r.c].st = "none" \/ r.shown \subseteq NamesOf(r.c) THEN UNCHANGED insts
     ELSE insts' = [insts EXCEPT ![r.c].snaps =
                      @ \cup {[name |-> n, disk |-> insts[r.c].disk] : n \in r.shown}]

\* A container that runs is stopped for it, and started again.
RestoreSnapshot(u) ==
  LET r == req[u] IN
  /\ Asking(u, "act") /\ r.kind = "restore" /\ Smooth /\ Done(u)
  /\ IF r.shown \subseteq NamesOf(r.c)
     THEN \E s \in insts[r.c].snaps :
            s.name \in r.shown /\ insts' = [insts EXCEPT ![r.c].disk = s.disk]
     ELSE UNCHANGED insts

\* As if the list were read again after the answer.
Relisted(u) == IF req[u].kind = "all" THEN NamesOf(req[u].c) ELSE req[u].shown
Doomed(u) == req[u].shown

\* One snapshot after the other; one that cannot be deleted is passed over.
DeleteSnapshot(u) ==
  LET r == req[u] IN
  /\ Asking(u, "act") /\ r.kind \in {"delete", "all"} /\ Smooth
  /\ \E n \in Doomed(u) \ r.done :
       /\ insts' = [insts EXCEPT ![r.c].snaps = {s \in @ : s.name # n}]
       /\ Put1(u, [r EXCEPT !.done = @ \cup {n}])
DeleteFails(u) ==
  LET r == req[u] IN
  /\ Asking(u, "act") /\ r.kind \in {"delete", "all"} /\ Mishap /\ UNCHANGED insts
  /\ \E n \in Doomed(u) \ r.done : Put1(u, [r EXCEPT !.done = @ \cup {n}])
Finish(u) == /\ Asking(u, "act") /\ req[u].kind \in {"delete", "all"} /\ Smooth /\ UNCHANGED insts
             /\ Doomed(u) \subseteq req[u].done /\ Done(u)

\* Any other call that fails, and an interrupt, end the command.
GiveUpRequest(u) == /\ req[u].pc # "idle" /\ Mishap /\ Done(u) /\ UNCHANGED <<insts, work, requests>>

-----------------------------------------------------------------------------
(* The other commands.                                                      *)

Others(c, st, r) == /\ insts[c].st = st /\ insts' = [insts EXCEPT ![c] = r]
                    /\ UNCHANGED <<req, requests, mishaps>>
Create(c) == Others(c, "none", [NoInst EXCEPT !.st = "stopped", !.run = insts[c].run]) /\ UNCHANGED work
StartInst(c) == /\ insts[c].run < MaxRuns /\ UNCHANGED work
                /\ Others(c, "stopped", [insts[c] EXCEPT !.st = "running", !.run = @ + 1])
StopInst(c) == Others(c, "running", [insts[c] EXCEPT !.st = "stopped"]) /\ UNCHANGED work
RemoveInst(c) == Others(c, "stopped", [NoInst EXCEPT !.run = insts[c].run]) /\ UNCHANGED work
Work(c) == /\ work < MaxWork /\ work' = work + 1
           /\ Others(c, "running", [insts[c] EXCEPT !.disk = work + 1])

SNext == \/ \E u \in Users : \/ Request(u) \/ Look(u) \/ Denied(u) \/ SeeState(u)
                             \/ Confirm(u) \/ Decline(u) \/ CreateSnapshot(u) \/ RestoreSnapshot(u)
                             \/ DeleteSnapshot(u) \/ DeleteFails(u) \/ Finish(u) \/ GiveUpRequest(u)
         \/ \E c \in Insts : Create(c) \/ StartInst(c) \/ StopInst(c) \/ RemoveInst(c) \/ Work(c)

SSpec == SInit /\ [][SNext]_svars

-----------------------------------------------------------------------------
(* A snapshot goes only by a name that was typed or listed in the question  *)
(* its user agreed to, and work goes back only to what a snapshot of the    *)
(* name typed holds; the work of a session goes only when that session      *)
(* began after the command had seen the container stopped ("container must  *)
(* be stopped before restore").                                             *)
OnlyAsked ==
  [][\A c \in Existing : insts'[c].st # "none" =>
       /\ \A s \in insts[c].snaps \ insts'[c].snaps : \E u \in Users :
            req[u].pc = "act" /\ req[u].c = c /\ req[u].kind \in {"delete", "all"} /\ s.name \in req[u].shown
       /\ insts'[c].disk # insts[c].disk /\ work' = work => \E u \in Users, s \in insts[c].snaps :
            /\ req[u].pc = "act" /\ req[u].c = c /\ req[u].kind = "restore"
            /\ s.name \in req[u].shown /\ s.disk = insts'[c].disk
            /\ insts[c].st = "running" => insts[c].run > req[u].run]_svars

=============================================================================
