------------------------------ MODULE WorkspaceProofs ------------------------------
(***************************************************************************)
(* What coi does to a workspace and keeps of it, for any number of users,  *)
(* commands, containers and names: snapshots go only when asked, what is   *)
(* immutable is recorded or known to be lost, a container that coi starts  *)
(* has its protected paths locked, covered, or told of, a session is told  *)
(* the ports that its container publishes, and the file its tool loads     *)
(* holds one block beside the user's own lines.                            *)
(***************************************************************************)
EXTENDS Snapshots, Locks, Protection, Ports, Context, PickingProofs

Inst == [st : {"none", "stopped", "running"}, run : Nat, disk : Nat,
         snaps : SUBSET [name : SnapNames, disk : Nat]]
Req == [pc : {"idle", "look", "state", "question", "act"},
        kind : {"none", "create", "restore", "delete", "all"},
        c : Insts \cup {"none"}, shown : SUBSET SnapNames, run : Nat, done : SUBSET SnapNames]

STypeOK == /\ insts \in [Insts -> Inst] /\ req \in [Users -> Req]
           /\ work \in Nat /\ requests \in Nat /\ mishaps \in Nat

\* A command under way is about a container. Past its check of the state, a
\* restore remembers a run that is over: what runs now was started later.
Sound(r) ==
  /\ r.pc # "idle" => r.c \in Insts
  /\ r.kind = "restore" /\ r.pc \in {"question", "act"} =>
       /\ insts[r.c].run >= r.run
       /\ insts[r.c].st = "running" => insts[r.c].run > r.run

SInv == STypeOK /\ \A u \in Users : Sound(req[u])

-----------------------------------------------------------------------------
(* A step keeps the invariant if no container runs on in a run that was     *)
(* over, and if the command it belongs to is sound.                         *)

Older(c) == /\ insts'[c].run >= insts[c].run
            /\ insts'[c].st = "running" =>
                 insts[c].st = "running" \/ insts'[c].run > insts[c].run

\* The invariant holds when nothing is asked and no container is there.
LEMMA SnapshotsInit == SInit => SInv
<1> USE DEF SInit, SInv, STypeOK, Sound, NoInst, NoReq, Inst, Req
<1> QED  BY SMT

\* The steps keep it that let no restored run go on and leave every command
\* as it is or sound.
LEMMA KeepsSound ==
  ASSUME SInv, STypeOK', \A c \in Insts : Older(c),
         \A u \in Users : req'[u] = req[u] \/ Sound(req'[u])
  PROVE  SInv'
<1>1. ASSUME NEW u \in Users PROVE Sound(req'[u])
  BY <1>1 DEF SInv
<1>2. ASSUME NEW u \in Users PROVE Sound(req[u])'
  <2>1. req'[u] \in Req
    BY DEF STypeOK
  <2>2. CASE req'[u].kind = "restore" /\ req'[u].pc \in {"question", "act"}
    <3> DEFINE c == req'[u].c
               r == req'[u].run
    <3>1. c \in Insts /\ r \in Nat /\ insts[c].run >= r
          /\ (insts[c].st = "running" => insts[c].run > r)
      BY <1>1, <2>1, <2>2 DEF Sound, Req
    <3>2. insts[c].run \in Nat /\ insts'[c].run \in Nat
      BY <3>1 DEF SInv, STypeOK, Inst
    <3>3. Older(c)
      BY <3>1
    <3> HIDE DEF c, r
    <3>4. insts'[c].run >= r /\ (insts'[c].st = "running" => insts'[c].run > r)
      BY <3>1, <3>2, <3>3, SMT DEF Older
    <3> QED  BY <3>1, <3>4 DEF c, r, Sound
  <2>3. CASE ~(req'[u].kind = "restore" /\ req'[u].pc \in {"question", "act"})
    BY <1>1, <2>3 DEF Sound
  <2> QED  BY <2>2, <2>3
<1> QED  BY <1>2 DEF SInv

\* What Put1 does, for any record.
LEMMA Puts ==
  ASSUME STypeOK, NEW u \in Users, NEW r \in Req, Put1(u, r)
  PROVE  /\ req' \in [Users -> Req]
         /\ \A v \in Users : req'[v] = IF v = u THEN r ELSE req[v]
  BY DEF STypeOK, Put1

\* A step that only changes the record of its command.
LEMMA PutsSound ==
  ASSUME SInv, NEW u \in Users, NEW r \in Req, Put1(u, r), Sound(r), insts' = insts,
         work' \in Nat, requests' \in Nat, mishaps' \in Nat
  PROVE  SInv'
<1>1. STypeOK' /\ \A v \in Users : req'[v] = req[v] \/ Sound(req'[v])
  BY Puts DEF SInv, STypeOK
<1>2. \A c \in Insts : Older(c)
  BY SMT DEF SInv, STypeOK, Inst, Older
<1> QED  BY <1>1, <1>2, KeepsSound

\* A user without a command.
LEMMA NoReqSound == NoReq \in Req /\ Sound(NoReq)
  BY SMT DEF NoReq, Req, Sound

\* The steps of a command that touch no container.
LEMMA AskingInv ==
  ASSUME SInv, NEW u \in Users,
         Request(u) \/ Look(u) \/ Denied(u) \/ SeeState(u) \/ Confirm(u) \/ Decline(u)
           \/ DeleteFails(u) \/ Finish(u) \/ GiveUpRequest(u)
  PROVE  SInv' /\ insts' = insts
<1> USE DEF Smooth, Asking
<1>0. /\ req[u] \in Req /\ Sound(req[u]) /\ insts \in [Insts -> Inst]
      /\ work \in Nat /\ requests \in Nat /\ mishaps \in Nat
      /\ requests + 1 \in Nat /\ mishaps + 1 \in Nat
  BY SMT DEF SInv, STypeOK
<1>1. CASE Request(u)
  <2>1. PICK c \in Existing, named \in BOOLEAN, kind \in {"create", "restore", "delete", "all"}, n \in SnapNames :
          Put1(u, [NoReq EXCEPT !.pc = "look", !.kind = kind, !.c = c,
                                !.shown = IF kind = "all" THEN {} ELSE {n}])
    BY <1>1 DEF Request
  <2> DEFINE r == [NoReq EXCEPT !.pc = "look", !.kind = kind, !.c = c,
                                !.shown = IF kind = "all" THEN {} ELSE {n}]
  <2>2. r \in Req /\ Sound(r)
    <3>1. c \in Insts
      BY DEF Existing
    <3>2. r \in Req
      BY <3>1 DEF NoReq, Req
    <3>3. r.pc = "look" /\ r.c = c
      BY DEF NoReq
    <3> QED  BY <3>1, <3>2, <3>3 DEF Sound
  <2> HIDE DEF r
  <2>3. Put1(u, r)
    BY <2>1 DEF r
  <2> QED  BY <1>0, <1>1, <2>2, <2>3, PutsSound DEF Request
<1>2. CASE Look(u)
  <2>1. req[u].pc = "look" /\ insts' = insts /\ UNCHANGED <<work, requests, mishaps>>
    BY <1>2 DEF Look
  <2>2. PICK pc \in {"act", "state", "question"}, shown \in SUBSET SnapNames :
          /\ Put1(u, [req[u] EXCEPT !.pc = pc, !.shown = shown])
          /\ pc = "state" \/ req[u].kind # "restore"
    <3>1. req[u].shown \in SUBSET SnapNames /\ req[u] = [req[u] EXCEPT !.shown = req[u].shown]
      BY <1>0, SMT DEF Req
    <3>2. NamesOf(req[u].c) \in SUBSET SnapNames
      BY <1>0, <2>1, SMT DEF NamesOf, Sound, Inst
    <3>3. \A pc \in {"act", "state"} :
            [req[u] EXCEPT !.pc = pc] = [req[u] EXCEPT !.pc = pc, !.shown = req[u].shown]
      BY <1>0 DEF Req
    <3>4. CASE req[u].kind = "create" /\ Put1(u, [req[u] EXCEPT !.pc = "act"])
      BY <3>1, <3>3, <3>4
    <3>5. CASE req[u].kind = "delete" /\ Put1(u, [req[u] EXCEPT !.pc = "act"])
      BY <3>1, <3>3, <3>5
    <3>6. CASE req[u].kind = "restore" /\ Put1(u, [req[u] EXCEPT !.pc = "state"])
      BY <3>1, <3>3, <3>6
    <3>7. CASE /\ req[u].kind = "all"
               /\ \E pc \in {"question", "act"} :
                    Put1(u, [req[u] EXCEPT !.pc = pc, !.shown = NamesOf(req[u].c)])
      BY <3>2, <3>7
    <3> QED  BY <1>2, <3>4, <3>5, <3>6, <3>7 DEF Look
  <2> DEFINE r == [req[u] EXCEPT !.pc = pc, !.shown = shown]
  <2>3. r \in Req
    BY <1>0 DEF Req
  <2>4. Sound(r)
    <3>1. r.pc = pc /\ r.kind = req[u].kind /\ r.c = req[u].c
      BY <1>0, SMT DEF Req
    <3> HIDE DEF r
    <3>2. req[u].c \in Insts
      BY <1>0, <2>1 DEF Sound
    <3> QED  BY <2>2, <3>1, <3>2 DEF Sound
  <2> HIDE DEF r
  <2>5. Put1(u, r)
    BY <2>2 DEF r
  <2> QED  BY <1>0, <2>1, <2>3, <2>4, <2>5, PutsSound
<1>3. CASE Denied(u) \/ Decline(u) \/ Finish(u) \/ GiveUpRequest(u)
  <2>1. Put1(u, NoReq) /\ insts' = insts
        /\ work' \in Nat /\ requests' \in Nat /\ mishaps' \in Nat
    BY <1>0, <1>3 DEF Denied, Decline, Finish, GiveUpRequest, Mishap, Done
  <2> QED  BY <2>1, NoReqSound, PutsSound
<1>4. CASE SeeState(u)
  <2>1. CASE MayRestore(req[u].c)
    <3>1. PICK pc \in {"question", "act"} :
            Put1(u, [req[u] EXCEPT !.pc = pc, !.run = insts[req[u].c].run])
      BY <1>4, <2>1 DEF SeeState
    <3> DEFINE r == [req[u] EXCEPT !.pc = pc, !.run = insts[req[u].c].run]
    <3>2. req[u].c \in Insts /\ insts[req[u].c].run \in Nat
      BY <1>0, <1>4 DEF SeeState, Sound, Inst
    <3>3. r \in Req /\ r.c = req[u].c /\ r.run = insts[req[u].c].run
      BY <1>0, <3>2 DEF Req
    <3> HIDE DEF r
    <3>4. Sound(r)
      BY <2>1, <3>2, <3>3, SMT DEF Sound, MayRestore
    <3>5. Put1(u, r)
      BY <3>1 DEF r
    <3> QED  BY <1>0, <1>4, <3>3, <3>4, <3>5, PutsSound DEF SeeState
  <2>2. CASE ~MayRestore(req[u].c)
    BY <1>0, <1>4, <2>2, NoReqSound, PutsSound DEF SeeState, Done
  <2> QED  BY <2>1, <2>2
<1>5. CASE Confirm(u)
  <2> DEFINE r == [req[u] EXCEPT !.pc = "act"]
  <2>1. r \in Req /\ Sound(r)
    BY <1>0, <1>5, SMT DEF Confirm, Req, Sound
  <2>2. Put1(u, r)
    BY <1>5 DEF Confirm
  <2> HIDE DEF r
  <2> QED  BY <1>0, <1>5, <2>1, <2>2, PutsSound DEF Confirm
<1>6. CASE DeleteFails(u)
  <2>1. PICK n \in Doomed(u) \ req[u].done : Put1(u, [req[u] EXCEPT !.done = @ \cup {n}])
    BY <1>6 DEF DeleteFails
  <2> DEFINE r == [req[u] EXCEPT !.done = @ \cup {n}]
  <2>2. r \in Req /\ Sound(r)
    BY <1>0, <1>6, SMT DEF DeleteFails, Doomed, Req, Sound
  <2>3. Put1(u, r)
    BY <2>1
  <2> HIDE DEF r
  <2> QED  BY <1>0, <1>6, <2>2, <2>3, PutsSound DEF DeleteFails, Mishap
<1> QED  BY <1>1, <1>2, <1>3, <1>4, <1>5, <1>6

\* The steps that act on the snapshots or the disk of a container.
LEMMA ActingInv ==
  ASSUME SInv, NEW u \in Users,
         CreateSnapshot(u) \/ RestoreSnapshot(u) \/ DeleteSnapshot(u)
  PROVE  SInv'
<1> USE DEF Smooth, Asking
<1>0. /\ STypeOK /\ req[u] \in Req /\ Sound(req[u]) /\ insts \in [Insts -> Inst]
      /\ work' = work /\ requests' = requests /\ mishaps' = mishaps
      /\ req[u].pc = "act" /\ req[u].c \in Insts
  BY DEF SInv, STypeOK, Sound, CreateSnapshot, RestoreSnapshot, DeleteSnapshot
<1> DEFINE c == req[u].c
<1>1. /\ insts' \in [Insts -> Inst]
      /\ \A d \in Insts : insts'[d].run = insts[d].run /\ insts'[d].st = insts[d].st
  <2>1. insts[c] \in Inst /\ req[u].shown \subseteq SnapNames
    BY <1>0 DEF Req
  <2>2. CASE insts' = insts
    BY <1>0, <2>2
  <2>3. CASE CreateSnapshot(u) /\ insts' # insts
    BY <1>0, <2>1, <2>3, SMT DEF CreateSnapshot, Inst
  <2>4. CASE RestoreSnapshot(u) /\ insts' # insts
    <3>1. PICK s \in insts[c].snaps : insts' = [insts EXCEPT ![c].disk = s.disk]
      BY <2>4 DEF RestoreSnapshot
    <3>2. s.disk \in Nat
      BY <2>1 DEF Inst
    <3>3. [insts[c] EXCEPT !.disk = s.disk] \in Inst
      BY <2>1, <3>2 DEF Inst
    <3> QED  BY <1>0, <2>1, <3>1, <3>3, SMT DEF Inst
  <2>5. CASE DeleteSnapshot(u)
    BY <1>0, <2>1, <2>5, SMT DEF DeleteSnapshot, Inst
  <2> QED  BY <2>2, <2>3, <2>4, <2>5
<1>2. \A d \in Insts : Older(d)
  BY <1>0, <1>1, SMT DEF Older, Inst
<1>3. PICK r \in Req : Put1(u, r) /\ Sound(r)
  <2>1. CASE CreateSnapshot(u) \/ RestoreSnapshot(u)
    BY <2>1, NoReqSound DEF CreateSnapshot, RestoreSnapshot, Done
  <2>2. CASE DeleteSnapshot(u)
    <3>1. PICK n \in Doomed(u) \ req[u].done : Put1(u, [req[u] EXCEPT !.done = @ \cup {n}])
      BY <2>2 DEF DeleteSnapshot
    <3> DEFINE r == [req[u] EXCEPT !.done = @ \cup {n}]
    <3>2. n \in SnapNames
      BY <1>0, <3>1 DEF Doomed, Req
    <3>3. r \in Req
      BY <1>0, <3>2, SMT DEF Req
    <3>4. r.pc = req[u].pc /\ r.kind = req[u].kind /\ r.c = req[u].c /\ r.run = req[u].run
      BY <1>0, SMT DEF Req
    <3>5. Sound(r)
      BY <1>0, <3>4 DEF Sound
    <3> QED  BY <3>1, <3>3, <3>5
  <2> QED  BY <2>1, <2>2
<1>4. STypeOK' /\ \A v \in Users : req'[v] = req[v] \/ Sound(req'[v])
  BY <1>0, <1>1, <1>3, Puts DEF STypeOK
<1> QED  BY <1>2, <1>4, KeepsSound

\* What the others do to a container never makes a run that is over run on.
LEMMA OthersInv ==
  ASSUME SInv, NEW c \in Insts,
         Create(c) \/ StartInst(c) \/ StopInst(c) \/ RemoveInst(c) \/ Work(c)
  PROVE  SInv'
<1>1. PICK r \in Inst : /\ insts' = [insts EXCEPT ![c] = r]
                        /\ r.run >= insts[c].run
                        /\ r.st = "running" => insts[c].st = "running" \/ r.run > insts[c].run
  <2>0. /\ insts[c] \in Inst /\ work + 1 \in Nat
        /\ insts[c].run \in Nat /\ insts[c].run + 1 \in Nat
        /\ insts[c].run >= insts[c].run /\ insts[c].run + 1 > insts[c].run
        /\ insts[c].run + 1 >= insts[c].run
    BY SMT DEF SInv, STypeOK, Inst
  <2>1. CASE Create(c)
    <3> DEFINE r == [NoInst EXCEPT !.st = "stopped", !.run = insts[c].run]
    <3>1. r \in Inst /\ r.run = insts[c].run /\ r.st = "stopped"
      BY <2>0 DEF Inst, NoInst
    <3>2. insts' = [insts EXCEPT ![c] = r]
      BY <2>1 DEF Create, Others
    <3> HIDE DEF r
    <3> QED  BY <2>0, <3>1, <3>2
  <2>2. CASE StartInst(c)
    <3> DEFINE r == [insts[c] EXCEPT !.st = "running", !.run = @ + 1]
    <3>1. r \in Inst /\ r.run = insts[c].run + 1
      BY <2>0 DEF Inst
    <3>2. insts' = [insts EXCEPT ![c] = r]
      BY <2>2 DEF StartInst, Others
    <3> HIDE DEF r
    <3> QED  BY <2>0, <3>1, <3>2
  <2>3. CASE StopInst(c)
    <3> DEFINE r == [insts[c] EXCEPT !.st = "stopped"]
    <3>1. r \in Inst /\ r.run = insts[c].run /\ r.st = "stopped"
      BY <2>0 DEF Inst
    <3>2. insts' = [insts EXCEPT ![c] = r]
      BY <2>3 DEF StopInst, Others
    <3> HIDE DEF r
    <3> QED  BY <2>0, <3>1, <3>2
  <2>4. CASE RemoveInst(c)
    <3> DEFINE r == [NoInst EXCEPT !.run = insts[c].run]
    <3>1. r \in Inst /\ r.run = insts[c].run /\ r.st = "none"
      BY <2>0 DEF Inst, NoInst
    <3>2. insts' = [insts EXCEPT ![c] = r]
      BY <2>4 DEF RemoveInst, Others
    <3> HIDE DEF r
    <3> QED  BY <2>0, <3>1, <3>2
  <2>5. CASE Work(c)
    <3> DEFINE r == [insts[c] EXCEPT !.disk = work + 1]
    <3>1. r \in Inst /\ r.run = insts[c].run /\ r.st = insts[c].st
      BY <2>0 DEF Inst
    <3>2. insts' = [insts EXCEPT ![c] = r]
      BY <2>5 DEF Work, Others
    <3> HIDE DEF r
    <3> QED  BY <2>0, <3>1, <3>2
  <2> QED  BY <2>1, <2>2, <2>3, <2>4, <2>5
<1>2. req' = req /\ work' \in Nat /\ requests' = requests /\ mishaps' = mishaps
  BY SMT DEF SInv, STypeOK, Others, Create, StartInst, StopInst, RemoveInst, Work
<1>3. STypeOK'
  BY <1>1, <1>2 DEF SInv, STypeOK
<1>4. \A d \in Insts : Older(d)
  BY <1>1, SMT DEF SInv, STypeOK, Inst, Older
<1> QED  BY <1>2, <1>3, <1>4, KeepsSound

\* Every step keeps the invariant.
LEMMA StepInv == SInv /\ [SNext]_svars => SInv'
<1> SUFFICES ASSUME SInv, [SNext]_svars PROVE SInv'
  OBVIOUS
<1>1. CASE UNCHANGED svars
  BY <1>1 DEF svars, SInv, STypeOK, Sound
<1>2. CASE SNext
  BY <1>2, AskingInv, ActingInv, OthersInv DEF SNext
<1> QED  BY <1>1, <1>2

(* The containers hold what the type says, a command under way names a      *)
(* container, and a restore past its check remembers a run that is over.    *)
THEOREM RestoresAreLate == SSpec => []SInv
  BY SnapshotsInit, StepInv, PTL DEF SSpec

-----------------------------------------------------------------------------
(* The step OnlyAsked speaks of.                                            *)

FairTo(c) ==
  insts'[c].st # "none" =>
    /\ \A s \in insts[c].snaps \ insts'[c].snaps : \E u \in Users :
         req[u].pc = "act" /\ req[u].c = c /\ req[u].kind \in {"delete", "all"} /\ s.name \in req[u].shown
    /\ insts'[c].disk # insts[c].disk /\ work' = work => \E u \in Users, s \in insts[c].snaps :
         /\ req[u].pc = "act" /\ req[u].c = c /\ req[u].kind = "restore"
         /\ s.name \in req[u].shown /\ s.disk = insts'[c].disk
         /\ insts[c].st = "running" => insts[c].run > req[u].run

\* A step loses a snapshot or some work only as OnlyAsked says.
LEMMA StepFair ==
  ASSUME SInv, SNext, NEW c \in Existing
  PROVE  FairTo(c)
<1> USE DEF SInv, STypeOK, Inst, Existing
<1>0. c \in Insts /\ insts[c].st # "none"
  OBVIOUS
<1>1. ASSUME insts' = insts PROVE FairTo(c)
  BY <1>1 DEF FairTo
<1>2. ASSUME NEW u \in Users, CreateSnapshot(u) PROVE FairTo(c)
  BY <1>0, <1>2, SMT DEF FairTo, CreateSnapshot, Asking, Req, Sound
<1>3. ASSUME NEW u \in Users, RestoreSnapshot(u) PROVE FairTo(c)
  <2>1. CASE insts' = insts
    BY <1>1, <2>1
  <2>2. CASE insts' # insts
    <3>1. PICK s \in insts[req[u].c].snaps :
            s.name \in req[u].shown /\ insts' = [insts EXCEPT ![req[u].c].disk = s.disk]
      BY <1>3, <2>2 DEF RestoreSnapshot
    <3>2. req[u].pc = "act" /\ req[u].kind = "restore" /\ req[u].c \in Insts
      BY <1>3 DEF RestoreSnapshot, Asking, Sound
    <3>3. insts[req[u].c].st = "running" => insts[req[u].c].run > req[u].run
      BY <3>2 DEF Sound
    <3>4. CASE c = req[u].c
      BY <1>0, <3>1, <3>2, <3>3, <3>4, SMT DEF FairTo
    <3>5. CASE c # req[u].c
      BY <1>0, <3>1, <3>5, SMT DEF FairTo
    <3> QED  BY <3>4, <3>5
  <2> QED  BY <2>1, <2>2
<1>4. ASSUME NEW u \in Users, DeleteSnapshot(u) PROVE FairTo(c)
  <2>1. PICK n \in Doomed(u) \ req[u].done :
          insts' = [insts EXCEPT ![req[u].c].snaps = {s \in @ : s.name # n}]
    BY <1>4 DEF DeleteSnapshot
  <2>2. /\ req[u].pc = "act" /\ req[u].kind \in {"delete", "all"}
        /\ req[u].c \in Insts /\ n \in req[u].shown
    BY <1>4 DEF DeleteSnapshot, Asking, Doomed, Sound
  <2>3. CASE c = req[u].c
    <3>1. insts'[c].snaps = {s \in insts[c].snaps : s.name # n} /\ insts'[c].disk = insts[c].disk
      BY <1>0, <2>1, <2>3
    <3> QED  BY <2>2, <2>3, <3>1 DEF FairTo
  <2>4. CASE c # req[u].c
    BY <1>0, <2>1, <2>4, SMT DEF FairTo
  <2> QED  BY <2>3, <2>4
<1>5. ASSUME NEW d \in Insts,
             Create(d) \/ StartInst(d) \/ StopInst(d) \/ RemoveInst(d) \/ Work(d)
      PROVE  FairTo(c)
  <2>1. CASE c # d
    <3>1. insts'[c] = insts[c]
      BY <1>0, <1>5, <2>1 DEF Others, Create, StartInst, StopInst, RemoveInst, Work
    <3> QED  BY <3>1 DEF FairTo
  <2>2. CASE c = d /\ (StartInst(c) \/ StopInst(c))
    <3>1. insts'[c].snaps = insts[c].snaps /\ insts'[c].disk = insts[c].disk
      <4>1. insts[c] \in Inst
        BY <1>0
      <4>2. CASE StartInst(c)
        BY <1>0, <4>1, <4>2 DEF Others, StartInst
      <4>3. CASE StopInst(c)
        BY <1>0, <4>1, <4>3 DEF Others, StopInst
      <4> QED  BY <2>2, <4>2, <4>3
    <3> QED  BY <3>1 DEF FairTo
  <2>3. CASE c = d /\ (Create(c) \/ RemoveInst(c))
    <3>1. insts'[c].st = "none"
      BY <1>0, <2>3 DEF Others, Create, RemoveInst, NoInst
    <3> QED  BY <3>1 DEF FairTo
  <2>4. CASE c = d /\ Work(c)
    <3>1. insts'[c].snaps = insts[c].snaps
      BY <1>0, <2>4, SMT DEF Others, Work
    <3>2. work' # work
      BY <2>4, SMT DEF Work
    <3> QED  BY <3>1, <3>2 DEF FairTo
  <2> QED  BY <1>5, <2>1, <2>2, <2>3, <2>4
<1> QED  BY <1>1, <1>2, <1>3, <1>4, <1>5, AskingInv DEF SNext

(* A snapshot goes only by a name that was typed or agreed to, work goes    *)
(* back only to a snapshot of the name typed, and what a session has done   *)
(* goes only when it began after the restore had seen the container stopped.*)
THEOREM SnapshotsOnlyAsked == SSpec => OnlyAsked
<1>1. SInv /\ [SNext]_svars => [\A c \in Existing : FairTo(c)]_svars
  BY StepFair
<1> QED  BY <1>1, RestoresAreLate, PTL DEF SSpec, OnlyAsked, FairTo

-----------------------------------------------------------------------------
(* Immutable locks: lists of entries.                                       *)

\* Entries are set leaves first, path by path.
Before == {<<"hook", "hooks">>, <<"hook", "conf">>, <<"hooks", "conf">>}
Ordered(s) == \A i, j \in DOMAIN s : i < j => <<s[i], s[j]>> \in Before
Upward(s) == Ordered(s) /\ ("hook" \in Range(s) => "hooks" \in Range(s))

\* The rest of an ordered list is ordered, comes after its head, and the
\* directory of a leaf that was at the head is at the head now.
LEMMA TailUpward ==
  ASSUME NEW s \in Seq(Entries), s # <<>>, Upward(s)
  PROVE  /\ Upward(Tail(s))
         /\ \A e \in Range(Tail(s)) : <<Head(s), e>> \in Before
         /\ Head(s) = "hook" => Tail(s) # <<>> /\ Head(Tail(s)) = "hooks"
<1>1. /\ Len(s) \in Nat \ {0} /\ Tail(s) \in Seq(Entries) /\ Head(s) = s[1] /\ s[1] \in Entries
      /\ DOMAIN s = 1..Len(s) /\ DOMAIN Tail(s) = 1..(Len(s) - 1) /\ Len(Tail(s)) = Len(s) - 1
      /\ \A i \in 1..(Len(s) - 1) : Tail(s)[i] = s[i + 1]
  OBVIOUS
<1>2. Ordered(Tail(s))
  <2>1. ASSUME NEW i \in 1..(Len(s) - 1), NEW j \in 1..(Len(s) - 1), i < j
        PROVE  <<Tail(s)[i], Tail(s)[j]>> \in Before
    <3>1. i + 1 \in DOMAIN s /\ j + 1 \in DOMAIN s /\ i + 1 < j + 1
      BY <1>1, <2>1
    <3> QED  BY <1>1, <3>1 DEF Upward, Ordered
  <2> QED  BY <1>1, <2>1 DEF Ordered
<1>3. ASSUME NEW e \in Range(Tail(s)) PROVE <<Head(s), e>> \in Before
  <2>1. PICK i \in 1..(Len(s) - 1) : e = s[i + 1]
    BY <1>1 DEF Range
  <2>2. 1 \in DOMAIN s /\ i + 1 \in DOMAIN s /\ 1 < i + 1
    BY <1>1
  <2> QED  BY <1>1, <2>1, <2>2 DEF Upward, Ordered
<1>4. Range(s) = Range(Tail(s)) \cup {Head(s)}
  BY TailRange
<1>5. "hook" \notin Range(Tail(s))
  BY <1>3 DEF Before
<1>6. ASSUME Head(s) = "hook" PROVE Tail(s) # <<>> /\ Head(Tail(s)) = "hooks"
  <2>1. "hooks" \in Range(Tail(s))
    BY <1>4, <1>6 DEF Upward
  <2>2. PICK i \in 1..(Len(s) - 1) : Tail(s)[i] = "hooks"
    BY <1>1, <2>1 DEF Range
  <2>3. 1 \in 1..(Len(s) - 1) /\ Head(Tail(s)) = Tail(s)[1] /\ Tail(s) # <<>>
    <3>1. Len(s) - 1 >= 1
      BY <1>1, <2>2
    <3>2. Len(Tail(s)) # 0
      BY <1>1, <3>1
    <3>3. \A t \in Seq(Entries) : Len(t) # 0 => t # <<>> /\ Head(t) = t[1]
      OBVIOUS
    <3>4. 1 \in 1..(Len(s) - 1)
      BY <1>1, <3>1
    <3> QED  BY <1>1, <3>2, <3>3, <3>4
  <2>4. CASE i = 1
    BY <2>2, <2>3, <2>4
  <2>5. CASE i # 1
    <3>1. <<Tail(s)[1], "hooks">> \in Before
      <4>1. 1 \in DOMAIN Tail(s) /\ i \in DOMAIN Tail(s) /\ 1 < i
        BY <1>1, <2>3, <2>5
      <4> QED  BY <1>2, <2>2, <4>1 DEF Ordered
    <3>2. Tail(s)[1] = "hook"
      BY <3>1 DEF Before
    <3> QED  BY <1>1, <1>5, <2>3, <3>2 DEF Range
  <2> QED  BY <2>4, <2>5
<1> QED  BY <1>2, <1>3, <1>5, <1>6 DEF Upward

\* The entries of the paths are in the lists, in the order they are set.
LEMMA SettingRange ==
  ASSUME NEW w \in SUBSET Paths
  PROVE  /\ Setting(w) \in Seq(Entries) /\ Upward(Setting(w))
         /\ Range(Setting(w)) = Of(w)
<1> DEFINE s == <<"hook", "hooks", "conf">>
           P == {i \in DOMAIN s : PathOf(s[i]) \in w}
<1>1. s \in Seq(Entries) /\ DOMAIN s = {1, 2, 3} /\ s[1] = "hook" /\ s[2] = "hooks" /\ s[3] = "conf"
  BY DEF Entries, Paths
<1>2. \A i, j \in DOMAIN s : i < j => <<s[i], s[j]>> \in Before
  BY <1>1 DEF Before
<1>3. P \in SUBSET DOMAIN s /\ Setting(w) = Pick(s, P)
  BY DEF Setting, Only
<1> HIDE DEF s, P
<1>4. /\ Pick(s, P) \in Seq(Entries)
      /\ \A n \in DOMAIN Pick(s, P) : \E i \in P : Pick(s, P)[n] = s[i]
      /\ \A i \in P : \E n \in DOMAIN Pick(s, P) : Pick(s, P)[n] = s[i]
  BY <1>1, <1>3, PickHolds
<1>5. Range(Pick(s, P)) = {s[i] : i \in P}
  BY <1>1, <1>3, PickRange
<1>6. {s[i] : i \in P} = Of(w)
  BY <1>1 DEF P, Of, Entries, Paths
<1>7. Ordered(Pick(s, P))
  BY <1>1, <1>2, <1>3, PickKeepsOrder DEF Ordered
<1>8. "hook" \in Of(w) => "hooks" \in Of(w)
  BY DEF Of, PathOf, Entries, Paths
<1> QED  BY <1>3, <1>4, <1>5, <1>6, <1>7, <1>8 DEF Upward

\* What is to be cleared of some paths: their entries, each once.
LEMMA ClearingRange ==
  ASSUME NEW w \in SUBSET Paths
  PROVE  Clearing(w) \in Seq(Entries) /\ Range(Clearing(w)) = Of(w)
<1> DEFINE s == <<"hooks", "hook", "conf">>
           P == {i \in DOMAIN s : PathOf(s[i]) \in w}
<1>1. s \in Seq(Entries) /\ DOMAIN s = {1, 2, 3} /\ s[1] = "hooks" /\ s[2] = "hook" /\ s[3] = "conf"
  BY DEF Entries, Paths
<1>2. P \in SUBSET DOMAIN s /\ Clearing(w) = Pick(s, P)
  BY DEF Clearing, Only
<1> HIDE DEF s, P
<1>3. /\ Pick(s, P) \in Seq(Entries)
      /\ \A n \in DOMAIN Pick(s, P) : \E i \in P : Pick(s, P)[n] = s[i]
      /\ \A i \in P : \E n \in DOMAIN Pick(s, P) : Pick(s, P)[n] = s[i]
  BY <1>1, <1>2, PickHolds
<1>4. Range(Pick(s, P)) = {s[i] : i \in P}
  BY <1>1, <1>2, PickRange
<1>5. {s[i] : i \in P} = Of(w)
  BY <1>1 DEF P, Of, Entries, Paths
<1> QED  BY <1>2, <1>3, <1>4, <1>5

\* Giving up a path leaves the entries of the others.
LEMMA OtherPathsRange ==
  ASSUME NEW s \in Seq(Entries)
  PROVE  /\ OtherPaths(s) \in Seq(Entries)
         /\ Range(OtherPaths(s)) = {e \in Range(s) : PathOf(e) # PathOf(Head(s))}
         /\ Upward(s) => Upward(OtherPaths(s))
<1> DEFINE P == {i \in DOMAIN s : PathOf(s[i]) # PathOf(Head(s))}
<1>1. P \in SUBSET DOMAIN s /\ OtherPaths(s) = Pick(s, P)
  BY DEF OtherPaths
<1>2. /\ Pick(s, P) \in Seq(Entries)
      /\ \A n \in DOMAIN Pick(s, P) : \E i \in P : Pick(s, P)[n] = s[i]
      /\ \A i \in P : \E n \in DOMAIN Pick(s, P) : Pick(s, P)[n] = s[i]
  BY <1>1, PickHolds
<1>3. Range(Pick(s, P)) = {s[i] : i \in P}
  BY <1>1, PickRange
<1>4. {s[i] : i \in P} = {e \in Range(s) : PathOf(e) # PathOf(Head(s))}
  BY DEF Range
<1>5. ASSUME Upward(s) PROVE Ordered(Pick(s, P))
  <2> HIDE DEF P
  <2> QED  BY <1>1, <1>5, PickKeepsOrder DEF Upward, Ordered
<1>6. PathOf("hook") = PathOf("hooks")
  BY DEF PathOf
<1> QED  BY <1>1, <1>2, <1>3, <1>4, <1>5, <1>6 DEF Upward

-----------------------------------------------------------------------------
(* The inductive invariant.                                                 *)

Command ==
  [pc : {"idle", "apply", "start", "on", "load", "clear", "delete", "keep", "clean"},
   c : Conts \cup {"none"}, want : SUBSET Paths, got : SUBSET Paths, steps : Seq(Entries),
   after : {"idle", "delete", "keep", "clean"}, failed : BOOLEAN, loose : BOOLEAN,
   overtaken : BOOLEAN, todo : SUBSET Conts, sure : BOOLEAN]

LTyped ==
  /\ bits \in SUBSET Entries /\ lost \in SUBSET bits
  /\ man \in [Conts -> SUBSET Paths]
  /\ inst \in [Conts -> {"none", "stopped", "running"}]
  /\ proc \in [Procs -> Command]
  /\ commands \in Nat /\ troubles \in Nat

\* What a command has of its own: it is about a container, and what it sets
\* and has set is of the paths it wants.
Whole(r) ==
  /\ r.pc \notin {"idle", "clean"} \/ r.sure => r.c \in Conts
  /\ r.got \subseteq r.want
  /\ r.pc = "apply" => Upward(r.steps) /\ Range(r.steps) \subseteq Of(r.want)

\* A clean that is sure is right.
Sure(r) == r.sure => inst[r.c] = "none"

\* A command is at the path of e, or has it locked and will record it.
Doing(r, e) ==
  r.pc = "apply" /\ (PathOf(e) \in r.got \/ (r.steps # <<>> /\ PathOf(e) = PathOf(Head(r.steps))))
\* A command that will remove the manifest of c has passed by e.
Dooms(r, c, e) == /\ r.pc = "clear" /\ r.c = c /\ ~r.failed /\ ~r.overtaken
                  /\ e \notin Range(r.steps)
OnRecord(c, e) == PathOf(e) \in man[c] /\ \A p \in Procs : ~Dooms(proc[p], c, e)
KnownInv == \A e \in bits \ lost :
  (\E p \in Procs : Doing(proc[p], e)) \/ (\E c \in Conts : OnRecord(c, e))

\* What a command was told is locked is; and before a directory is locked,
\* its entry is.
Holds(r) ==
  r.pc \in {"apply", "start", "on"} /\ inst[r.c] # "none" /\ ~r.loose =>
    /\ Of(r.got) \subseteq bits
    /\ r.pc = "apply" /\ "hooks" \in Range(r.steps) /\ "hook" \notin Range(r.steps) => "hook" \in bits

LOwnInv == \A p \in Procs : Whole(proc[p]) /\ Sure(proc[p]) /\ Holds(proc[p])
LInv == LTyped /\ LOwnInv /\ KnownInv

\* Nothing is locked, recorded or under way at first.
LEMMA LocksInit == Init => LInv
<1> SUFFICES ASSUME Init PROVE LInv
  OBVIOUS
<1>1. NoProc \in Command
  <2>1. <<>> \in Seq(Entries)
    OBVIOUS
  <2> QED  BY <2>1 DEF NoProc, Command
<1>2. LTyped
  BY <1>1 DEF Init, LTyped
<1>3. LOwnInv
  BY DEF Init, LOwnInv, Whole, Sure, Holds, NoProc
<1>4. KnownInv
  BY DEF Init, KnownInv
<1> QED  BY <1>2, <1>3, <1>4 DEF LInv

-----------------------------------------------------------------------------
(* A step of one command, whose record becomes r, that clears no bit and    *)
(* writes no manifest.                                                      *)

Turns(p, r) == proc' = [proc EXCEPT ![p] = r]

\* No container comes to be but by a launch.
NobodyMakes == \A c \in Conts : inst[c] = "none" => inst'[c] = "none"
LWorld == /\ bits' \in SUBSET Entries /\ bits \subseteq bits' /\ lost' \in SUBSET bits'
         /\ inst' \in [Conts -> {"none", "stopped", "running"}] /\ NobodyMakes
         /\ commands' \in Nat /\ troubles' \in Nat

\* A step of one command keeps the invariant that leaves the manifests alone:
\* every new bit is its own, it lets go of none, and dooms none on record.
LEMMA LOneKeeps ==
  ASSUME LInv, NEW p \in Procs, NEW r \in Command, Turns(p, r), LWorld, man' = man,
         Whole(r), Sure(r), Holds(r)',
         \A e \in bits' \ lost' : e \in bits \ lost \/ Doing(r, e),
         \A e \in bits' \ lost' : Doing(proc[p], e) => Doing(r, e),
         \A c \in Conts, e \in bits' \ lost' :
           Dooms(r, c, e) => Dooms(proc[p], c, e) \/ PathOf(e) \notin man[c]
  PROVE  LInv'
<1>1. proc' \in [Procs -> Command] /\ \A q \in Procs : proc'[q] = IF q = p THEN r ELSE proc[q]
  BY DEF LInv, LTyped, Turns
<1>2. LTyped'
  BY <1>1 DEF LInv, LTyped, LWorld
<1>3. ASSUME NEW q \in Procs PROVE (Whole(proc[q]) /\ Sure(proc[q]) /\ Holds(proc[q]))'
  <2>1. PICK x \in Command : x = proc'[q] /\ Whole(x) /\ Sure(x) /\ Holds(x)'
    <3>1. CASE q = p
      BY <1>1, <3>1
    <3>2. CASE q # p
      <4>1. PICK x \in Command : x = proc[q] /\ Whole(x) /\ Sure(x) /\ Holds(x)
        BY DEF LInv, LTyped, LOwnInv
      <4>2. Holds(x)'
        BY <4>1 DEF Holds, Whole, LWorld, NobodyMakes
      <4> QED  BY <1>1, <3>2, <4>1, <4>2
    <3> QED  BY <3>1, <3>2
  <2>2. Sure(x)'
    BY <2>1 DEF Sure, Whole, LWorld, NobodyMakes
  <2> QED  BY <2>1, <2>2 DEF Whole, Sure, Holds
<1>4. LOwnInv'
  BY <1>3 DEF LOwnInv
<1>5. KnownInv'
  <2>1. ASSUME NEW e \in bits' \ lost'
        PROVE  (\E q \in Procs : Doing(proc'[q], e)) \/ (\E c \in Conts : OnRecord(c, e)')
    <3>1. CASE Doing(r, e)
      BY <1>1, <3>1
    <3>2. CASE e \in bits \ lost
      <4>1. CASE \E q \in Procs : Doing(proc[q], e)
        BY <1>1, <2>1, <4>1
      <4>2. CASE \E c \in Conts : OnRecord(c, e)
        <5>1. PICK c \in Conts : OnRecord(c, e)
          BY <4>2
        <5>2. \A q \in Procs : ~Dooms(proc'[q], c, e)
          BY <1>1, <2>1, <5>1 DEF OnRecord
        <5> QED  BY <5>1, <5>2 DEF OnRecord
      <4> QED  BY <3>2, <4>1, <4>2 DEF LInv, KnownInv
    <3> QED  BY <3>1, <3>2
  <2> QED  BY <2>1 DEF KnownInv
<1> QED  BY <1>2, <1>4, <1>5 DEF LInv

\* What the invariant says of one command.
LEMMA LOwn ==
  ASSUME LInv, NEW p \in Procs
  PROVE  proc[p] \in Command /\ Whole(proc[p]) /\ Sure(proc[p]) /\ Holds(proc[p])
  BY DEF LInv, LTyped, LOwnInv

\* The same for a command that sets no bits and does not come to clear them:
\* bits, manifests and what is known to be lost stay as they are.
LEMMA LQuietKeeps ==
  ASSUME LInv, NEW p \in Procs, NEW r \in Command, Turns(p, r),
         bits' = bits, man' = man, lost' = lost,
         inst' \in [Conts -> {"none", "stopped", "running"}], NobodyMakes,
         commands' \in Nat, troubles' \in Nat,
         Whole(r), Sure(r), Holds(r)', proc[p].pc # "apply", r.pc # "clear"
  PROVE  LInv'
<1>1. LWorld
  BY DEF LInv, LTyped, LWorld
<1>2. \A e \in bits' \ lost' : ~Doing(proc[p], e)
  BY DEF Doing
<1>3. \A c \in Conts, e \in bits' \ lost' : ~Dooms(r, c, e)
  BY DEF Dooms
<1> QED  BY <1>1, <1>2, <1>3, LOneKeeps

\* A command that is over.
LEMMA NoProcWhole ==
  /\ NoProc \in Command /\ Whole(NoProc) /\ Sure(NoProc) /\ Holds(NoProc) /\ Holds(NoProc)'
  /\ NoProc.pc = "idle"
<1>1. <<>> \in Seq(Entries)
  OBVIOUS
<1> QED  BY <1>1 DEF NoProc, Command, Whole, Sure, Holds

\* The counters of a step stay numbers.
LEMMA LCounters ==
  ASSUME LInv, commands' = commands \/ commands' = commands + 1, Fine \/ Trouble
  PROVE  commands' \in Nat /\ troubles' \in Nat
  BY DEF LInv, LTyped, Fine, Trouble

\* A command that ends and was not setting bits.
LEMMA IdleKeeps ==
  ASSUME LInv, NEW p \in Procs, Idle(p), proc[p].pc # "apply",
         bits' = bits, man' = man, lost' = lost,
         inst' \in [Conts -> {"none", "stopped", "running"}], NobodyMakes,
         commands' = commands, Fine \/ Trouble
  PROVE  LInv'
<1>1. Turns(p, NoProc)
  BY DEF Idle, Set, Turns
<1> QED  BY <1>1, NoProcWhole, LCounters, LQuietKeeps

-----------------------------------------------------------------------------
(* Beginnings.                                                              *)

\* A command that joins a running container has locked nothing.
LEMMA EnterKeeps ==
  ASSUME LInv, NEW p \in Procs, Enter(p) \/ Refused(p)
  PROVE  LInv'
<1>1. PICK c \in Conts, pc \in {"on", "load"} : Turns(p, [NoProc EXCEPT !.pc = pc, !.c = c])
  <2>1. CASE Enter(p)
    BY <2>1 DEF Enter, Set, Turns
  <2>2. CASE Refused(p)
    BY <2>2 DEF Refused, Set, Turns
  <2> QED  BY <2>1, <2>2
<1> DEFINE r == [NoProc EXCEPT !.pc = pc, !.c = c]
<1>2. /\ r \in Command /\ r.pc = pc /\ r.c = c /\ r.got = {} /\ r.want = {} /\ ~r.sure
  BY NoProcWhole DEF NoProc, Command
<1> HIDE DEF r
<1>3. Whole(r) /\ Sure(r)
  BY <1>2 DEF Whole, Sure
<1>4. Holds(r)'
  BY <1>2 DEF Holds, Of
<1>5. proc[p].pc = "idle" /\ UNCHANGED <<bits, man, inst, lost>> /\ commands' = commands + 1 /\ Fine
  BY DEF Enter, Refused, Begins
<1>6. NobodyMakes /\ inst' \in [Conts -> {"none", "stopped", "running"}]
  BY <1>5 DEF NobodyMakes, LInv, LTyped
<1> QED  BY <1>1, <1>2, <1>3, <1>4, <1>5, <1>6, LCounters, LQuietKeeps DEF r

\* A clean begins with the manifests that are there.
LEMMA CleanKeeps ==
  ASSUME LInv, NEW p \in Procs, Clean(p)
  PROVE  LInv'
<1>0. PICK r : r = [NoProc EXCEPT !.pc = "clean", !.todo = {c \in Conts : man[c] # {}}]
  OBVIOUS
<1>1. /\ r \in Command /\ r.pc = "clean" /\ r.got = {} /\ r.want = {} /\ ~r.sure
  BY <1>0, NoProcWhole DEF NoProc, Command
<1>2. Turns(p, r)
  BY <1>0 DEF Clean, Set, Turns
<1>3. Whole(r) /\ Sure(r) /\ Holds(r)'
  <2>1. Whole(r)
    BY <1>1 DEF Whole
  <2> QED  BY <1>1, <2>1 DEF Sure, Holds
<1>4. proc[p].pc = "idle" /\ UNCHANGED <<bits, man, inst, lost>> /\ commands' = commands + 1 /\ Fine
  BY DEF Clean, Begins
<1>5. NobodyMakes /\ inst' \in [Conts -> {"none", "stopped", "running"}]
  BY <1>4 DEF NobodyMakes, LInv, LTyped
<1> QED  BY <1>1, <1>2, <1>3, <1>4, <1>5, LCounters, LQuietKeeps

\* A launch: nobody is sure of the container any more, or safe in it.
LEMMA LaunchKeeps ==
  ASSUME LInv, NEW p \in Procs, Launch(p)
  PROVE  LInv'
<1>1. PICK c \in Conts, w \in SUBSET Paths :
       /\ inst' = [inst EXCEPT ![c] = "stopped"]
       /\ proc' = [q \in Procs |->
            IF q = p THEN [NoProc EXCEPT !.pc = "apply", !.c = c, !.want = w, !.steps = Setting(w)]
            ELSE [proc[q] EXCEPT !.loose = @ \/ proc[q].c = c, !.sure = @ /\ proc[q].c # c]]
  BY DEF Launch
<1> DEFINE r == [NoProc EXCEPT !.pc = "apply", !.c = c, !.want = w, !.steps = Setting(w)]
<1>2. /\ Setting(w) \in Seq(Entries) /\ Upward(Setting(w)) /\ Range(Setting(w)) = Of(w)
  BY SettingRange
<1>3. /\ r \in Command /\ r.pc = "apply" /\ r.c = c /\ r.got = {} /\ r.want = w /\ ~r.sure
      /\ r.steps = Setting(w)
  BY <1>2, NoProcWhole DEF NoProc, Command
<1>4. proc'[p] = r
  BY <1>1
<1> HIDE DEF r
<1>5. Whole(r) /\ Sure(r)'
  BY <1>2, <1>3 DEF Whole, Sure
<1>6. Holds(r)'
  <2>1. "hooks" \in Range(r.steps) => "hook" \in Range(r.steps)
    BY <1>2, <1>3 DEF Of, PathOf, Entries, Paths
  <2>2. Of(r.got) = {}
    BY <1>3 DEF Of
  <2> QED  BY <2>1, <2>2 DEF Holds
<1>7. /\ proc[p].pc = "idle" /\ UNCHANGED <<bits, man, lost>> /\ commands' = commands + 1 /\ Fine
  BY DEF Launch, Begins
<1>8. ASSUME NEW q \in Procs, q # p, NEW x, x = proc[q], NEW y, y = proc'[q]
      PROVE  /\ y \in Command /\ Whole(y) /\ Sure(y)' /\ Holds(y)'
             /\ \A e : Doing(y, e) <=> Doing(x, e)
             /\ \A k, e : Dooms(y, k, e) <=> Dooms(x, k, e)
  <2>1. x \in Command /\ Whole(x) /\ Sure(x) /\ Holds(x)
    BY <1>8, LOwn
  <2>2. y = [x EXCEPT !.loose = x.loose \/ x.c = c, !.sure = x.sure /\ x.c # c]
    BY <1>1, <1>8
  <2>3. /\ y \in Command /\ y.pc = x.pc /\ y.c = x.c /\ y.want = x.want /\ y.got = x.got
        /\ y.steps = x.steps /\ y.failed = x.failed /\ y.overtaken = x.overtaken
        /\ y.sure => x.sure /\ x.c # c
        /\ ~y.loose => ~x.loose /\ x.c # c
    BY <2>1, <2>2 DEF Command
  <2>4. \A k \in Conts : k # c => inst'[k] = inst[k]
    BY <1>1 DEF LInv, LTyped
  <2>5. Whole(y)
    BY <2>1, <2>3 DEF Whole
  <2>6. Sure(y)'
    BY <2>1, <2>3, <2>4 DEF Sure, Whole
  <2>7. Holds(y)'
    <3>1. x.pc \in {"apply", "start", "on"} => x.c \in Conts
      BY <2>1 DEF Whole
    <3> QED  BY <1>7, <2>1, <2>3, <2>4, <3>1 DEF Holds
  <2> QED  BY <2>3, <2>5, <2>6, <2>7 DEF Doing, Dooms
<1>9. LTyped'
  <2>1. proc' \in [Procs -> Command]
    BY <1>1, <1>3, <1>4, <1>8
  <2>2. inst' \in [Conts -> {"none", "stopped", "running"}]
    BY <1>1 DEF LInv, LTyped
  <2> QED  BY <1>7, <2>1, <2>2, LCounters DEF LInv, LTyped
<1>10. LOwnInv'
  <2>1. ASSUME NEW q \in Procs PROVE (Whole(proc[q]) /\ Sure(proc[q]) /\ Holds(proc[q]))'
    <3>1. PICK y : y = proc'[q]
      OBVIOUS
    <3>2. Whole(y) /\ Sure(y)' /\ Holds(y)'
      BY <1>4, <1>5, <1>6, <1>8, <3>1
    <3> QED  BY <3>1, <3>2 DEF Whole, Sure, Holds
  <2> QED  BY <2>1 DEF LOwnInv
<1>11. KnownInv'
  <2>1. ASSUME NEW e \in bits \ lost
        PROVE  (\E q \in Procs : Doing(proc'[q], e)) \/ (\E k \in Conts : OnRecord(k, e)')
    <3>1. CASE \E q \in Procs : Doing(proc[q], e)
      <4>1. PICK q \in Procs : Doing(proc[q], e)
        BY <3>1
      <4>2. q # p
        BY <1>7, <4>1 DEF Doing
      <4> QED  BY <1>8, <4>1, <4>2
    <3>2. CASE \E k \in Conts : OnRecord(k, e)
      <4>1. PICK k \in Conts : OnRecord(k, e)
        BY <3>2
      <4>2. \A q \in Procs : ~Dooms(proc'[q], k, e)
        <5>1. ~Dooms(proc'[p], k, e)
          BY <1>3, <1>4 DEF Dooms
        <5> QED  BY <1>8, <4>1, <5>1 DEF OnRecord
      <4> QED  BY <1>7, <4>1, <4>2 DEF OnRecord
    <3> QED  BY <3>1, <3>2 DEF LInv, KnownInv
  <2> QED  BY <1>7, <2>1 DEF KnownInv
<1> QED  BY <1>9, <1>10, <1>11 DEF LInv

-----------------------------------------------------------------------------
(* ApplyImmutable.                                                          *)

\* What a command knows of its list before it sets an entry or gives up.
LEMMA SetEntryKeeps ==
  ASSUME LInv, NEW p \in Procs, SetEntry(p)
  PROVE  LInv'
<1>1. PICK x : x = proc[p]
  OBVIOUS
<1>2. x \in Command /\ Whole(x) /\ Sure(x) /\ Holds(x)
  BY <1>1, LOwn
<1> DEFINE s == x.steps
           e == Head(s)
<1>3. /\ x.pc = "apply" /\ s # <<>> /\ bits' = bits \cup {e} /\ UNCHANGED <<man, inst, lost, commands, troubles>>
      /\ proc' = [proc EXCEPT ![p].steps = Tail(@), ![p].got = @ \cup ({e} \cap Paths)]
  BY <1>1 DEF SetEntry, At, Fine
<1>4. s \in Seq(Entries) /\ Upward(s) /\ Range(s) \subseteq Of(x.want)
  BY <1>2, <1>3 DEF Command, Whole
<1>5. /\ Tail(s) \in Seq(Entries) /\ e \in Entries /\ Range(s) = Range(Tail(s)) \cup {e}
      /\ Upward(Tail(s))
      /\ \A f \in Range(Tail(s)) : <<e, f>> \in Before
      /\ e = "hook" => Tail(s) # <<>> /\ Head(Tail(s)) = "hooks"
  BY <1>3, <1>4, TailRange, TailUpward
<1> DEFINE r == [x EXCEPT !.steps = Tail(s), !.got = @ \cup ({e} \cap Paths)]
<1>6. Turns(p, r)
  BY <1>1, <1>3 DEF Turns, LInv, LTyped
<1>7. /\ r \in Command /\ r.pc = "apply" /\ r.c = x.c /\ r.want = x.want /\ r.loose = x.loose
      /\ r.sure = x.sure /\ r.steps = Tail(s) /\ r.got = x.got \cup ({e} \cap Paths)
  BY <1>2, <1>3, <1>5 DEF Command
<1>8. PathOf(e) \in x.want /\ (e \in Paths => e \in x.want)
  <2>1. e \in Of(x.want)
    BY <1>4, <1>5
  <2> QED  BY <2>1 DEF Of, PathOf, Paths
<1> HIDE DEF r, s, e
<1>9. Whole(r) /\ Sure(r)
  BY <1>2, <1>3, <1>4, <1>5, <1>7, <1>8 DEF Whole, Sure
<1>10. Holds(r)'
  <2> SUFFICES ASSUME inst[x.c] # "none", ~x.loose
               PROVE  /\ Of(r.got) \subseteq bits'
                      /\ "hooks" \in Range(r.steps) /\ "hook" \notin Range(r.steps) => "hook" \in bits'
    BY <1>3, <1>7 DEF Holds
  <2>1. Of(x.got) \subseteq bits /\ ("hooks" \in Range(s) /\ "hook" \notin Range(s) => "hook" \in bits)
    BY <1>2, <1>3 DEF Holds, s
  <2>2. "hooks" \in Range(r.steps) /\ "hook" \notin Range(r.steps) => "hook" \in bits'
    BY <1>3, <1>5, <1>7, <2>1
  <2>3. CASE e = "hook"
    <3>1. r.got = x.got
      BY <1>7, <2>3 DEF Paths
    <3> QED  BY <1>3, <2>1, <2>2, <3>1
  <2>4. CASE e = "conf"
    <3>1. Of(r.got) \subseteq Of(x.got) \cup {"conf"}
      BY <1>7, <2>4 DEF Of, PathOf, Entries, Paths
    <3> QED  BY <1>3, <2>1, <2>2, <2>4, <3>1
  <2>5. CASE e = "hooks"
    <3>1. Of(r.got) \subseteq Of(x.got) \cup {"hook", "hooks"}
      BY <1>7, <2>5 DEF Of, PathOf, Entries, Paths
    <3>2. "hook" \notin Range(s)
      BY <1>5, <2>5 DEF Before
    <3>3. "hook" \in bits
      BY <1>5, <2>1, <2>5, <3>2
    <3> QED  BY <1>3, <2>1, <2>2, <2>5, <3>1, <3>3
  <2> QED  BY <1>5, <2>3, <2>4, <2>5 DEF Entries, Paths
<1>11. ASSUME NEW f \in bits', Doing(x, f) \/ f = e PROVE Doing(r, f)
  <2>0. f \in Entries /\ (PathOf(f) \in x.got \/ PathOf(f) = PathOf(e))
    BY <1>3, <1>5, <1>11 DEF Doing, s, e, LInv, LTyped
  <2>1. CASE PathOf(f) \in x.got
    BY <1>7, <2>1 DEF Doing
  <2>2. CASE PathOf(f) = PathOf(e) /\ e = "hook"
    <3>1. PathOf("hook") = PathOf("hooks")
      BY DEF PathOf
    <3> QED  BY <1>5, <1>7, <2>2, <3>1 DEF Doing
  <2>3. CASE PathOf(f) = PathOf(e) /\ e # "hook"
    <3>1. PathOf(e) = e /\ e \in Paths
      BY <1>5, <2>3 DEF PathOf, Entries, Paths
    <3> QED  BY <1>7, <2>3, <3>1 DEF Doing
  <2> QED  BY <2>0, <2>1, <2>2, <2>3
<1>12. \A c, f : ~Dooms(r, c, f)
  BY <1>7 DEF Dooms
<1>13. LWorld
  BY <1>3, <1>5 DEF LWorld, LInv, LTyped, NobodyMakes
<1>14. PICK y \in Command : y = r
  BY <1>7
<1> QED
  BY <1>1, <1>3, <1>6, <1>9, <1>10, <1>11, <1>12, <1>13, <1>14, LOneKeeps DEF LInv, LTyped

\* The path that is given up leaves bits nobody knows of; the others follow.
LEMMA SetFailsKeeps ==
  ASSUME LInv, NEW p \in Procs, SetFails(p)
  PROVE  LInv'
<1>1. PICK x : x = proc[p]
  OBVIOUS
<1>2. x \in Command /\ Whole(x) /\ Sure(x) /\ Holds(x)
  BY <1>1, LOwn
<1>3. /\ x.pc = "apply" /\ x.steps # <<>> /\ UNCHANGED <<bits, man, inst, commands>> /\ Trouble
      /\ lost' = lost \cup (bits \cap Of({PathOf(Head(x.steps))}))
      /\ proc' = [proc EXCEPT ![p].steps = OtherPaths(x.steps)]
  BY <1>1 DEF SetFails, At, Unfinished, SkipPath
<1>4. x.steps \in Seq(Entries) /\ Upward(x.steps) /\ Range(x.steps) \subseteq Of(x.want)
  BY <1>2, <1>3 DEF Command, Whole
<1>5. /\ OtherPaths(x.steps) \in Seq(Entries) /\ Upward(OtherPaths(x.steps))
      /\ Range(OtherPaths(x.steps)) = {e \in Range(x.steps) : PathOf(e) # PathOf(Head(x.steps))}
  BY <1>4, OtherPathsRange
<1> DEFINE r == [x EXCEPT !.steps = OtherPaths(x.steps)]
<1>6. Turns(p, r)
  BY <1>1, <1>3 DEF Turns, LInv, LTyped
<1>7. /\ r \in Command /\ r.pc = "apply" /\ r.c = x.c /\ r.want = x.want /\ r.loose = x.loose
      /\ r.sure = x.sure /\ r.steps = OtherPaths(x.steps) /\ r.got = x.got
  BY <1>2, <1>3, <1>5 DEF Command
<1> HIDE DEF r
<1>8. Whole(r) /\ Sure(r)
  BY <1>2, <1>3, <1>4, <1>5, <1>7 DEF Whole, Sure
<1>9. Holds(r)'
  <2>1. PathOf("hook") = PathOf("hooks")
    BY DEF PathOf
  <2>2. "hooks" \in Range(r.steps) /\ "hook" \notin Range(r.steps) =>
          "hooks" \in Range(x.steps) /\ "hook" \notin Range(x.steps)
    BY <1>5, <1>7, <2>1
  <2> QED  BY <1>2, <1>3, <1>7, <2>2 DEF Holds
<1>10. ASSUME NEW e \in bits' \ lost', Doing(x, e) PROVE Doing(r, e)
  <2>1. e \in Entries /\ e \in bits
    BY <1>3 DEF LInv, LTyped
  <2>2. PathOf(e) # PathOf(Head(x.steps))
    BY <1>3, <2>1 DEF Of
  <2> QED  BY <1>7, <1>10, <2>2 DEF Doing
<1>11. \A c, e : ~Dooms(r, c, e)
  BY <1>7 DEF Dooms
<1>12. LWorld
  BY <1>3, LCounters DEF LWorld, LInv, LTyped, NobodyMakes
<1>13. \A e \in bits' \ lost' : e \in bits \ lost
  BY <1>3
<1> QED
  BY <1>1, <1>3, <1>6, <1>7, <1>8, <1>9, <1>10, <1>11, <1>12, <1>13, LOneKeeps

\* Nothing was locked, or the record could not be written.
LEMMA UnsavedKeeps ==
  ASSUME LInv, NEW p \in Procs, NothingToSave(p) \/ SaveFails(p)
  PROVE  LInv'
<1>1. PICK x : x = proc[p]
  OBVIOUS
<1>2. x \in Command /\ Whole(x) /\ Sure(x) /\ Holds(x)
  BY <1>1, LOwn
<1>3. /\ x.pc = "apply" /\ x.steps = <<>> /\ UNCHANGED <<bits, man, inst, commands>> /\ (Fine \/ Trouble)
      /\ Goto(p, "start") /\ lost' \in SUBSET bits /\ lost \subseteq lost'
      /\ x.got = {} \/ bits \cap Of(x.got) \subseteq lost'
  BY <1>1 DEF NothingToSave, SaveFails, At, LInv, LTyped
<1> DEFINE r == [x EXCEPT !.pc = "start"]
<1>4. Turns(p, r)
  BY <1>1, <1>3 DEF Turns, Goto, LInv, LTyped
<1>5. /\ r \in Command /\ r.pc = "start" /\ r.c = x.c /\ r.want = x.want /\ r.loose = x.loose
      /\ r.sure = x.sure /\ r.got = x.got
  BY <1>2, <1>3 DEF Command
<1> HIDE DEF r
<1>6. Whole(r) /\ Sure(r)
  BY <1>2, <1>3, <1>5 DEF Whole, Sure
<1>7. Holds(r)'
  BY <1>2, <1>3, <1>5 DEF Holds
<1>8. \A e \in bits' \ lost' : ~Doing(x, e)
  BY <1>3 DEF Doing, Of, LInv, LTyped
<1>9. \A c, e : ~Dooms(r, c, e)
  BY <1>5 DEF Dooms
<1>10. LWorld
  BY <1>3, LCounters DEF LWorld, LInv, LTyped, NobodyMakes
<1>11. \A e \in bits' \ lost' : e \in bits \ lost
  BY <1>3
<1> QED
  BY <1>1, <1>3, <1>4, <1>5, <1>6, <1>7, <1>8, <1>9, <1>10, <1>11, LOneKeeps

\* The manifest becomes m: what only the old one had is lost, and nobody who
\* clears it will remove it for done.
LEMMA SavedKeeps ==
  ASSUME LInv, NEW p \in Procs, NEW x, x = proc[p], x.pc = "apply",
         NEW m \in SUBSET Paths, NEW got \in SUBSET Paths, got \subseteq x.got, Saved(p, got),
         man' = [man EXCEPT ![x.c] = m], bits' = bits, inst' = inst,
         commands' = commands, Fine \/ Trouble,
         lost' \in SUBSET bits, lost \subseteq lost',
         bits \cap Of(man[x.c] \ m) \subseteq lost',
         x.got \subseteq m, x.steps # <<>> => Unfinished(p) \subseteq lost'
  PROVE  LInv'
<1>1. x \in Command /\ Whole(x) /\ Sure(x) /\ Holds(x) /\ x.c \in Conts
  BY LOwn DEF Whole
<1>2. ASSUME NEW q \in Procs, NEW y, y = proc[q], NEW z, z = proc'[q]
      PROVE  /\ z \in Command /\ Whole(z) /\ Sure(z)' /\ Holds(z)'
             /\ q # p => \A e : Doing(y, e) <=> Doing(z, e)
             /\ \A k, e : ~Dooms(z, x.c, e) /\ (Dooms(z, k, e) => Dooms(y, k, e))
  <2>1. y \in Command /\ Whole(y) /\ Sure(y) /\ Holds(y)
    BY <1>2, LOwn
  <2>2. CASE q = p
    <3>1. z = [x EXCEPT !.pc = "start", !.got = got] /\ y = x
      BY <1>2, <2>2 DEF Saved
    <3>2. /\ z \in Command /\ z.pc = "start" /\ z.got = got /\ z.c = x.c /\ z.want = x.want
          /\ z.loose = x.loose /\ z.sure = x.sure
      BY <1>1, <3>1 DEF Command
    <3>3. Whole(z) /\ Sure(z)'
      BY <1>1, <3>2 DEF Whole, Sure
    <3>4. Holds(z)'
      <4>1. Of(got) \subseteq Of(x.got)
        BY DEF Of
      <4> QED  BY <1>1, <3>2, <4>1 DEF Holds
    <3> QED  BY <2>2, <3>2, <3>3, <3>4 DEF Dooms
  <2>3. CASE q # p
    <3>1. z = [y EXCEPT !.overtaken = y.overtaken \/ (y.pc = "clear" /\ y.c = x.c)]
      BY <1>2, <2>3 DEF Saved
    <3>2. /\ z \in Command /\ z.pc = y.pc /\ z.got = y.got /\ z.c = y.c /\ z.want = y.want
          /\ z.loose = y.loose /\ z.sure = y.sure /\ z.steps = y.steps /\ z.failed = y.failed
          /\ z.overtaken = (y.overtaken \/ (y.pc = "clear" /\ y.c = x.c))
      BY <2>1, <3>1 DEF Command
    <3>3. Whole(z) /\ Sure(z)'
      BY <2>1, <3>2 DEF Whole, Sure
    <3>4. Holds(z)'
      BY <2>1, <3>2 DEF Holds
    <3> QED  BY <3>2, <3>3, <3>4 DEF Dooms, Doing
  <2> QED  BY <2>2, <2>3
<1>3. LTyped'
  <2>1. proc' \in [Procs -> Command]
    <3>1. proc' = [q \in Procs |-> proc'[q]]
      BY DEF Saved
    <3> QED  BY <1>2, <3>1
  <2> QED  BY <1>1, <2>1, LCounters DEF LInv, LTyped
<1>4. LOwnInv'
  <2>1. ASSUME NEW q \in Procs PROVE (Whole(proc[q]) /\ Sure(proc[q]) /\ Holds(proc[q]))'
    <3>1. PICK z : z = proc'[q]
      OBVIOUS
    <3>2. Whole(z) /\ Sure(z)' /\ Holds(z)'
      BY <1>2, <3>1
    <3> QED  BY <3>1, <3>2 DEF Whole, Sure, Holds
  <2> QED  BY <2>1 DEF LOwnInv
<1>5. man'[x.c] = m /\ \A k \in Conts : k # x.c => man'[k] = man[k]
  BY <1>1 DEF LInv, LTyped
<1>6. KnownInv'
  <2>1. ASSUME NEW e \in bits \ lost'
        PROVE  (\E q \in Procs : Doing(proc'[q], e)) \/ (\E k \in Conts : OnRecord(k, e)')
    <3>0. e \in Entries /\ e \in bits \ lost /\ PathOf(e) \in Paths
      BY DEF LInv, LTyped, PathOf, Entries, Paths
    <3>1. CASE \E q \in Procs \ {p} : Doing(proc[q], e)
      BY <1>2, <3>1
    <3>2. CASE Doing(x, e)
      <4>1. x.steps # <<>> => PathOf(e) # PathOf(Head(x.steps))
        BY <2>1, <3>0 DEF Unfinished, Of
      <4>2. PathOf(e) \in m
        BY <3>2, <4>1 DEF Doing
      <4>3. \A q \in Procs : ~Dooms(proc'[q], x.c, e)
        BY <1>2
      <4>4. OnRecord(x.c, e)'
        BY <1>5, <4>2, <4>3 DEF OnRecord
      <4> QED  BY <1>1, <4>4
    <3>3. CASE \E k \in Conts : OnRecord(k, e)
      <4>1. PICK k \in Conts : OnRecord(k, e)
        BY <3>3
      <4>2. PathOf(e) \in man'[k]
        BY <1>5, <3>0, <4>1, <2>1 DEF OnRecord, Of
      <4>3. \A q \in Procs : ~Dooms(proc'[q], k, e)
        BY <1>2, <4>1 DEF OnRecord
      <4> QED  BY <4>1, <4>2, <4>3 DEF OnRecord
    <3> QED  BY <3>0, <3>1, <3>2, <3>3 DEF LInv, KnownInv
  <2> QED  BY <2>1 DEF KnownInv
<1> QED  BY <1>3, <1>4, <1>6 DEF LInv

\* The manifest that a command writes names every path it set a bit of; what
\* only the manifest before it named is lost.
LEMMA SaveKeeps ==
  ASSUME LInv, NEW p \in Procs, Save(p) \/ SetUnsupported(p)
  PROVE  LInv'
<1>1. PICK x : x = proc[p]
  OBVIOUS
<1>2. x \in Command /\ Whole(x)
  BY <1>1, LOwn
<1>3. CASE Save(p)
  <2>1. /\ x.pc = "apply" /\ x.steps = <<>> /\ man' = [man EXCEPT ![x.c] = x.got] /\ Saved(p, x.got)
        /\ lost' = lost \cup (bits \cap Of(man[x.c] \ x.got))
        /\ UNCHANGED <<bits, inst, commands>> /\ Fine
    BY <1>1, <1>3 DEF Save, At
  <2>2. lost' \in SUBSET bits /\ lost \subseteq lost' /\ bits \cap Of(man[x.c] \ x.got) \subseteq lost'
    BY <2>1 DEF LInv, LTyped
  <2>3. x.got \in SUBSET Paths
    BY <1>2 DEF Command
  <2> QED  BY <1>1, <2>1, <2>2, <2>3, SavedKeeps
<1>4. CASE SetUnsupported(p)
  <2>1. PICK m : m = IF x.got = {} THEN man[x.c] ELSE x.got
    OBVIOUS
  <2>2. Degraded(p, m)
    BY <1>1, <1>4, <2>1 DEF SetUnsupported
  <2>3. /\ x.pc = "apply" /\ x.steps # <<>> /\ man' = [man EXCEPT ![x.c] = m] /\ Saved(p, {})
        /\ lost' = lost \cup Unfinished(p)
                    \cup (IF m = man[x.c] THEN {} ELSE bits \cap Of(man[x.c] \ m))
        /\ UNCHANGED <<bits, inst, commands>> /\ Trouble
    BY <1>1, <2>2 DEF Degraded, At
  <2>4. x.c \in Conts /\ m \in SUBSET Paths /\ x.got \subseteq m
    BY <1>2, <2>1, <2>3 DEF Whole, Command, LInv, LTyped
  <2>5. /\ lost' \in SUBSET bits /\ lost \subseteq lost' /\ Unfinished(p) \subseteq lost'
        /\ bits \cap Of(man[x.c] \ m) \subseteq lost'
    BY <2>3 DEF LInv, LTyped, Unfinished, Of
  <2> QED  BY <1>1, <2>3, <2>4, <2>5, SavedKeeps
<1> QED  BY <1>3, <1>4

-----------------------------------------------------------------------------
(* The start, and the end.                                                  *)

\* The start and the end of a container set and clear nothing.
LEMMA StartKeeps ==
  ASSUME LInv, NEW p \in Procs, Start(p) \/ StartFailsRun(p) \/ End(p)
  PROVE  LInv'
<1>1. PICK x : x = proc[p]
  OBVIOUS
<1>2. x \in Command /\ Whole(x) /\ Sure(x) /\ Holds(x)
  BY <1>1, LOwn
<1>3. /\ x.pc \in {"start", "on"} /\ UNCHANGED <<bits, man, lost, commands>> /\ (Fine \/ Trouble)
  BY <1>1 DEF Start, StartFailsRun, End, At
<1>4. x.c \in Conts
  BY <1>2, <1>3 DEF Whole
<1>5. /\ inst' \in [Conts -> {"none", "stopped", "running"}] /\ NobodyMakes
      /\ inst'[x.c] # "none" => inst[x.c] # "none"
  BY <1>1, <1>4 DEF Start, StartFailsRun, End, LInv, LTyped, NobodyMakes
<1>6. PICK pc \in {"on", "load"}, after \in {"idle", "delete", "keep", "clean"} :
        Turns(p, [x EXCEPT !.pc = pc, !.after = after])
  <2>1. CASE Start(p)
    <3>1. Turns(p, [x EXCEPT !.pc = "on", !.after = x.after])
      BY <1>1, <1>2, <2>1 DEF Start, Goto, Turns, Command, LInv, LTyped
    <3>2. x.after \in {"idle", "delete", "keep", "clean"}
      BY <1>2 DEF Command
    <3> QED  BY <3>1, <3>2
  <2>2. CASE StartFailsRun(p)
    BY <1>1, <1>2, <2>2 DEF StartFailsRun, Turns, LInv, LTyped
  <2>3. CASE End(p)
    BY <1>1, <1>2, <2>3 DEF End, Turns, LInv, LTyped
  <2> QED  BY <2>1, <2>2, <2>3
<1> DEFINE r == [x EXCEPT !.pc = pc, !.after = after]
<1>7. /\ r \in Command /\ r.pc = pc /\ r.c = x.c /\ r.want = x.want /\ r.loose = x.loose
      /\ r.sure = x.sure /\ r.got = x.got
  BY <1>2 DEF Command
<1> HIDE DEF r
<1>8. Whole(r) /\ Sure(r)
  BY <1>2, <1>4, <1>7 DEF Whole, Sure
<1>9. Holds(r)'
  BY <1>2, <1>3, <1>5, <1>7 DEF Holds
<1>10. r.pc # "clear"
  BY <1>7
<1> QED
  BY <1>1, <1>3, <1>5, <1>6, <1>7, <1>8, <1>9, <1>10, LCounters, LQuietKeeps DEF r

\* Steps after which the command is over.
LEMMA OverKeeps ==
  ASSUME LInv, NEW p \in Procs, StartFailsShell(p) \/ Delete(p) \/ Keep(p) \/ CleanEnds(p)
  PROVE  LInv'
<1>1. /\ proc[p].pc \in {"start", "delete", "keep", "clean"} /\ Idle(p)
      /\ UNCHANGED <<bits, man, lost, commands>> /\ (Fine \/ Trouble)
  BY DEF StartFailsShell, Delete, Keep, CleanEnds, At
<1>2. proc[p].pc \in {"delete", "keep"} => proc[p].c \in Conts
  BY LOwn DEF Whole
<1>3. inst' \in [Conts -> {"none", "stopped", "running"}] /\ NobodyMakes
  BY <1>2 DEF StartFailsShell, Delete, Keep, CleanEnds, At, LInv, LTyped, NobodyMakes
<1> QED  BY <1>1, <1>3, IdleKeeps

\* A clean turns to one container, and is sure at most that it was gone then.
LEMMA CleanStepKeeps ==
  ASSUME LInv, NEW p \in Procs, NEW c \in Conts,
         CleanSkips(p, c) \/ CleanUnlocks(p, c) \/ CleanUnsure(p, c)
  PROVE  LInv'
<1>1. PICK x : x = proc[p]
  OBVIOUS
<1>2. x \in Command /\ Whole(x) /\ Sure(x) /\ Holds(x)
  BY <1>1, LOwn
<1>3. x.pc = "clean" /\ UNCHANGED <<bits, man, inst, lost, commands>> /\ (Fine \/ Trouble)
  BY <1>1 DEF CleanSkips, CleanUnlocks, CleanUnsure, CleanNext, At
<1>4. NobodyMakes /\ inst' \in [Conts -> {"none", "stopped", "running"}]
  BY <1>3 DEF NobodyMakes, LInv, LTyped
<1>5. CASE CleanSkips(p, c)
  <2> DEFINE r == [x EXCEPT !.todo = @ \ {c}]
  <2>1. Turns(p, r)
    BY <1>1, <1>5 DEF CleanSkips, Turns, LInv, LTyped
  <2>2. /\ r \in Command /\ r.pc = x.pc /\ r.c = x.c /\ r.want = x.want /\ r.loose = x.loose
        /\ r.sure = x.sure /\ r.got = x.got
    BY <1>2 DEF Command
  <2> HIDE DEF r
  <2>3. Whole(r) /\ Sure(r)
    BY <1>2, <1>3, <2>2 DEF Whole, Sure
  <2>4. Holds(r)' /\ x.pc # "apply" /\ r.pc # "clear"
    BY <1>3, <2>2 DEF Holds
  <2> QED  BY <1>1, <1>3, <1>4, <2>1, <2>2, <2>3, <2>4, LCounters, LQuietKeeps
<1>6. CASE CleanUnlocks(p, c) \/ CleanUnsure(p, c)
  <2>1. PICK sure \in BOOLEAN : Unlocks(p, c, sure) /\ (sure => inst[c] = "none")
    BY <1>6 DEF CleanUnlocks, CleanUnsure
  <2> DEFINE r == [x EXCEPT !.todo = @ \ {c}, !.pc = "load", !.c = c,
                            !.after = "clean", !.sure = sure]
  <2>2. Turns(p, r)
    BY <1>1, <2>1 DEF Unlocks, Turns, LInv, LTyped
  <2>3. /\ r \in Command /\ r.pc = "load" /\ r.c = c /\ r.want = x.want
        /\ r.sure = sure /\ r.got = x.got
    BY <1>2 DEF Command
  <2> HIDE DEF r
  <2>4. Whole(r) /\ Sure(r)
    BY <1>2, <2>1, <2>3 DEF Whole, Sure
  <2>5. Holds(r)' /\ x.pc # "apply" /\ r.pc # "clear"
    BY <1>3, <2>3 DEF Holds
  <2> QED  BY <1>1, <1>3, <1>4, <2>2, <2>3, <2>4, <2>5, LCounters, LQuietKeeps
<1> QED  BY <1>5, <1>6

\* A command killed while it sets bits loses those no manifest has.
LEMMA KillKeeps ==
  ASSUME LInv, NEW p \in Procs, Kill(p)
  PROVE  LInv'
<1>1. PICK x : x = proc[p]
  OBVIOUS
<1>2. x \in Command /\ Whole(x)
  BY <1>1, LOwn
<1>3. /\ Turns(p, NoProc) /\ Trouble /\ UNCHANGED <<bits, man, inst, commands>>
      /\ lost' = IF x.pc = "apply" THEN lost \cup (bits \cap Of(x.want)) ELSE lost
  BY <1>1 DEF Kill, Idle, Set, Turns
<1>4. ASSUME NEW e \in bits' \ lost' PROVE ~Doing(x, e) /\ e \in bits \ lost
  <2>1. e \in Entries /\ e \in bits
    BY <1>3 DEF LInv, LTyped
  <2>2. ASSUME x.pc = "apply", x.steps # <<>> PROVE PathOf(Head(x.steps)) \in x.want
    <3>1. x.steps \in Seq(Entries) /\ Range(x.steps) \subseteq Of(x.want)
      BY <1>2, <2>2 DEF Command, Whole
    <3>2. Head(x.steps) \in Of(x.want)
      BY <2>2, <3>1, TailRange
    <3> QED  BY <3>2 DEF Of
  <2> QED  BY <1>2, <1>3, <2>1, <2>2 DEF Doing, Of, Whole
<1>5. \A c, e : ~Dooms(NoProc, c, e)
  BY NoProcWhole DEF Dooms
<1>6. LWorld
  BY <1>3, LCounters DEF LWorld, LInv, LTyped, NobodyMakes
<1> QED  BY <1>1, <1>3, <1>4, <1>5, <1>6, NoProcWhole, LOneKeeps

-----------------------------------------------------------------------------
(* RemoveImmutable.                                                         *)

\* What is to be cleared comes from the manifest.
LEMMA LoadKeeps ==
  ASSUME LInv, NEW p \in Procs, Load(p)
  PROVE  LInv'
<1>1. PICK x : x = proc[p]
  OBVIOUS
<1>2. x \in Command /\ Whole(x) /\ Sure(x) /\ Holds(x)
  BY <1>1, LOwn
<1>3. PICK steps : steps = Clearing(man[x.c])
  OBVIOUS
<1>4. /\ x.pc = "load" /\ UNCHANGED <<bits, man, inst, lost, commands>> /\ Fine /\ x.c \in Conts
      /\ proc' = [proc EXCEPT ![p].pc = "clear", ![p].steps = steps,
                              ![p].failed = FALSE, ![p].overtaken = FALSE]
  BY <1>1, <1>2, <1>3 DEF Load, At, Whole
<1>5. steps \in Seq(Entries) /\ Range(steps) = Of(man[x.c])
  BY <1>3, <1>4, ClearingRange DEF LInv, LTyped
<1> DEFINE r == [x EXCEPT !.pc = "clear", !.steps = steps, !.failed = FALSE, !.overtaken = FALSE]
<1>6. Turns(p, r)
  BY <1>1, <1>4 DEF Turns, LInv, LTyped
<1>7. /\ r \in Command /\ r.pc = "clear" /\ r.c = x.c /\ r.want = x.want /\ r.sure = x.sure
      /\ r.got = x.got /\ r.steps = steps
  BY <1>2, <1>5 DEF Command
<1> HIDE DEF r
<1>8. Whole(r) /\ Sure(r) /\ Holds(r)'
  <2>1. Whole(r)
    BY <1>2, <1>4, <1>7 DEF Whole
  <2> QED  BY <1>2, <1>7, <2>1 DEF Sure, Holds
<1>9. ASSUME NEW c \in Conts, NEW e \in bits' \ lost', Dooms(r, c, e)
      PROVE  PathOf(e) \notin man[c]
  <2>1. e \in Entries
    BY <1>4 DEF LInv, LTyped
  <2> QED  BY <1>5, <1>7, <1>9, <2>1 DEF Dooms, Of
<1>10. LWorld
  BY <1>4, LCounters DEF LWorld, LInv, LTyped, NobodyMakes
<1>11. \A e \in bits' \ lost' : e \in bits \ lost /\ ~Doing(x, e)
  BY <1>4 DEF Doing
<1> QED  BY <1>1, <1>4, <1>6, <1>7, <1>8, <1>9, <1>10, <1>11, LOneKeeps

\* A bit that could not be cleared keeps its path in the manifest.
LEMMA ClearFailsKeeps ==
  ASSUME LInv, NEW p \in Procs, ClearFails(p)
  PROVE  LInv'
<1>1. PICK x : x = proc[p]
  OBVIOUS
<1>2. x \in Command /\ Whole(x) /\ Sure(x) /\ Holds(x)
  BY <1>1, LOwn
<1>3. /\ x.pc = "clear" /\ UNCHANGED <<bits, man, inst, lost, commands>> /\ Trouble
      /\ proc' = [proc EXCEPT ![p].steps = OtherPaths(x.steps), ![p].failed = TRUE]
  BY <1>1 DEF ClearFails, At, SkipPath
<1>4. OtherPaths(x.steps) \in Seq(Entries)
  BY <1>2, OtherPathsRange DEF Command
<1> DEFINE r == [x EXCEPT !.steps = OtherPaths(x.steps), !.failed = TRUE]
<1>5. Turns(p, r)
  BY <1>1, <1>3 DEF Turns, LInv, LTyped
<1>6. /\ r \in Command /\ r.pc = "clear" /\ r.c = x.c /\ r.want = x.want /\ r.sure = x.sure
      /\ r.got = x.got /\ r.failed
  BY <1>2, <1>3, <1>4 DEF Command
<1> HIDE DEF r
<1>7. Whole(r) /\ Sure(r) /\ Holds(r)'
  <2>1. Whole(r)
    BY <1>2, <1>3, <1>6 DEF Whole
  <2> QED  BY <1>2, <1>6, <2>1 DEF Sure, Holds
<1>8. \A c, e : ~Dooms(r, c, e)
  BY <1>6 DEF Dooms
<1>9. LWorld
  BY <1>3, LCounters DEF LWorld, LInv, LTyped, NobodyMakes
<1>10. \A e \in bits' \ lost' : e \in bits \ lost /\ ~Doing(x, e)
  BY <1>3 DEF Doing
<1> QED  BY <1>1, <1>3, <1>5, <1>6, <1>7, <1>8, <1>9, <1>10, LOneKeeps

\* A bit goes: the commands that count on it are loose, but those of a
\* container that is gone, which hold nothing.
LEMMA ClearEntryKeeps ==
  ASSUME LInv, NEW p \in Procs, ClearEntry(p)
  PROVE  LInv'
<1>1. PICK x : x = proc[p]
  OBVIOUS
<1>2. x \in Command /\ Whole(x) /\ Sure(x) /\ Holds(x)
  BY <1>1, LOwn
<1>3. PICK e : e = Head(x.steps)
  OBVIOUS
<1>4. /\ x.pc = "clear" /\ x.steps # <<>> /\ bits' = bits \ {e} /\ lost' = lost \ {e}
      /\ proc' = [q \in Procs |->
           IF q = p THEN [proc[q] EXCEPT !.steps = Tail(@)]
           ELSE IF q \in Loosened(p, e) THEN [proc[q] EXCEPT !.loose = TRUE] ELSE proc[q]]
      /\ UNCHANGED <<man, inst, commands, troubles>>
  BY <1>1, <1>3 DEF ClearEntry, At, Fine
<1>5. x.steps \in Seq(Entries)
  BY <1>2 DEF Command
<1>6. Tail(x.steps) \in Seq(Entries) /\ Range(x.steps) = Range(Tail(x.steps)) \cup {e}
  BY <1>3, <1>4, <1>5, TailRange
<1>7. ASSUME NEW q \in Procs, NEW y, y = proc[q], NEW z, z = proc'[q]
      PROVE  /\ z \in Command /\ Whole(z) /\ Sure(z)' /\ Holds(z)'
             /\ \A f : Doing(y, f) => Doing(z, f)
             /\ \A k, f : f # e /\ Dooms(z, k, f) => Dooms(y, k, f)
  <2>1. y \in Command /\ Whole(y) /\ Sure(y) /\ Holds(y)
    BY <1>7, LOwn
  <2>2. CASE q = p
    <3>1. z = [x EXCEPT !.steps = Tail(x.steps)] /\ y = x
      BY <1>1, <1>4, <1>7, <2>2
    <3>2. /\ z \in Command /\ z.pc = "clear" /\ z.got = x.got /\ z.c = x.c /\ z.want = x.want
          /\ z.sure = x.sure /\ z.steps = Tail(x.steps) /\ z.failed = x.failed
          /\ z.overtaken = x.overtaken
      BY <1>2, <1>4, <1>6, <3>1 DEF Command
    <3>3. Whole(z)
      BY <1>2, <1>4, <3>2 DEF Whole
    <3>4. Sure(z)' /\ Holds(z)'
      BY <1>2, <1>4, <3>2 DEF Sure, Holds
    <3>5. \A f : Doing(y, f) => Doing(z, f)
      BY <1>4, <3>1 DEF Doing
    <3>6. \A k, f : f # e /\ Dooms(z, k, f) => Dooms(y, k, f)
      BY <1>4, <1>6, <3>1, <3>2 DEF Dooms
    <3> QED  BY <3>2, <3>3, <3>4, <3>5, <3>6
  <2>3. CASE q # p /\ q \in Loosened(p, e)
    <3>1. z = [y EXCEPT !.loose = TRUE]
      BY <1>4, <1>7, <2>3
    <3>2. /\ z \in Command /\ z.pc = y.pc /\ z.got = y.got /\ z.c = y.c /\ z.want = y.want
          /\ z.loose /\ z.sure = y.sure /\ z.steps = y.steps /\ z.failed = y.failed
          /\ z.overtaken = y.overtaken
      BY <2>1, <3>1 DEF Command
    <3>3. Whole(z)
      BY <2>1, <3>2 DEF Whole
    <3>4. Sure(z)' /\ Holds(z)'
      BY <1>4, <2>1, <3>2 DEF Sure, Holds
    <3> QED  BY <3>2, <3>3, <3>4 DEF Dooms, Doing
  <2>4. CASE q # p /\ q \notin Loosened(p, e)
    <3>1. z = y
      BY <1>4, <1>7, <2>4
    <3>2. Sure(z)'
      BY <1>4, <2>1, <3>1 DEF Sure
    <3>3. ASSUME z.pc \in {"apply", "start", "on"}, inst[z.c] # "none" PROVE PathOf(e) \notin z.want
      <4>1. ~(x.sure /\ z.c = x.c)
        BY <1>2, <3>3 DEF Sure
      <4> QED  BY <1>1, <1>7, <2>4, <3>1, <3>3, <4>1 DEF Loosened
    <3>4. Holds(z)'
      <4>1. ASSUME z.pc \in {"apply", "start", "on"}, inst[z.c] # "none", ~z.loose
            PROVE  /\ Of(z.got) \subseteq bits \ {e}
                   /\ z.pc = "apply" /\ "hooks" \in Range(z.steps) /\ "hook" \notin Range(z.steps)
                        => "hook" \in bits \ {e}
        <5>1. PathOf(e) \notin z.want /\ PathOf(e) \notin z.got
          BY <2>1, <3>1, <3>3, <4>1 DEF Whole
        <5>2. e \notin Of(z.got)
          BY <5>1 DEF Of
        <5>3. z.pc = "apply" /\ "hooks" \in Range(z.steps) => e # "hook"
          BY <2>1, <3>1, <5>1 DEF Whole, Of, PathOf
        <5> QED  BY <2>1, <3>1, <4>1, <5>2, <5>3 DEF Holds
      <4> QED  BY <1>4, <4>1 DEF Holds
    <3> QED  BY <2>1, <3>1, <3>2, <3>4
  <2> QED  BY <2>2, <2>3, <2>4
<1>8. LTyped'
  <2>1. proc' \in [Procs -> Command]
    BY <1>4, <1>7
  <2> QED  BY <1>4, <2>1 DEF LInv, LTyped
<1>9. LOwnInv'
  <2>1. ASSUME NEW q \in Procs PROVE (Whole(proc[q]) /\ Sure(proc[q]) /\ Holds(proc[q]))'
    <3>1. PICK z : z = proc'[q]
      OBVIOUS
    <3>2. Whole(z) /\ Sure(z)' /\ Holds(z)'
      BY <1>7, <3>1
    <3> QED  BY <3>1, <3>2 DEF Whole, Sure, Holds
  <2> QED  BY <2>1 DEF LOwnInv
<1>10. KnownInv'
  <2>1. ASSUME NEW f \in bits' \ lost'
        PROVE  (\E q \in Procs : Doing(proc'[q], f)) \/ (\E k \in Conts : OnRecord(k, f)')
    <3>1. f # e /\ f \in bits \ lost
      BY <1>4, <2>1
    <3>2. CASE \E q \in Procs : Doing(proc[q], f)
      BY <1>7, <3>2
    <3>3. CASE \E k \in Conts : OnRecord(k, f)
      <4>1. PICK k \in Conts : OnRecord(k, f)
        BY <3>3
      <4>2. \A q \in Procs : ~Dooms(proc'[q], k, f)
        BY <1>7, <3>1, <4>1 DEF OnRecord
      <4> QED  BY <1>4, <4>1, <4>2 DEF OnRecord
    <3> QED  BY <3>1, <3>2, <3>3 DEF LInv, KnownInv
  <2> QED  BY <2>1 DEF KnownInv
<1> QED  BY <1>8, <1>9, <1>10 DEF LInv

\* The manifest goes when nothing failed: what is not cleared by then is
\* somebody else's, or was recorded meanwhile.
LEMMA ForgetKeeps ==
  ASSUME LInv, NEW p \in Procs, Forget(p)
  PROVE  LInv'
<1>1. PICK x : x = proc[p]
  OBVIOUS
<1>2. x \in Command /\ Whole(x) /\ Sure(x) /\ Holds(x)
  BY <1>1, LOwn
<1>3. /\ x.pc = "clear" /\ x.steps = <<>> /\ UNCHANGED <<bits, inst, commands>> /\ Fine
      /\ man' = [man EXCEPT ![x.c] = IF x.failed THEN @ ELSE {}]
      /\ lost' = IF x.overtaken THEN lost \cup (bits \cap Of(man[x.c])) ELSE lost
      /\ IF x.after = "idle" THEN Idle(p) ELSE Goto(p, x.after)
  BY <1>1 DEF Forget, At
<1>4. x.c \in Conts
  BY <1>2, <1>3 DEF Whole
<1>5. PICK r \in Command : Turns(p, r) /\ Whole(r) /\ Sure(r) /\ Holds(r)' /\ r.pc # "clear"
  <2>1. CASE x.after = "idle"
    BY <1>3, <2>1, NoProcWhole DEF Idle, Set, Turns
  <2>2. CASE x.after # "idle"
    <3> DEFINE r == [x EXCEPT !.pc = x.after]
    <3>1. Turns(p, r)
      BY <1>1, <1>3, <2>2 DEF Goto, Turns, LInv, LTyped
    <3>2. /\ r \in Command /\ r.pc \in {"delete", "keep", "clean"} /\ r.c = x.c /\ r.want = x.want
          /\ r.got = x.got /\ r.sure = x.sure
      BY <1>2, <2>2 DEF Command
    <3> HIDE DEF r
    <3>3. Whole(r)
      BY <1>2, <1>4, <3>2 DEF Whole
    <3>4. Sure(r) /\ Holds(r)'
      BY <1>2, <3>2 DEF Sure, Holds
    <3> QED  BY <3>1, <3>2, <3>3, <3>4
  <2> QED  BY <2>1, <2>2
<1>6. proc' \in [Procs -> Command] /\ \A q \in Procs : proc'[q] = IF q = p THEN r ELSE proc[q]
  BY <1>5 DEF LInv, LTyped, Turns
<1>7. LTyped'
  BY <1>3, <1>4, <1>6 DEF LInv, LTyped, Fine
<1>8. LOwnInv'
  <2>1. ASSUME NEW q \in Procs PROVE (Whole(proc[q]) /\ Sure(proc[q]) /\ Holds(proc[q]))'
    <3>1. PICK z \in Command : z = proc'[q] /\ Whole(z) /\ Sure(z) /\ Holds(z)'
      <4>1. CASE q = p
        BY <1>5, <1>6, <4>1
      <4>2. CASE q # p
        <5>1. PICK z \in Command : z = proc[q] /\ Whole(z) /\ Sure(z) /\ Holds(z)
          BY LOwn
        <5>2. Holds(z)'
          BY <1>3, <5>1 DEF Holds
        <5> QED  BY <1>6, <4>2, <5>1, <5>2
      <4> QED  BY <4>1, <4>2
    <3>2. Sure(z)'
      BY <1>3, <3>1 DEF Sure
    <3> QED  BY <3>1, <3>2 DEF Whole, Sure, Holds
  <2> QED  BY <2>1 DEF LOwnInv
<1>9. KnownInv'
  <2>1. ASSUME NEW e \in bits \ lost'
        PROVE  (\E q \in Procs : Doing(proc'[q], e)) \/ (\E k \in Conts : OnRecord(k, e)')
    <3>0. e \in bits \ lost /\ e \in Entries
      BY <1>3 DEF LInv, LTyped
    <3>1. CASE \E q \in Procs : Doing(proc[q], e)
      <4>1. PICK q \in Procs : Doing(proc[q], e)
        BY <3>1
      <4>2. q # p
        BY <1>1, <1>3, <4>1 DEF Doing
      <4> QED  BY <1>6, <4>1, <4>2
    <3>2. CASE \E k \in Conts : OnRecord(k, e)
      <4>1. PICK k \in Conts : OnRecord(k, e)
        BY <3>2
      <4>2. \A q \in Procs : ~Dooms(proc'[q], k, e)
        BY <1>5, <1>6, <4>1 DEF OnRecord, Dooms
      <4>3. PathOf(e) \in man'[k]
        <5>1. CASE k # x.c \/ x.failed
          BY <1>3, <1>4, <4>1, <5>1 DEF OnRecord, LInv, LTyped
        <5>2. CASE k = x.c /\ ~x.failed
          <6>1. e \notin Range(x.steps)
            BY <1>3 DEF Range
          <6>2. x.overtaken
            BY <1>1, <1>3, <4>1, <5>2, <6>1 DEF OnRecord, Dooms
          <6>3. e \in lost'
            BY <1>3, <3>0, <4>1, <5>2, <6>2 DEF OnRecord, Of
          <6> QED  BY <2>1, <6>3
        <5> QED  BY <5>1, <5>2
      <4> QED  BY <4>1, <4>2, <4>3 DEF OnRecord
    <3> QED  BY <3>0, <3>1, <3>2 DEF LInv, KnownInv
  <2> QED  BY <1>3, <2>1 DEF KnownInv
<1> QED  BY <1>7, <1>8, <1>9 DEF LInv

\* A container deleted behind the back of coi leaves its bits and its manifest.
LEMMA DeletedKeeps ==
  ASSUME LInv, NEW c \in Conts, DeletedOutside(c)
  PROVE  LInv'
<1>1. /\ UNCHANGED <<bits, man, proc, lost, commands>> /\ Trouble
      /\ inst' = [inst EXCEPT ![c] = "none"]
  BY DEF DeletedOutside
<1>2. LTyped' /\ KnownInv'
  <2>1. LTyped'
    BY <1>1, LCounters DEF LInv, LTyped
  <2> QED  BY <1>1, <2>1 DEF LInv, KnownInv, OnRecord
<1>3. \A k \in Conts : inst'[k] = "none" \/ inst'[k] = inst[k]
  BY <1>1 DEF LInv, LTyped
<1>4. ASSUME NEW q \in Procs PROVE (Whole(proc[q]) /\ Sure(proc[q]) /\ Holds(proc[q]))'
  <2>1. PICK z \in Command : z = proc[q] /\ Whole(z) /\ Sure(z) /\ Holds(z)
    BY LOwn
  <2>2. Sure(z)' /\ Holds(z)'
    BY <1>1, <1>3, <2>1 DEF Sure, Holds, Whole
  <2> QED  BY <1>1, <2>1, <2>2 DEF Whole, Sure, Holds
<1>5. LOwnInv'
  BY <1>4 DEF LOwnInv
<1> QED  BY <1>2, <1>5 DEF LInv

\* Every step keeps the invariant.
LEMMA LocksNext == LInv /\ [Next]_vars => LInv'
<1> SUFFICES ASSUME LInv, [Next]_vars PROVE LInv'
  OBVIOUS
<1>1. CASE UNCHANGED vars
  BY <1>1 DEF vars, LInv, LTyped, LOwnInv, KnownInv, Whole, Sure, Holds, OnRecord
<1>2. ASSUME NEW p \in Procs, Launch(p) \/ Enter(p) \/ Refused(p) PROVE LInv'
  BY <1>2, LaunchKeeps, EnterKeeps
<1>3. ASSUME NEW p \in Procs, Applies(p) PROVE LInv'
  BY <1>3, SetEntryKeeps, SetFailsKeeps, SaveKeeps, UnsavedKeeps, StartKeeps, OverKeeps DEF Applies
<1>4. ASSUME NEW p \in Procs, Removes(p) PROVE LInv'
  BY <1>4, StartKeeps, LoadKeeps, ClearEntryKeeps, ClearFailsKeeps, ForgetKeeps, OverKeeps DEF Removes
<1>5. ASSUME NEW p \in Procs, Cleans(p) PROVE LInv'
  BY <1>5, CleanKeeps, OverKeeps, CleanStepKeeps DEF Cleans
<1>6. ASSUME NEW p \in Procs, Kill(p) PROVE LInv'
  BY <1>6, KillKeeps
<1>7. ASSUME NEW c \in Conts, DeletedOutside(c) PROVE LInv'
  BY <1>7, DeletedKeeps
<1> QED  BY <1>1, <1>2, <1>3, <1>4, <1>5, <1>6, <1>7 DEF Next

\* So it always holds.
LEMMA LocksInv == Spec => []LInv
<1> QED  BY LocksInit, LocksNext, PTL DEF Spec

\* The state of the locks is of its type, and what a command has locked is of
\* the paths it was to lock, for any number of commands and containers
\* (ApplyImmutable, RemoveImmutable).
THEOREM LocksTypeCorrect == Spec => []TypeOK
<1>1. LInv => TypeOK
  BY DEF LInv, LTyped, TypeOK, LOwnInv, Whole
<1> QED  BY <1>1, LocksInv, PTL

\* A bit that no manifest records, and no command is about to record, was
\* left for a known reason (ApplyImmutable, RemoveImmutable).
THEOREM AlwaysRecorded == Spec => []Recorded
<1>1. ASSUME LInv, NEW p \in Procs, NEW e \in Entries, Doing(proc[p], e)
      PROVE  proc[p].pc = "apply" /\ PathOf(e) \in proc[p].want
  <2>1. PICK x : x = proc[p]
    OBVIOUS
  <2>2. x \in Command /\ Whole(x) /\ x.pc = "apply"
    BY <1>1, <2>1, LOwn DEF Doing
  <2>3. ASSUME x.steps # <<>> PROVE PathOf(Head(x.steps)) \in x.want
    <3>1. x.steps \in Seq(Entries) /\ Range(x.steps) \subseteq Of(x.want)
      BY <2>2 DEF Command, Whole
    <3>2. Head(x.steps) \in Of(x.want)
      BY <2>3, <3>1, TailRange
    <3> QED  BY <3>2 DEF Of
  <2> QED  BY <1>1, <2>1, <2>2, <2>3 DEF Doing, Whole
<1>2. LInv => Recorded
  BY <1>1 DEF LInv, LTyped, KnownInv, OnRecord, Recorded
<1> QED  BY <1>2, LocksInv, PTL

\* A session whose paths are locked keeps them locked as LocksHeld says,
\* whatever the other commands do (CleanStaleImmutableLocks).
THEOREM LocksAlwaysHeld == Spec => []LocksHeld
<1>1. LInv => LocksHeld
  BY DEF LInv, LOwnInv, Holds, LocksHeld
<1> QED  BY <1>1, LocksInv, PTL

-----------------------------------------------------------------------------
(* Read-only mounts: the entries of the workspace.                          *)

Sources == {"none", "dir", "link", "file", "inner", "outer"}

\* The entries by name, and the listed paths in their order.
LEMMA Names ==
  /\ Nodes = {"git", "claude", "extra", "env", "data", "common", "hooks", "info",
              "attributes", "settings", "chooks", "config.worktree"}
  /\ Listed \in Seq(Protected) /\ DOMAIN Listed = {1, 2, 3, 4}
  /\ Listed[1] = "hooks" /\ Listed[2] = "attributes" /\ Listed[3] = "settings" /\ Listed[4] = "extra"
  /\ Protected = {"hooks", "attributes", "settings", "extra", "config.worktree"}
<1>1. DOMAIN Below = {"hooks", "info", "attributes", "settings", "chooks"}
  BY DEF Below
<1>2. DOMAIN Above = {"git", "claude", "extra", "env", "data", "common"}
  BY DEF Above
<1>3. DOMAIN Listed = {1, 2, 3, 4}
  BY DEF Listed
<1>4. Listed[1] = "hooks" /\ Listed[2] = "attributes" /\ Listed[3] = "settings" /\ Listed[4] = "extra"
  BY DEF Listed
<1>5. Protected = {"hooks", "attributes", "settings", "extra", "config.worktree"}
  BY <1>3, <1>4 DEF Protected
<1>6. Listed \in Seq(Protected)
  BY <1>5 DEF Listed
<1> QED  BY <1>1, <1>2, <1>3, <1>4, <1>5, <1>6 DEF Nodes

\* What lies above each of them.
LEMMA Parents ==
  /\ Over("hooks") = {"git"} /\ Over("attributes") = {"git", "info"}
  /\ Over("settings") = {"claude"} /\ Over("extra") = {} /\ Over("env") = {}
  /\ Over("config.worktree") = {"git"} /\ Over("chooks") = {"common"}
  /\ Over("git") = {} /\ Over("common") = {}
  BY DEF Over, Above, Below

Distinct(s) == \A i, j \in DOMAIN s : i < j => s[i] # s[j]

\* The rest of a list that names a path once does not name its head.
LEMMA TailDistinct ==
  ASSUME NEW T, NEW s \in Seq(T), s # <<>>, Distinct(s)
  PROVE  Distinct(Tail(s)) /\ Head(s) \notin Range(Tail(s))
<1>1. /\ Len(s) \in Nat \ {0} /\ Head(s) = s[1]
      /\ DOMAIN s = 1..Len(s) /\ DOMAIN Tail(s) = 1..(Len(s) - 1)
      /\ \A i \in 1..(Len(s) - 1) : Tail(s)[i] = s[i + 1]
  OBVIOUS
<1>2. ASSUME NEW i \in 1..(Len(s) - 1), NEW j \in 1..(Len(s) - 1), i < j
      PROVE  Tail(s)[i] # Tail(s)[j]
  <2>1. i + 1 \in DOMAIN s /\ j + 1 \in DOMAIN s /\ i + 1 < j + 1
    BY <1>1, <1>2
  <2> QED  BY <1>1, <2>1 DEF Distinct
<1>3. ASSUME NEW i \in 1..(Len(s) - 1) PROVE Tail(s)[i] # Head(s)
  <2>1. 1 \in DOMAIN s /\ i + 1 \in DOMAIN s /\ 1 < i + 1
    BY <1>1
  <2> QED  BY <1>1, <2>1 DEF Distinct
<1> QED  BY <1>1, <1>2, <1>3 DEF Distinct, Range

\* What is to be protected: each path once, none of a git directory that
\* is reached through a worktree, its config if there is one.
LEMMA ToProtectLists ==
  ASSUME NEW layout \in BOOLEAN
  PROVE  /\ ToProtect(layout) \in Seq(Protected) /\ Distinct(ToProtect(layout))
         /\ Range(ToProtect(layout)) =
              {p \in {"hooks", "attributes", "settings", "extra"} : ~(layout /\ p \in InGit)}
              \cup (IF fs["config.worktree"] = "file" THEN {"config.worktree"} ELSE {})
<1> DEFINE P == {i \in DOMAIN Listed : ~(layout /\ Listed[i] \in InGit)}
           s == Pick(Listed, P)
           R == {r \in Protected \X Protected : r[1] # r[2]}
<1>1. P \in SUBSET DOMAIN Listed /\ Listed \in Seq(Protected)
  BY Names
<1>2. \A i, j \in DOMAIN Listed : i < j => <<Listed[i], Listed[j]>> \in R
  BY Names
<1>3. Range(s) = {Listed[i] : i \in P}
  BY <1>1, PickRange
<1>4. Range(s) = {p \in {"hooks", "attributes", "settings", "extra"} : ~(layout /\ p \in InGit)}
  BY <1>3, Names
<1>5. s \in Seq(Protected)
  BY <1>1, PickHolds
<1>6. \A n, m \in DOMAIN s : n < m => <<s[n], s[m]>> \in R
  <2> HIDE DEF P, R
  <2> QED  BY <1>1, <1>2, PickKeepsOrder
<1>7. Distinct(s)
  BY <1>6 DEF Distinct
<1>8. ToProtect(layout) = s \o (IF fs["config.worktree"] = "file" THEN <<"config.worktree">> ELSE <<>>)
  BY DEF ToProtect
<1> HIDE DEF s, P, R
<1>9. CASE fs["config.worktree"] = "file"
  <2> DEFINE t == s \o <<"config.worktree">>
  <2>1. ToProtect(layout) = t
    BY <1>8, <1>9
  <2>2. /\ t \in Seq(Protected) /\ DOMAIN t = 1..(Len(s) + 1) /\ DOMAIN s = 1..Len(s) /\ Len(s) \in Nat
        /\ \A i \in 1..Len(s) : t[i] = s[i]
        /\ t[Len(s) + 1] = "config.worktree"
    BY <1>5, Names
  <2> HIDE DEF t
  <2>3. Range(t) = Range(s) \cup {"config.worktree"}
    <3>1. ASSUME NEW i \in 1..(Len(s) + 1) PROVE t[i] \in Range(s) \cup {"config.worktree"}
      BY <2>2 DEF Range
    <3>2. ASSUME NEW i \in 1..Len(s) PROVE s[i] \in Range(t)
      BY <2>2 DEF Range
    <3>3. "config.worktree" \in Range(t)
      BY <2>2 DEF Range
    <3> QED  BY <2>2, <3>1, <3>2, <3>3 DEF Range
  <2>4. \A i \in DOMAIN s : s[i] # "config.worktree"
    BY <1>4 DEF Range
  <2>5. Distinct(t)
    BY <1>7, <2>2, <2>4 DEF Distinct
  <2> QED  BY <1>4, <1>9, <2>1, <2>2, <2>3, <2>5
<1>10. CASE fs["config.worktree"] # "file"
  <2>1. ToProtect(layout) = s
    BY <1>5, <1>8, <1>10
  <2> QED  BY <1>4, <1>5, <1>7, <1>10, <2>1
<1> QED  BY <1>9, <1>10

-----------------------------------------------------------------------------
(* The inductive invariant.                                                 *)

Container == [st : {"none", "stopped", "running"}, devs : SUBSET Nodes, base : BOOLEAN,
              by : {"none", "coi", "hand"}, told : BOOLEAN]
Preparation == [pc : {"idle", "strip", "protect", "mask", "start"}, own : BOOLEAN,
                layout : BOOLEAN, todo : Seq(Protected), told : BOOLEAN, stuck : SUBSET Nodes]

PTyped ==
  /\ fs \in [Nodes -> Sources] /\ cont \in Container /\ cmd \in Preparation
  /\ late \in SUBSET Nodes /\ wedged \in BOOLEAN
  /\ snap = {"none"} \/ snap \in SUBSET Nodes
  /\ reuses \in Nat /\ edits \in Nat /\ failures \in Nat

\* A command prepares a container that is stopped.
StateInv == cmd.pc # "idle" => cont.st = "stopped"
\* Its list names a path once, and has none of a git directory that is
\* reached through a worktree.
TodoInv ==
  /\ cmd.pc \in {"mask", "start"} => cmd.todo = <<>>
  /\ cmd.pc = "protect" => /\ Distinct(cmd.todo)
                           /\ cmd.layout => Range(cmd.todo) \cap {"hooks", "attributes"} = {}
\* Where the git directory is was looked up once; it has changed since if it
\* is elsewhere now.
LayoutInv == cmd.pc # "idle" =>
  /\ cmd.layout /\ fs.git = "dir" => {"hooks", "attributes"} \subseteq late
  /\ ~cmd.layout /\ Layout => "chooks" \in late
\* Every path is covered, told of, or still to come.
AheadInv == cmd.pc \in {"protect", "mask", "start"} =>
  \A p \in Protected \ late : Expected(p) => p \in cont.devs \/ cmd.told \/ p \in Range(cmd.todo)
SinkInv == cmd.pc \in {"mask", "start"} /\ Layout => "chooks" \in late \cup cont.devs \/ cmd.told
MaskInv == cmd.pc = "start" /\ late \cap {"env", "data"} = {} => Secrets \subseteq cont.devs
\* A device that was not there before the command has a source, unless it
\* vanished since.
FreshInv == cmd.pc \in {"protect", "mask", "start"} =>
  \A d \in cont.devs \ cmd.stuck :
    /\ d \notin {"env", "data"} /\ fs[d] = "none" => d \in late
    /\ d \notin Range(cmd.todo)
    /\ cmd.pc = "protect" => d # "chooks"

Prepared == StateInv /\ TodoInv /\ LayoutInv /\ AheadInv /\ SinkInv /\ MaskInv /\ FreshInv
PInv == PTyped /\ Prepared /\ Covered /\ NeverWedged

\* No command, and no container.
LEMMA NothingYet == NoCmd \in Preparation /\ NoCmd.pc = "idle" /\ NoCont \in Container /\ NoCont.st = "none"
<1>1. <<>> \in Seq(Protected)
  OBVIOUS
<1> QED  BY <1>1 DEF NoCmd, NoCont, Preparation, Container

\* The invariant holds before the first command.
LEMMA ProtectionInit == PInit => PInv
<1> SUFFICES ASSUME PInit PROVE PInv
  OBVIOUS
<1>1. PTyped
  BY NothingYet, PAssumption DEF PInit, PTyped, Sources
<1>2. cmd.pc = "idle" /\ cont.st = "none" /\ ~wedged
  BY NothingYet DEF PInit
<1> QED
  BY <1>1, <1>2 DEF PInv, Prepared, StateInv, TodoInv, LayoutInv, AheadInv, SinkInv, MaskInv, FreshInv,
     Covered, NeverWedged

-----------------------------------------------------------------------------
(* Steps after which no command is under way.                               *)

\* With no command under way and no container that coi started, there is nothing
\* to keep.
LEMMA RestKeeps ==
  ASSUME PTyped', cmd'.pc = "idle", cont'.st # "running" \/ cont'.by # "coi", ~wedged'
  PROVE  PInv'
  BY DEF PInv, Prepared, StateInv, TodoInv, LayoutInv, AheadInv, SinkInv, MaskInv, FreshInv,
     Covered, NeverWedged

\* A command that fails leaves a container that is stopped, or none.
LEMMA LeavesKeeps ==
  ASSUME PInv, cmd.pc # "idle", Leaves \/ (cmd' = NoCmd /\ cont' = cont), fs' \in [Nodes -> Sources],
         late' \in SUBSET Nodes, wedged' = FALSE, UNCHANGED <<snap, reuses, edits>>, failures' \in Nat
  PROVE  PInv'
<1>1. cont'.st # "running"
  BY NothingYet DEF PInv, Prepared, StateInv, Leaves
<1>2. cmd' = NoCmd /\ cont' \in Container
  BY NothingYet DEF PInv, PTyped, Leaves
<1>3. PTyped'
  BY <1>2, NothingYet DEF PInv, PTyped
<1> QED  BY <1>1, <1>2, <1>3, NothingYet, RestKeeps

\* What happens to the container between two commands.
LEMMA BetweenKeeps ==
  ASSUME PInv, Stop \/ Discard \/ ByHand \/ TakeSnapshot \/ RevertDevices
  PROVE  PInv'
<1>1. cmd.pc = "idle" /\ UNCHANGED <<fs, cmd, late, wedged, reuses, edits, failures>> /\ wedged = FALSE
  BY DEF Stop, Discard, ByHand, TakeSnapshot, RevertDevices, Quiet, PInv, PTyped, NeverWedged
<1>2. CASE TakeSnapshot
  <2>1. cont' = cont /\ snap' = cont.devs
    BY <1>2 DEF TakeSnapshot
  <2>2. PTyped'
    BY <1>1, <2>1 DEF PInv, PTyped, Container
  <2>3. Covered'
    BY <1>1, <2>1 DEF PInv, Covered, Expected, Layout, Secrets
  <2> QED
    BY <1>1, <2>2, <2>3 DEF PInv, Prepared, StateInv, TodoInv, LayoutInv, AheadInv, SinkInv, MaskInv,
       FreshInv, NeverWedged
<1>3. CASE Stop \/ Discard \/ ByHand \/ RevertDevices
  <2>1. cont' \in Container /\ (cont'.st # "running" \/ cont'.by # "coi")
    BY <1>3, NothingYet DEF Stop, Discard, ByHand, RevertDevices, PInv, PTyped, Container
  <2>2. snap' = {"none"} \/ snap' \in SUBSET Nodes
    BY <1>3 DEF Stop, Discard, ByHand, RevertDevices, PInv, PTyped
  <2>3. PTyped'
    BY <1>1, <2>1, <2>2 DEF PInv, PTyped
  <2> QED  BY <1>1, <2>1, <2>3, RestKeeps
<1> QED  BY <1>2, <1>3

\* A command that is cut short or fails starts nothing.
LEMMA FailedKeeps ==
  ASSUME PInv, MaskFails \/ StartContFails \/ Cut \/ StartRefused \/ (Mask /\ Leaves)
  PROVE  PInv'
<1>1. cmd.pc # "idle" /\ UNCHANGED <<fs, snap, reuses, edits>>
  BY DEF MaskFails, StartContFails, Cut, StartRefused, Mask, Stage
<1>2. late' \in SUBSET Nodes /\ failures' \in Nat
  BY DEF MaskFails, StartContFails, Cut, StartRefused, Mask, Seen, PInv, PTyped, Failure, Plain
<1>3. Leaves \/ (cmd' = NoCmd /\ cont' = cont)
  BY DEF MaskFails, StartContFails, Cut, StartRefused, Mask
<1>4. wedged' = FALSE
  <2>1. CASE StartRefused
    <3>1. cmd.pc = "start" /\ wedged' = (wedged \/ Missing \ (late \cup cmd.stuck) # {})
      BY <2>1 DEF StartRefused, Stage
    <3>2. Missing \ (late \cup cmd.stuck) = {}
      BY <3>1 DEF PInv, Prepared, FreshInv, Missing
    <3> QED  BY <3>1, <3>2 DEF PInv, PTyped, NeverWedged
  <2>2. CASE ~StartRefused
    BY <2>2 DEF MaskFails, StartContFails, Cut, Mask, Failure, Plain, PInv, PTyped, NeverWedged
  <2> QED  BY <2>1, <2>2
<1>5. fs' \in [Nodes -> Sources]
  BY <1>1 DEF PInv, PTyped
<1> QED  BY <1>1, <1>2, <1>3, <1>4, <1>5, LeavesKeeps

-----------------------------------------------------------------------------
(* Beginning: where the git directory is, and what is to be protected.      *)

\* A new container, or one that is prepared again.
LEMMA BeginKeeps ==
  ASSUME PInv, Begin
  PROVE  PInv'
<1>1. /\ cmd.pc = "idle" /\ reuses' = reuses + 1 /\ UNCHANGED <<fs, snap, edits, failures, wedged>>
      /\ wedged = FALSE
  BY DEF Begin, Plain, PInv, PTyped, NeverWedged
<1>2. Layout \in BOOLEAN /\ Broken \in BOOLEAN
  BY DEF Layout, Broken
<1>3. CASE cont.st = "stopped"
  <2>1. /\ cmd' = [NoCmd EXCEPT !.pc = "strip", !.layout = Layout, !.told = Broken]
        /\ UNCHANGED <<cont, late>>
    BY <1>3 DEF Begin
  <2>2. cmd' \in Preparation /\ cmd'.pc = "strip" /\ cmd'.layout = Layout
    BY <1>2, <2>1, NothingYet DEF Preparation
  <2>3. PTyped'
    BY <1>1, <2>1, <2>2 DEF PInv, PTyped
  <2>4. LayoutInv'
    BY <1>1, <2>1, <2>2 DEF LayoutInv, Layout
  <2> QED
    BY <1>1, <1>3, <2>1, <2>2, <2>3, <2>4 DEF PInv, Prepared, StateInv, TodoInv, AheadInv, SinkInv,
       MaskInv, FreshInv, Covered, NeverWedged
<1>4. CASE cont.st # "stopped"
  <2>1. PICK own \in BOOLEAN, layout \in BOOLEAN, todo \in {ToProtect(Layout)} :
          /\ layout = Layout /\ todo = ToProtect(layout)
          /\ cont' = [NoCont EXCEPT !.st = "stopped", !.base = Layout]
          /\ cmd' = [NoCmd EXCEPT !.pc = "protect", !.own = own, !.layout = Layout,
                                  !.todo = todo, !.told = Broken]
          /\ late' = late \ {"config.worktree"}
    BY <1>2, <1>4 DEF Begin, Seen
  <2>2. /\ todo \in Seq(Protected) /\ Distinct(todo)
        /\ Range(todo) = {p \in {"hooks", "attributes", "settings", "extra"} : ~(layout /\ p \in InGit)}
             \cup (IF fs["config.worktree"] = "file" THEN {"config.worktree"} ELSE {})
    BY <2>1, ToProtectLists
  <2>3. /\ cmd' \in Preparation /\ cmd'.pc = "protect" /\ cmd'.layout = layout /\ cmd'.todo = todo
        /\ cont' \in Container /\ cont'.st = "stopped" /\ cont'.devs = {}
    BY <1>2, <2>1, <2>2, NothingYet DEF Preparation, Container, NoCont
  <2>4. PTyped'
    BY <1>1, <2>1, <2>3 DEF PInv, PTyped
  <2>5. AheadInv'
    <3>1. ASSUME NEW p \in Protected, Expected(p)' PROVE p \in Range(todo)
      <4>1. layout => fs.git = "file"
        BY <2>1 DEF Layout
      <4>2. p \in InGit => fs.git = "dir"
        BY <1>1, <3>1, Names DEF Expected, InGit
      <4>3. p = "config.worktree" => fs[p] = "file"
        BY <1>1, <3>1 DEF Expected, InGit
      <4> QED  BY <2>2, <4>1, <4>2, <4>3, Names
    <3> QED  BY <2>3, <3>1 DEF AheadInv
  <2>6. TodoInv'
    BY <2>2, <2>3 DEF TodoInv, InGit
  <2>7. LayoutInv'
    BY <1>1, <2>1, <2>3 DEF LayoutInv, Layout
  <2> QED
    BY <1>1, <2>3, <2>4, <2>5, <2>6, <2>7 DEF PInv, Prepared, StateInv, SinkInv, MaskInv, FreshInv,
       Covered, NeverWedged
<1> QED  BY <1>3, <1>4

\* The devices of before are gone, or the command is told (StripSecurityDevices).
LEMMA StripsKeeps ==
  ASSUME PInv, Strip \/ StripFails
  PROVE  PInv'
<1>1. PICK stuck \in SUBSET Nodes, todo \in {ToProtect(cmd.layout)} :
        /\ cmd.pc = "strip" /\ UNCHANGED <<fs, snap, reuses, edits, wedged>>
        /\ todo = ToProtect(cmd.layout)
        /\ cont' = [cont EXCEPT !.devs = @ \cap stuck]
        /\ cmd' = [cmd EXCEPT !.pc = "protect", !.todo = todo, !.stuck = stuck,
                              !.told = @ \/ stuck # {}]
        /\ late' = late \ {"config.worktree"}
  <2>1. CASE Strip
    BY <2>1 DEF Strip, Strips, Stage, Seen, Stripped, Plain
  <2>2. CASE StripFails
    <3>1. cont.devs \in SUBSET Nodes
      BY DEF PInv, PTyped, Container
    <3>2. PICK stuck \in SUBSET Nodes : Strips(stuck)
      BY <2>2, <3>1 DEF StripFails
    <3> QED  BY <2>2, <3>2 DEF StripFails, Strips, Stage, Seen, Stripped, Failure
  <2> QED  BY <2>1, <2>2
<1>2. failures' \in Nat
  BY DEF Strip, StripFails, Plain, Failure, PInv, PTyped
<1>3. PICK layout \in BOOLEAN : layout = cmd.layout
  BY DEF PInv, PTyped, Preparation
<1>4. /\ todo \in Seq(Protected) /\ Distinct(todo)
      /\ Range(todo) = {p \in {"hooks", "attributes", "settings", "extra"} : ~(layout /\ p \in InGit)}
           \cup (IF fs["config.worktree"] = "file" THEN {"config.worktree"} ELSE {})
  BY <1>1, <1>3, ToProtectLists
<1>5. /\ cmd' \in Preparation /\ cmd'.pc = "protect" /\ cmd'.layout = layout /\ cmd'.todo = todo
      /\ cmd'.stuck = stuck
  BY <1>1, <1>3, <1>4 DEF PInv, PTyped, Preparation
<1>6. cont' \in Container /\ cont'.st = "stopped" /\ cont'.devs = cont.devs \cap stuck
  BY <1>1 DEF PInv, PTyped, Container, Prepared, StateInv
<1>7. PTyped'
  BY <1>1, <1>2, <1>5, <1>6 DEF PInv, PTyped
<1>8. layout /\ fs.git = "dir" => {"hooks", "attributes"} \subseteq late
  BY <1>1, <1>3 DEF PInv, Prepared, LayoutInv
<1>9. AheadInv'
  <2>1. ASSUME NEW p \in Protected \ late', Expected(p)' PROVE p \in Range(todo)
    <3>1. p \in InGit => fs.git = "dir"
      BY <1>1, <2>1, Names DEF Expected, InGit
    <3>2. p = "config.worktree" => fs[p] = "file"
      BY <1>1, <2>1 DEF Expected, InGit
    <3>3. p \in {"hooks", "attributes"} => ~layout
      BY <1>1, <1>8, <2>1, <3>1 DEF InGit
    <3> QED  BY <1>4, <3>2, <3>3, Names DEF InGit
  <2> QED  BY <1>5, <2>1 DEF AheadInv
<1>10. TodoInv'
  BY <1>4, <1>5 DEF TodoInv, InGit
<1>11. LayoutInv'
  BY <1>1, <1>3, <1>5 DEF LayoutInv, Layout, PInv, Prepared
<1>12. FreshInv'
  BY <1>5, <1>6 DEF FreshInv
<1> QED
  BY <1>1, <1>5, <1>6, <1>7, <1>9, <1>10, <1>11, <1>12 DEF PInv, Prepared, StateInv, SinkInv, MaskInv,
     Covered, NeverWedged

-----------------------------------------------------------------------------
(* What a directory or file made for one path changes for the others.       *)

\* A path that is created changes no other (ensureProtectedExists).
LEMMA MadeKeeps ==
  ASSUME PTyped, NEW p \in Protected \cup {"chooks"}, fs' = Made(p)
  PROVE  /\ fs' \in [Nodes -> Sources] /\ fs'.git = fs.git /\ fs'[p] # "none"
         /\ \A e \in Nodes : fs[e] # "none" => fs'[e] # "none"
         /\ Secrets' = Secrets /\ (Layout' <=> Layout)
         /\ \A q \in (Protected \cup {"chooks"}) \ {p} : Expected(q)' <=> Expected(q)
<1>1. p \in Nodes /\ p \notin {"git", "common", "claude", "info", "env"}
  BY Names
<1>2. /\ fs' \in [Nodes -> Sources]
      /\ \A e \in Nodes : fs[e] # "none" => fs'[e] = fs[e]
      /\ \A e \in Nodes \ {p, "claude"} : fs'[e] = fs[e]
      /\ fs'[p] # "none"
  BY <1>1 DEF Made, PTyped, Sources
<1>3. fs'.git = fs.git /\ fs'.common = fs.common /\ fs'.info = fs.info /\ fs'.env = fs.env
  BY <1>1, <1>2, Names
<1>4. (Layout' <=> Layout) /\ Secrets' = Secrets
  BY <1>3 DEF Layout, Secrets
<1>5. ASSUME NEW q \in Protected \cup {"chooks"}, q # p PROVE Expected(q)' <=> Expected(q)
  <2>1. fs'[q] = fs[q]
    BY <1>2, <1>5, Names
  <2> QED  BY <1>3, <1>4, <2>1 DEF Expected
<1> QED  BY <1>2, <1>3, <1>4, <1>5

\* The end of a step of SetupSecurityMounts for p: it is mounted, told of, or
\* not expected; the rest of the list is still to come, or was told of.
LEMMA PathKeeps ==
  ASSUME PInv, NEW p, Protects(p),
         fs' = fs \/ fs' = Made(p), wedged' = FALSE, failures' \in Nat,
         cont' = cont \/ (cont' = [cont EXCEPT !.devs = @ \cup {p}] /\ fs' = Made(p)),
         NEW todo, NEW told \in BOOLEAN, cmd.told => told,
         cmd' = [cmd EXCEPT !.todo = todo, !.told = told],
         todo = Tail(cmd.todo) \/ (todo = <<>> /\ told),
         p \in cont'.devs \/ told \/ ~(Expected(p)')
  PROVE  PInv'
<1>1. /\ cmd.pc = "protect" /\ cmd.todo # <<>> /\ p = Head(cmd.todo) /\ late' = late \ {p}
      /\ UNCHANGED <<snap, reuses, edits>>
  BY DEF Protects, Stage, Seen
<1>2. PICK list \in Seq(Protected) : list = cmd.todo /\ Distinct(list) /\ list # <<>>
  BY <1>1 DEF PInv, PTyped, Preparation, Prepared, TodoInv
<1>3. /\ Tail(list) \in Seq(Protected) /\ p \in Protected /\ Range(list) = Range(Tail(list)) \cup {p}
      /\ Distinct(Tail(list)) /\ p \notin Range(Tail(list))
  BY <1>1, <1>2, TailRange, TailDistinct
<1>4. /\ todo \in Seq(Protected) /\ Distinct(todo) /\ Range(todo) \subseteq Range(Tail(list))
      /\ ~told => todo = Tail(list)
  <2>1. CASE todo = Tail(list)
    BY <1>3, <2>1
  <2>2. CASE todo = <<>> /\ told
    BY <2>2 DEF Distinct, Range
  <2> QED  BY <1>2, <2>1, <2>2
<1>5. /\ cmd' \in Preparation /\ cmd'.pc = "protect" /\ cmd'.layout = cmd.layout
      /\ cmd'.todo = todo /\ cmd'.told = told /\ cmd'.stuck = cmd.stuck
  BY <1>1, <1>4 DEF PInv, PTyped, Preparation
<1>6. p \in Nodes /\ p # "chooks"
  BY <1>3, Names
<1>7. /\ cont' \in Container /\ cont'.st = "stopped" /\ cont.devs \subseteq cont'.devs
      /\ \A d \in cont'.devs : d \in cont.devs \/ (d = p /\ fs'[p] # "none")
  <2>1. fs' = Made(p) => fs'[p] # "none"
    BY <1>3, MadeKeeps DEF PInv
  <2> QED  BY <1>1, <1>6, <2>1 DEF PInv, PTyped, Container, Prepared, StateInv
<1>8. /\ fs' \in [Nodes -> Sources] /\ fs'.git = fs.git
      /\ \A e \in Nodes : fs[e] # "none" => fs'[e] # "none"
      /\ (Layout' <=> Layout)
      /\ \A q \in Protected \ {p} : Expected(q)' <=> Expected(q)
  <2>1. CASE fs' = fs
    BY <2>1 DEF PInv, PTyped, Layout, Expected
  <2>2. CASE fs' = Made(p)
    BY <1>3, <2>2, MadeKeeps DEF PInv
  <2> QED  BY <2>1, <2>2
<1>9. PTyped'
  BY <1>1, <1>5, <1>7, <1>8 DEF PInv, PTyped
<1>10. TodoInv' /\ LayoutInv'
  <2>1. TodoInv'
    BY <1>1, <1>2, <1>3, <1>4, <1>5 DEF PInv, Prepared, TodoInv
  <2>2. cmd.layout => p \notin {"hooks", "attributes"}
    BY <1>1, <1>2, <1>3 DEF PInv, Prepared, TodoInv
  <2>3. LayoutInv'
    BY <1>1, <1>5, <1>6, <1>8, <2>2 DEF PInv, Prepared, LayoutInv
  <2> QED  BY <2>1, <2>3
<1>11. AheadInv'
  <2>1. ASSUME NEW q \in Protected \ late', Expected(q)', ~told PROVE q \in cont'.devs \/ q \in Range(todo)
    <3>1. CASE q = p
      BY <2>1, <3>1
    <3>2. CASE q # p
      <4>1. q \in Protected \ late /\ Expected(q)
        BY <1>1, <1>8, <2>1, <3>2
      <4>2. q \in cont.devs \/ q \in Range(list)
        BY <1>1, <1>2, <2>1, <4>1 DEF PInv, Prepared, AheadInv
      <4> QED  BY <1>3, <1>4, <1>7, <2>1, <3>2, <4>2
    <3> QED  BY <3>1, <3>2
  <2> QED  BY <1>5, <2>1 DEF AheadInv
<1>12. FreshInv'
  <2>1. ASSUME NEW d \in cont'.devs \ cmd.stuck
        PROVE  /\ d \notin {"env", "data"} /\ fs'[d] = "none" => d \in late'
               /\ d \notin Range(todo) /\ d # "chooks"
    <3>1. CASE d = p /\ fs'[p] # "none"
      BY <1>3, <1>4, <1>6, <3>1
    <3>2. CASE d \in cont.devs
      <4>1. /\ d \notin {"env", "data"} /\ fs[d] = "none" => d \in late
            /\ d \notin Range(list) /\ d # "chooks"
        BY <1>1, <1>2, <2>1, <3>2 DEF PInv, Prepared, FreshInv
      <4>2. d \in Nodes
        BY <3>2 DEF PInv, PTyped, Container
      <4> QED  BY <1>1, <1>3, <1>4, <1>8, <4>1, <4>2
    <3> QED  BY <1>7, <2>1, <3>1, <3>2
  <2> QED  BY <1>5, <2>1 DEF FreshInv
<1> QED
  BY <1>1, <1>5, <1>7, <1>9, <1>10, <1>11, <1>12 DEF PInv, Prepared, StateInv, SinkInv, MaskInv,
     Covered, NeverWedged

\* SetupSecurityMounts ends its list only with a warning, and passes a path in
\* silence only if there is nothing to protect.
LEMMA MountsKeep ==
  ASSUME PInv, NEW p \in Protected,
         Skip(p) \/ Indirection(p) \/ GiveUp(p) \/ Mount(p) \/ MountFails(p)
  PROVE  PInv'
<1>1. Protects(p) /\ wedged' = FALSE /\ failures' \in Nat
  BY DEF Skip, Indirection, GiveUp, Mount, MountFails, Plain, Failure, PInv, PTyped, NeverWedged
<1>2. PICK c \in Preparation : c = cmd
  BY DEF PInv, PTyped
<1>3. c.told \in BOOLEAN
  BY <1>2 DEF Preparation
<1>4. CASE Skip(p)
  <2>1. /\ cmd' = [cmd EXCEPT !.todo = Tail(c.todo), !.told = c.told] /\ fs' = fs /\ cont' = cont
    BY <1>2, <1>4 DEF Skip, Preparation
  <2>2. ~(Expected(p)')
    <3>1. Absent(p) /\ ~Indirect(p)
      BY <1>4 DEF Skip, Result
    <3>2. ~Expected(p)
      BY <3>1, Names DEF Absent, Indirect, Expected, Creatable, InGit
    <3> QED  BY <2>1, <3>2 DEF Expected, Layout
  <2> QED  BY <1>1, <1>2, <1>3, <2>1, <2>2, PathKeeps
<1>5. CASE Indirection(p)
  <2>1. cmd' = [cmd EXCEPT !.todo = Tail(c.todo), !.told = TRUE] /\ fs' = fs /\ cont' = cont
    BY <1>2, <1>5 DEF Indirection
  <2> QED  BY <1>1, <1>2, <2>1, PathKeeps
<1>6. CASE GiveUp(p)
  <2>1. cmd' = [cmd EXCEPT !.todo = <<>>, !.told = TRUE] /\ fs' = fs /\ cont' = cont
    BY <1>6 DEF GiveUp
  <2> QED  BY <1>1, <2>1, PathKeeps
<1>7. CASE Mount(p)
  <2>1. /\ cmd' = [cmd EXCEPT !.todo = Tail(c.todo), !.told = c.told] /\ fs' = Made(p)
        /\ cont' = [cont EXCEPT !.devs = @ \cup {p}]
    BY <1>2, <1>7 DEF Mount, Preparation
  <2>2. p \in cont'.devs
    BY <2>1 DEF PInv, PTyped, Container
  <2> QED  BY <1>1, <1>2, <1>3, <2>1, <2>2, PathKeeps
<1>8. CASE MountFails(p)
  <2>1. cmd' = [cmd EXCEPT !.todo = <<>>, !.told = TRUE] /\ fs' = Made(p) /\ cont' = cont
    BY <1>8 DEF MountFails
  <2> QED  BY <1>1, <2>1, PathKeeps
<1> QED  BY <1>4, <1>5, <1>6, <1>7, <1>8

\* The overlay of the common directory: it is there, or was told of.
LEMMA OverlayKeeps ==
  ASSUME PInv, Overlay \/ OverlayFails
  PROVE  PInv'
<1>1. /\ cmd.pc = "protect" /\ cmd.todo = <<>> /\ UNCHANGED <<snap, reuses, edits>>
      /\ wedged' = FALSE /\ failures' \in Nat
      /\ late' = late \ (IF cmd.layout THEN {"chooks"} ELSE {})
  BY DEF Overlay, OverlayFails, Stage, Plain, Failure, Seen, PInv, PTyped, NeverWedged
<1>2. PICK told \in BOOLEAN :
        /\ cmd' = [cmd EXCEPT !.pc = "mask", !.told = told] /\ (cmd.told => told)
        /\ \/ fs' = fs /\ cont' = cont /\ (told \/ ~cmd.layout)
           \/ fs' = Made("chooks") /\ cont' = cont /\ told
           \/ fs' = Made("chooks") /\ cont' = [cont EXCEPT !.devs = @ \cup {"chooks"}]
  <2>1. CASE OverlayFails
    BY <2>1 DEF OverlayFails
  <2>2. CASE Overlay /\ cmd' = [cmd EXCEPT !.pc = "mask", !.told = TRUE]
    BY <2>2 DEF Overlay, GoOn
  <2>3. CASE Overlay /\ cmd' # [cmd EXCEPT !.pc = "mask", !.told = TRUE]
    <3>1. cmd.told \in BOOLEAN /\ [cmd EXCEPT !.pc = "mask", !.told = cmd.told] = [cmd EXCEPT !.pc = "mask"]
      BY DEF PInv, PTyped, Preparation
    <3> QED  BY <2>3, <3>1 DEF Overlay, GoOn
  <2> QED  BY <2>1, <2>2, <2>3
<1>3. /\ cmd' \in Preparation /\ cmd'.pc = "mask" /\ cmd'.layout = cmd.layout
      /\ cmd'.todo = <<>> /\ cmd'.told = told /\ cmd'.stuck = cmd.stuck
  BY <1>1, <1>2 DEF PInv, PTyped, Preparation
<1>4. /\ fs' \in [Nodes -> Sources] /\ fs'.git = fs.git
      /\ \A e \in Nodes : fs[e] # "none" => fs'[e] # "none"
      /\ (Layout' <=> Layout) /\ Secrets' = Secrets
      /\ \A q \in Protected : Expected(q)' <=> Expected(q)
      /\ fs' = Made("chooks") => fs'["chooks"] # "none"
  <2>1. CASE fs' = fs
    <3>1. fs' = Made("chooks") => fs'["chooks"] # "none"
      BY MadeKeeps DEF PInv
    <3> QED  BY <2>1, <3>1 DEF PInv, PTyped, Layout, Expected, Secrets
  <2>2. CASE fs' = Made("chooks")
    BY <2>2, MadeKeeps, Names DEF PInv
  <2> QED  BY <1>2, <2>1, <2>2
<1>5. /\ cont' \in Container /\ cont'.st = "stopped" /\ cont.devs \subseteq cont'.devs
      /\ \A d \in cont'.devs : d \in cont.devs \/ (d = "chooks" /\ fs'[d] # "none")
  BY <1>1, <1>2, <1>4, Names DEF PInv, PTyped, Container, Prepared, StateInv
<1>6. PTyped'
  BY <1>1, <1>3, <1>4, <1>5 DEF PInv, PTyped
<1>7. TodoInv' /\ LayoutInv'
  BY <1>1, <1>3, <1>4 DEF PInv, Prepared, TodoInv, LayoutInv
<1>8. AheadInv'
  <2>1. ASSUME NEW q \in Protected \ late', Expected(q)', ~told PROVE q \in cont'.devs
    <3>1. q \in Protected \ late /\ Expected(q)
      BY <1>1, <1>4, <2>1, Names
    <3> QED  BY <1>1, <1>2, <1>5, <2>1, <3>1 DEF PInv, Prepared, AheadInv, Range
  <2> QED  BY <1>3, <2>1 DEF AheadInv
<1>9. SinkInv'
  <2>1. ASSUME Layout, ~told PROVE "chooks" \in late' \cup cont'.devs
    <3>1. CASE cmd.layout
      BY <1>2, <2>1, <3>1 DEF PInv, PTyped, Container
    <3>2. CASE ~cmd.layout
      BY <1>1, <2>1, <3>2 DEF PInv, Prepared, LayoutInv
    <3> QED  BY <3>1, <3>2
  <2> QED  BY <1>3, <1>4, <2>1 DEF SinkInv
<1>10. FreshInv'
  <2>1. ASSUME NEW d \in cont'.devs \ cmd.stuck
        PROVE  d \notin {"env", "data"} /\ fs'[d] = "none" => d \in late'
    <3>1. CASE d \in cont.devs
      <4>1. (d \notin {"env", "data"} /\ fs[d] = "none" => d \in late) /\ d # "chooks" /\ d \in Nodes
        BY <1>1, <2>1, <3>1 DEF PInv, Prepared, FreshInv, PTyped, Container
      <4> QED  BY <1>1, <1>4, <4>1
    <3> QED  BY <1>5, <2>1, <3>1
  <2> QED  BY <1>3, <2>1 DEF FreshInv, Range
<1> QED
  BY <1>3, <1>5, <1>1, <1>6, <1>7, <1>8, <1>9, <1>10 DEF PInv, Prepared, StateInv, MaskInv,
     Covered, NeverWedged

\* The masks of the secrets, when they can be set.
LEMMA MaskKeeps ==
  ASSUME PInv, Mask, ~Leaves
  PROVE  PInv'
<1>1. /\ cmd.pc = "mask" /\ UNCHANGED <<fs, snap, reuses, edits, failures>> /\ late' = late \ {"env"}
      /\ cont' = [cont EXCEPT !.devs = @ \cup Secrets] /\ wedged' = FALSE
      /\ cmd' = [cmd EXCEPT !.pc = "start", !.told = @ \/ Skipped]
  BY DEF Mask, Stage, Plain, Seen, PInv, PTyped, NeverWedged
<1>2. Secrets \subseteq {"env", "data"} /\ Secrets \subseteq Nodes
  BY Names DEF Secrets
<1>3. /\ cmd' \in Preparation /\ cmd'.pc = "start" /\ cmd'.layout = cmd.layout
      /\ cmd'.todo = cmd.todo /\ (cmd.told => cmd'.told) /\ cmd'.stuck = cmd.stuck
  BY <1>1 DEF PInv, PTyped, Preparation, Skipped
<1>4. cont' \in Container /\ cont'.st = "stopped" /\ cont'.devs = cont.devs \cup Secrets
  BY <1>1, <1>2 DEF PInv, PTyped, Container, Prepared, StateInv
<1>5. PTyped'
  BY <1>1, <1>3, <1>4 DEF PInv, PTyped
<1>6. "env" \notin Protected /\ cmd.todo = <<>>
  BY <1>1, Names DEF PInv, Prepared, TodoInv
<1>7. TodoInv' /\ LayoutInv'
  BY <1>1, <1>3, <1>6 DEF PInv, Prepared, TodoInv, LayoutInv, Layout
<1>8. AheadInv' /\ SinkInv'
  BY <1>1, <1>3, <1>4, <1>6 DEF PInv, Prepared, AheadInv, SinkInv, Expected, Layout
<1>9. MaskInv'
  BY <1>1, <1>3, <1>4 DEF MaskInv, Secrets
<1>10. FreshInv'
  <2>1. Range(cmd.todo) = {} /\ Range(cmd'.todo) = {}
    BY <1>3, <1>6 DEF Range
  <2>2. ASSUME NEW d \in cont.devs \ cmd.stuck
        PROVE  d \in late' \cup {"env", "data"} \/ fs[d] # "none"
    BY <1>1, <2>1 DEF PInv, Prepared, FreshInv
  <2> QED  BY <1>1, <1>2, <1>3, <1>4, <2>1, <2>2 DEF FreshInv
<1> QED
  BY <1>1, <1>3, <1>4, <1>5, <1>7, <1>8, <1>9, <1>10 DEF PInv, Prepared, StateInv, Covered, NeverWedged

\* The start finds every path covered or told of, which is Covered.
LEMMA StartContKeeps ==
  ASSUME PInv, StartCont
  PROVE  PInv'
<1>1. /\ cmd.pc = "start" /\ UNCHANGED <<fs, late, snap, reuses, edits, failures>> /\ wedged' = FALSE
      /\ cont' = [cont EXCEPT !.st = "running", !.by = "coi", !.told = cmd.told] /\ cmd' = NoCmd
  BY DEF StartCont, Stage, Plain, PInv, PTyped, NeverWedged
<1>2. cont' \in Container /\ cont'.devs = cont.devs /\ cont'.told = cmd.told
  BY <1>1 DEF PInv, PTyped, Container, Preparation
<1>3. PTyped'
  BY <1>1, <1>2, NothingYet DEF PInv, PTyped
<1>4. Covered'
  <2>1. ASSUME NEW p \in (Protected \cup {"chooks"}) \ late, Expected(p), ~cmd.told PROVE p \in cont.devs
    <3>1. CASE p = "chooks"
      <4>1. Layout
        BY <2>1, <3>1 DEF Expected
      <4> QED  BY <1>1, <2>1, <3>1, <4>1 DEF PInv, Prepared, SinkInv
    <3>2. CASE p # "chooks"
      <4>1. cmd.todo = <<>>
        BY <1>1 DEF PInv, Prepared, TodoInv
      <4> QED  BY <1>1, <2>1, <3>2, <4>1 DEF PInv, Prepared, AheadInv, Range
    <3> QED  BY <3>1, <3>2
  <2>2. late \cap {"env", "data"} = {} => Secrets \subseteq cont.devs
    BY <1>1 DEF PInv, Prepared, MaskInv
  <2> QED  BY <1>1, <1>2, <2>1, <2>2 DEF Covered, Expected, Layout, Secrets
<1> QED
  BY <1>1, <1>3, <1>4, NothingYet DEF PInv, Prepared, StateInv, TodoInv, LayoutInv, AheadInv, SinkInv,
     MaskInv, FreshInv, NeverWedged

-----------------------------------------------------------------------------
(* The host or the agent changes an entry: whatever depends on it is late.  *)

\* What the host or the agent changes is late, so no device is blamed for it.
LEMMA EditKeeps ==
  ASSUME PInv, HostEdit
  PROVE  PInv'
<1>0. PICK e \in Nodes : \E k \in Kinds(e) : Becomes(e, k)
  BY DEF HostEdit
<1>1. PICK k \in Kinds(e) : Becomes(e, k)
  BY <1>0
<1>2. /\ fs' = [x \in Nodes |-> IF x = e THEN k ELSE IF e \in Over(x) THEN "none" ELSE fs[x]]
      /\ late' = late \cup {x \in Nodes : x = e \/ e \in Over(x) \/ (e = "git" /\ x = "chooks")}
      /\ UNCHANGED <<cont, cmd, wedged, snap, reuses, failures>> /\ edits' = edits + 1
      /\ k # fs[e]
  BY <1>1 DEF Becomes
<1>3. k \in Sources
  BY DEF Kinds, Sources
<1>4. PTyped'
  BY <1>2, <1>3 DEF PInv, PTyped, Sources
<1>5. \A x \in Nodes : x \in late' \/ (fs'[x] = fs[x] /\ x # e /\ e \notin Over(x))
  BY <1>2
<1>6. ASSUME NEW q \in (Protected \cup {"chooks"}) \ late' PROVE Expected(q)' <=> Expected(q)
  <2>1. q \in Nodes /\ fs'[q] = fs[q] /\ e # q /\ e \notin Over(q) /\ (q = "chooks" => e # "git")
    BY <1>2, <1>5, Names
  <2>2. CASE q = "chooks"
    <3>1. fs'["git"] = fs["git"] /\ fs'["common"] = fs["common"]
      BY <1>2, <2>1, <2>2, Names, Parents
    <3> QED  BY <2>2, <3>1 DEF Expected, Layout
  <2>3. CASE q \in InGit
    <3>1. fs'["git"] = fs["git"] /\ (q = "attributes" => fs'["info"] = fs["info"])
      <4>1. e # "git" /\ (q = "attributes" => e # "info")
        BY <2>1, <2>3, Parents DEF InGit
      <4>2. Over("info") = {"git"}
        BY DEF Over, Above, Below
      <4> QED  BY <1>2, <4>1, <4>2, Names, Parents
    <3> QED  BY <2>1, <2>3, <3>1 DEF Expected, InGit
  <2>4. CASE q \notin InGit /\ q # "chooks"
    BY <2>1, <2>4, Names DEF Expected, InGit
  <2> QED  BY <2>2, <2>3, <2>4
<1>7. {"env", "data"} \cap late' = {} => Secrets' = Secrets
  <2>1. "env" \notin late' => fs'["env"] = fs["env"]
    BY <1>5, Names
  <2> QED  BY <2>1 DEF Secrets
<1>8. Layout' => Layout \/ "chooks" \in late'
  <2>1. "chooks" \notin late' => fs'["git"] = fs["git"] /\ fs'["common"] = fs["common"]
    BY <1>2, Names, Parents
  <2> QED  BY <2>1 DEF Layout
<1>9. fs'["git"] = "dir" => fs["git"] = "dir" \/ {"hooks", "attributes"} \subseteq late'
  BY <1>2, Names, Parents
<1>10. late \subseteq late'
  BY <1>2
<1>11. LayoutInv' /\ SinkInv' /\ MaskInv'
  BY <1>2, <1>7, <1>8, <1>9, <1>10 DEF PInv, Prepared, LayoutInv, SinkInv, MaskInv
<1>12. AheadInv'
  BY <1>2, <1>6, <1>10 DEF PInv, Prepared, AheadInv
<1>13. FreshInv'
  <2>1. ASSUME NEW d \in cont.devs, fs'[d] = "none", fs[d] = "none" => d \in late PROVE d \in late'
    BY <1>5, <1>10, <2>1 DEF PInv, PTyped, Container
  <2> QED  BY <1>2, <2>1 DEF PInv, Prepared, FreshInv
<1>14. Covered'
  BY <1>2, <1>6, <1>7, <1>10 DEF PInv, Covered
<1> QED
  BY <1>2, <1>4, <1>11, <1>12, <1>13, <1>14 DEF PInv, Prepared, StateInv, TodoInv, NeverWedged

\* Every step keeps the invariant.
LEMMA ProtectionNext == PInv /\ [PNext]_pvars => PInv'
<1> SUFFICES ASSUME PInv, [PNext]_pvars PROVE PInv'
  OBVIOUS
<1>1. CASE UNCHANGED pvars
  BY <1>1 DEF pvars, PInv, PTyped, Prepared, StateInv, TodoInv, LayoutInv, AheadInv, SinkInv, MaskInv,
     FreshInv, Covered, NeverWedged, Expected, Layout, Secrets
<1>2. CASE Begin \/ Strip \/ StripFails
  BY <1>2, BeginKeeps, StripsKeeps
<1>3. ASSUME NEW p \in Protected,
             Skip(p) \/ Indirection(p) \/ GiveUp(p) \/ Mount(p) \/ MountFails(p)
      PROVE  PInv'
  BY <1>3, MountsKeep
<1>4. CASE Overlay \/ OverlayFails \/ Mask \/ MaskFails
  BY <1>4, OverlayKeeps, MaskKeeps, FailedKeeps
<1>5. CASE StartCont \/ StartRefused \/ StartContFails \/ Cut
  BY <1>5, StartContKeeps, FailedKeeps
<1>6. CASE Stop \/ Discard \/ ByHand \/ TakeSnapshot \/ RevertDevices \/ HostEdit
  BY <1>6, BetweenKeeps, EditKeeps
<1> QED  BY <1>1, <1>2, <1>3, <1>4, <1>5, <1>6 DEF PNext

\* Type correctness of the workspace, the container and the command.
THEOREM ProtectionTypeCorrect == PSpec => []PTyped
<1>1. PInv => PTyped
  BY DEF PInv
<1> QED  BY <1>1, ProtectionInit, ProtectionNext, PTL DEF PSpec

\* Covered: whatever the workspace is and becomes, a container that coi
\* started has its protected paths and its secrets covered, but for a warning
\* or what changed since (SetupSecurityMounts, SetupSecretMasks).
THEOREM AlwaysCovered == PSpec => []Covered
<1>1. PInv => Covered
  BY DEF PInv
<1> QED  BY <1>1, ProtectionInit, ProtectionNext, PTL DEF PSpec

\* NeverWedged: no container is kept from starting by the device of a path
\* that was gone before the command began (StripSecurityDevices).
THEOREM AlwaysStartable == PSpec => []NeverWedged
<1>1. PInv => NeverWedged
  BY DEF PInv
<1> QED  BY <1>1, ProtectionInit, ProtectionNext, PTL DEF PSpec

-----------------------------------------------------------------------------
(* Published ports: types, and what a plan consists of.                     *)

Device == [name : {"pool", "auto", "pin"}, host : Nat]
Vessel == [st : {"none", "stopped", "running"}, devs : SUBSET Device]
Visitor == [pc : {"idle", "strip", "resolve", "start", "publish", "on"}, b : Boxes \cup {"none"},
            way : {"none", "shell", "run"}, plan : Seq(Device), env : SUBSET Device,
            stuck : SUBSET Device, missed : BOOLEAN, shaken : BOOLEAN, outdated : BOOLEAN]

\* Types, for the steps of the proof.
RTyped ==
  /\ box \in [Boxes -> Vessel] /\ shell \in [Shells -> Visitor]
  /\ taken \in SUBSET Nat /\ wish \in [Boxes -> Wishes]
  /\ launches \in Nat /\ changes \in Nat

\* A search among the free ports finds one of them.
LEMMA FirstIn ==
  ASSUME NEW i \in Nat \ {0}, NEW bound, FreeIn(i, bound) # {}
  PROVE  First(FreeIn(i, bound)) \in FreeIn(i, bound) /\ FreeIn(i, bound) \subseteq DOMAIN Numbers
<1>1. Len(Numbers) \in Nat /\ DOMAIN Numbers = 1..Len(Numbers)
  BY PortsAssumption
<1>2. FreeIn(i, bound) \in SUBSET Nat /\ FreeIn(i, bound) \subseteq DOMAIN Numbers
  BY <1>1 DEF FreeIn
<1>3. \E j \in FreeIn(i, bound) : \A k \in FreeIn(i, bound) : j <= k
  BY <1>2, Least
<1> QED  BY <1>2, <1>3 DEF First

\* A plan that is possible is a list of devices.
LEMMA PlanTyped ==
  ASSUME NEW w \in Wishes, NEW bound, Possible(w, bound)
  PROVE  PlanOf(w, bound) \in Seq(Device)
<1>1. w \in Wish /\ Numbers \in Seq(Nat)
  BY PortsAssumption
<1>2. PoolAt(w, bound) \in Nat /\ (w.pool = 1 => PoolAt(w, bound) \in DOMAIN Numbers)
  BY <1>1, FirstIn DEF PoolAt, Possible, Wish
<1>3. w.auto => AutoAt(w, bound) \in DOMAIN Numbers
  <2>1. PoolAt(w, bound) + 1 \in Nat \ {0}
    BY <1>2
  <2> QED  BY <2>1, FirstIn DEF AutoAt, Possible
<1> DEFINE a == IF w.pool = 1 THEN <<[name |-> "pool", host |-> Numbers[PoolAt(w, bound)]]>> ELSE <<>>
           b == IF w.auto THEN <<[name |-> "auto", host |-> Numbers[AutoAt(w, bound)]]>> ELSE <<>>
           c == IF w.pin # 0 THEN <<[name |-> "pin", host |-> w.pin]>> ELSE <<>>
<1>4. \A d \in Device : <<d>> \in Seq(Device)
  OBVIOUS
<1>5. <<>> \in Seq(Device)
  OBVIOUS
<1>6. /\ w.pool = 1 => [name |-> "pool", host |-> Numbers[PoolAt(w, bound)]] \in Device
      /\ w.auto => [name |-> "auto", host |-> Numbers[AutoAt(w, bound)]] \in Device
      /\ [name |-> "pin", host |-> w.pin] \in Device
  <2>1. /\ \A n \in Nat : [name |-> "pool", host |-> n] \in Device
        /\ \A n \in Nat : [name |-> "auto", host |-> n] \in Device
        /\ \A n \in Nat : [name |-> "pin", host |-> n] \in Device
    BY DEF Device
  <2>2. w.pin \in Nat
    BY <1>1 DEF Wish
  <2>3. \A i \in DOMAIN Numbers : Numbers[i] \in Nat
    BY <1>1
  <2> QED  BY <1>2, <1>3, <2>1, <2>2, <2>3
<1>8. a \in Seq(Device) /\ b \in Seq(Device) /\ c \in Seq(Device)
  BY <1>4, <1>5, <1>6
<1>7. PlanOf(w, bound) = a \o b \o c
  BY DEF PlanOf
<1> HIDE DEF a, b, c
<1> QED  BY <1>7, <1>8

-----------------------------------------------------------------------------
(* The inductive invariant.                                                 *)

\* What all but the container itself hold, and what is looked for next to it.
Elsewhere(b) == taken \cup UNION {Held(c) : c \in Boxes \ {b}}
Full(b) == Range(PlanOf(wish[b], Elsewhere(b)))

SettingUp(r) == r.pc \notin {"idle", "on"}
\* The plan has been made.
Resolved(r) == \/ r.pc \in {"publish", "on"}
               \/ r.pc = "start" /\ (box[r.b].st = "none" \/ r.way = "run")

\* A container is set up by one command at a time.
SoloInv == \A p, q \in Shells :
  p # q /\ SettingUp(shell[p]) /\ SettingUp(shell[q]) => shell[p].b # shell[q].b
\* A command refused by a running container never gets to resolve; one that
\* publishes, or is on, is in a container that runs.
Placed(r) ==
  /\ r.pc # "idle" => r.b \in Boxes /\ r.way \in {"shell", "run"}
  /\ r.pc = "resolve" /\ r.way = "shell" => box[r.b].st # "stopped"
  /\ r.pc = "start" => box[r.b].st # "running"
  /\ r.pc \in {"publish", "on"} => box[r.b].st = "running"
  /\ r.pc = "on" => r.plan = <<>>
\* The container has the devices that were published, and those that stuck.
Furnished(r) ==
  /\ r.pc \in {"strip", "resolve", "start"} => r.env = {} /\ ~r.missed
  /\ r.pc \in {"resolve", "start"} => box[r.b].devs \subseteq r.stuck
  /\ r.pc = "publish" => r.env \subseteq box[r.b].devs /\ box[r.b].devs \subseteq r.env \cup r.stuck
\* Without a change since, what is published and still to come is what would
\* be planned now.
Planned(r) ==
  Resolved(r) /\ ~r.shaken =>
    /\ r.env \cup Range(r.plan) \subseteq Full(r.b)
    /\ ~r.missed => Full(r.b) \subseteq r.env \cup Range(r.plan)
Stuck(r) == r.pc # "idle" /\ r.stuck # {} => r.shaken
ShellInv == \A p \in Shells : Placed(shell[p]) /\ Furnished(shell[p]) /\ Planned(shell[p]) /\ Stuck(shell[p])
EmptyInv == \A b \in Boxes : box[b].st = "none" => box[b].devs = {}
\* What happens to a command that sets up a container happens to those in it.
FollowInv == \A p, q \in Shells :
  shell[p].pc = "on" /\ SettingUp(shell[q]) /\ shell[q].b = shell[p].b /\ (shell[q].shaken \/ shell[q].missed)
    => shell[p].shaken

RInv == RTyped /\ SoloInv /\ ShellInv /\ EmptyInv /\ FollowInv /\ Truthful

\* Nobody, and no container, are of the types.
LEMMA NoShellTyped == NoShell \in Visitor /\ NoBox \in Vessel
<1>1. <<>> \in Seq(Device)
  OBVIOUS
<1> QED  BY <1>1 DEF NoShell, NoBox, Visitor, Vessel

\* At first nobody is there.
LEMMA PortsInit == RInit => RInv
<1> SUFFICES ASSUME RInit PROVE RInv
  OBVIOUS
<1>1. RTyped
  BY NoShellTyped DEF RInit, RTyped
<1>2. /\ \A p \in Shells : shell[p] = NoShell
      /\ \A b \in Boxes : box[b] = NoBox
  BY DEF RInit
<1>3. SoloInv /\ EmptyInv /\ FollowInv /\ Truthful
  BY <1>2 DEF SoloInv, EmptyInv, FollowInv, Truthful, NoShell, NoBox, SettingUp
<1>4. ShellInv
  BY <1>2 DEF ShellInv, Placed, Furnished, Planned, Stuck, NoShell, Resolved
<1> QED  BY <1>1, <1>3, <1>4 DEF RInv

-----------------------------------------------------------------------------
(* What a step leaves as it is.                                             *)

\* The same command; it only learns of changes.
Same(x, y) ==
  /\ y.pc = x.pc /\ y.b = x.b /\ y.way = x.way /\ y.plan = x.plan /\ y.env = x.env
  /\ y.stuck = x.stuck /\ y.missed = x.missed
  /\ (x.shaken => y.shaken) /\ (x.outdated => y.outdated)

\* Shake changes nothing else.
LEMMA ShakeDoes ==
  ASSUME NEW r \in [Shells -> Visitor], NEW bs
  PROVE  /\ Shake(r, bs) \in [Shells -> Visitor]
         /\ \A q \in Shells : /\ Same(r[q], Shake(r, bs)[q])
                              /\ Shake(r, bs)[q].outdated = r[q].outdated
                              /\ Shake(r, bs)[q].shaken <=> (r[q].shaken \/ r[q].b \in bs)
<1>1. ASSUME NEW q \in Shells
      PROVE  /\ [r[q] EXCEPT !.shaken = @ \/ r[q].b \in bs] \in Visitor
             /\ Same(r[q], [r[q] EXCEPT !.shaken = @ \/ r[q].b \in bs])
             /\ [r[q] EXCEPT !.shaken = @ \/ r[q].b \in bs].outdated = r[q].outdated
             /\ [r[q] EXCEPT !.shaken = @ \/ r[q].b \in bs].shaken <=> (r[q].shaken \/ r[q].b \in bs)
  <2>1. r[q] \in Visitor
    OBVIOUS
  <2> QED  BY <2>1 DEF Visitor, Same
<1> QED  BY <1>1 DEF Shake

\* Outdate changes nothing else.
LEMMA OutdateDoes ==
  ASSUME NEW r \in [Shells -> Visitor], NEW b
  PROVE  /\ Outdate(r, b) \in [Shells -> Visitor]
         /\ \A q \in Shells : /\ Same(r[q], Outdate(r, b)[q])
                              /\ Outdate(r, b)[q].shaken = r[q].shaken
                              /\ r[q].b = b /\ r[q].shaken => Outdate(r, b)[q].outdated
                              /\ r[q].b # b => Outdate(r, b)[q].outdated = r[q].outdated
<1>1. ASSUME NEW q \in Shells
      PROVE  LET x == [r[q] EXCEPT !.outdated = @ \/ (r[q].b = b /\ r[q].shaken)] IN
             /\ x \in Visitor /\ Same(r[q], x) /\ x.shaken = r[q].shaken
             /\ r[q].b = b /\ r[q].shaken => x.outdated
             /\ r[q].b # b => x.outdated = r[q].outdated
  <2>1. r[q] \in Visitor
    OBVIOUS
  <2> QED  BY <2>1 DEF Visitor, Same
<1> QED  BY <1>1 DEF Outdate

\* The ports beside a container are the same if the other ones hold the same.
LEMMA FullSame ==
  ASSUME NEW b \in Boxes, taken' = taken, wish'[b] = wish[b],
         \A c \in Boxes \ {b} : Held(c)' = Held(c)
  PROVE  Full(b)' = Full(b)
<1>1. {Held(c)' : c \in Boxes \ {b}} = {Held(c) : c \in Boxes \ {b}}
  OBVIOUS
<1>2. Elsewhere(b)' = Elsewhere(b)
  BY <1>1 DEF Elsewhere
<1> QED  BY <1>2 DEF Full

\* A container that stays as it is holds what it held.
LEMMA HeldSame ==
  ASSUME NEW b, box'[b] = box[b]
  PROVE  Held(b)' = Held(b)
  BY DEF Held

\* What the property says of one session.
TruthAt(r) == /\ r.env \subseteq box[r.b].devs
              /\ ~r.missed => box[r.b].devs \subseteq r.env \cup r.stuck

\* That is what it says.
LEMMA TruthfulIs ==
  Truthful <=> \A p \in Shells :
    shell[p].pc = "on" /\ ~shell[p].outdated /\ ~InSetup(shell[p].b) => TruthAt(shell[p])
  BY DEF Truthful, TruthAt

\* A step of one command, p, in one container, b: the others notice at most that
\* something changed, and do so in all of a container.
Moves(p, b, bs) ==
  /\ taken' = taken /\ wish' = wish
  /\ \A c \in Boxes \ {b} : box'[c] = box[c]
  /\ box'[b].st = "none" => box'[b].devs = {}
  /\ box[b].st = "running" => box'[b].st = "running"
  /\ shell[p].pc # "idle" => shell[p].b = b
  /\ shell'[p].pc # "idle" => shell'[p].b = b
  /\ SettingUp(shell[p]) \/ ~InSetup(b)
  /\ shell'[p].pc = "on" => SettingUp(shell[p])
  /\ \A q \in Shells \ {p} :
       /\ Same(shell[q], shell'[q])
       /\ shell[q].b # b => shell'[q].outdated = shell[q].outdated
       /\ shell'[q].shaken <=> (shell[q].shaken \/ shell[q].b \in bs)
\* What the step owes: to the ports of the other containers, to the command
\* itself, and to those that are on in its container.
Owes(p, b, bs) ==
  /\ Held(b)' = Held(b) \/ Boxes \ {b} \subseteq bs
  /\ (Placed(shell[p]) /\ Furnished(shell[p]) /\ Planned(shell[p]) /\ Stuck(shell[p]))'
  /\ \A q \in Shells \ {p} :
       shell[q].pc = "on" /\ shell[q].b = b /\ SettingUp(shell'[p]) /\ (shell'[p].shaken \/ shell'[p].missed)
         => shell'[q].shaken
  /\ ~SettingUp(shell'[p]) =>
       \A q \in Shells : shell'[q].pc = "on" /\ shell'[q].b = b /\ ~shell'[q].outdated => TruthAt(shell[q])'

\* Such a step keeps the invariant.
LEMMA MoveKeeps ==
  ASSUME RInv, RTyped', NEW p \in Shells, NEW b \in Boxes, NEW bs, Moves(p, b, bs), Owes(p, b, bs)
  PROVE  RInv'
<1> USE DEF Moves, Owes
<1>1. \A q \in Shells : shell[q] \in Visitor /\ shell'[q] \in Visitor
  BY DEF RInv, RTyped
<1>2. \A q \in Shells \ {p} : SettingUp(shell[q]) => shell[q].b # b
  BY DEF RInv, SoloInv, InSetup, SettingUp
<1>3. \A q \in Shells \ {p} : SettingUp(shell'[q]) <=> SettingUp(shell[q])
  BY DEF Same, SettingUp
<1>4. SoloInv'
  BY <1>2, <1>3 DEF RInv, SoloInv, Same, SettingUp
<1>5. EmptyInv'
  BY DEF RInv, EmptyInv
<1>6. ASSUME NEW q \in Shells \ {p}, shell[q].pc # "idle"
      PROVE  /\ shell[q].b \in Boxes /\ shell'[q].b = shell[q].b
             /\ shell[q].b # b => box'[shell[q].b] = box[shell[q].b]
             /\ shell[q].b = b => shell[q].pc = "on"
             /\ shell'[q].shaken \/ Full(shell[q].b)' = Full(shell[q].b)
  <2>1. shell[q].b \in Boxes
    BY <1>6 DEF RInv, ShellInv, Placed
  <2>2. PICK c \in Boxes : c = shell[q].b
    BY <2>1
  <2>3. CASE c = b
    <3>1. \A d \in Boxes \ {c} : Held(d)' = Held(d)
      BY <2>3, HeldSame
    <3>2. Full(c)' = Full(c)
      BY <3>1, FullSame
    <3> QED  BY <1>2, <1>6, <2>2, <2>3, <3>2 DEF Same, SettingUp
  <2>4. CASE c # b
    <3>1. CASE Held(b)' = Held(b)
      <4>1. \A d \in Boxes \ {c} : Held(d)' = Held(d)
        BY <3>1, HeldSame
      <4>2. Full(c)' = Full(c)
        BY <4>1, FullSame
      <4> QED  BY <2>2, <2>4, <4>2 DEF Same
    <3>2. CASE Boxes \ {b} \subseteq bs
      BY <2>2, <2>4, <3>2 DEF Same
    <3> QED  BY <3>1, <3>2
  <2> QED  BY <2>3, <2>4
<1>7. ASSUME NEW q \in Shells \ {p}
      PROVE  (Placed(shell[q]) /\ Furnished(shell[q]) /\ Planned(shell[q]) /\ Stuck(shell[q]))'
  <2>1. Placed(shell[q]) /\ Furnished(shell[q]) /\ Planned(shell[q]) /\ Stuck(shell[q])
    BY DEF RInv, ShellInv
  <2>2. Same(shell[q], shell'[q])
    OBVIOUS
  <2>3. Placed(shell[q])'
    BY <1>6, <2>1, <2>2 DEF Placed, Same
  <2>4. Furnished(shell[q])'
    BY <1>6, <2>1, <2>2 DEF Furnished, Same
  <2>5. Stuck(shell[q])'
    BY <2>1, <2>2 DEF Stuck, Same
  <2>6. Planned(shell[q])'
    <3>1. SUFFICES ASSUME Resolved(shell[q])', ~shell'[q].shaken PROVE Planned(shell[q])'
      BY DEF Planned
    <3>2. Resolved(shell[q]) /\ ~shell[q].shaken /\ shell[q].pc # "idle"
      BY <1>6, <2>2, <3>1 DEF Resolved, Same
    <3>3. Full(shell[q].b)' = Full(shell[q].b) /\ shell'[q].b = shell[q].b
      BY <1>6, <3>1, <3>2
    <3> QED  BY <2>1, <2>2, <3>2, <3>3 DEF Planned, Same
  <2> QED  BY <2>3, <2>4, <2>5, <2>6
<1>8. ShellInv'
  BY <1>7 DEF ShellInv
<1>9. FollowInv'
  <2>1. ASSUME NEW d \in Shells, NEW q \in Shells, shell'[d].pc = "on", SettingUp(shell'[q]),
               shell'[q].b = shell'[d].b, shell'[q].shaken \/ shell'[q].missed
        PROVE  shell'[d].shaken
    <3>1. d # q
      BY <2>1 DEF SettingUp
    <3>2. CASE d # p /\ q # p
      BY <1>3, <2>1, <3>2 DEF RInv, FollowInv, Same
    <3>3. CASE q = p
      BY <2>1, <3>1, <3>3 DEF Same, SettingUp
    <3>4. CASE d = p
      BY <1>2, <1>3, <2>1, <3>1, <3>4 DEF Same
    <3> QED  BY <3>2, <3>3, <3>4
  <2> QED  BY <2>1 DEF FollowInv
<1>10. Truthful'
  <2>1. ASSUME NEW q \in Shells, shell'[q].pc = "on", ~shell'[q].outdated, ~InSetup(shell[q].b)'
        PROVE  TruthAt(shell[q])'
    <3>1. CASE shell'[q].b = b
      <4>1. ~SettingUp(shell'[p])
        BY <2>1, <3>1 DEF InSetup, SettingUp
      <4> QED  BY <2>1, <3>1, <4>1
    <3>2. CASE shell'[q].b # b
      <4>1. q # p
        BY <2>1, <3>2
      <4>2. shell[q].pc = "on" /\ shell[q].b # b /\ ~shell[q].outdated /\ shell'[q].b = shell[q].b
        BY <2>1, <3>2, <4>1 DEF Same
      <4>3. ~InSetup(shell[q].b)
        <5>1. SUFFICES ASSUME NEW e \in Shells, shell[e].b = shell[q].b, SettingUp(shell[e]) PROVE FALSE
          BY DEF InSetup, SettingUp
        <5>2. e # p
          BY <4>2, <5>1 DEF SettingUp
        <5> QED  BY <1>3, <2>1, <4>2, <5>1, <5>2 DEF InSetup, SettingUp, Same
      <4>4. TruthAt(shell[q])
        BY <4>2, <4>3, TruthfulIs DEF RInv
      <4> QED  BY <1>6, <4>1, <4>2, <4>4 DEF TruthAt, Same
    <3> QED  BY <3>1, <3>2
  <2>2. \A q \in Shells : (shell[q].pc = "on" /\ ~shell[q].outdated /\ ~InSetup(shell[q].b) => TruthAt(shell[q]))'
    BY <2>1
  <2> QED  BY <2>2 DEF Truthful, TruthAt
<1> QED  BY <1>4, <1>5, <1>8, <1>9, <1>10 DEF RInv

\* A step of the world, or of a command that ends with its container: those of
\* the containers in gone are over, the others notice at most a change.
LEMMA WorldKeeps ==
  ASSUME RInv, RTyped', NEW gone \in SUBSET Boxes, NEW bs,
         \A c \in Boxes : box'[c].st = "none" => box'[c].devs = {},
         \A q \in Shells : shell[q].pc = "idle" \/ shell[q].b \in gone => shell'[q].pc = "idle",
         \A q \in Shells : shell[q].pc # "idle" /\ shell[q].b \notin gone =>
           /\ Same(shell[q], shell'[q])
           /\ shell'[q].outdated = shell[q].outdated
           /\ shell'[q].shaken <=> (shell[q].shaken \/ shell[q].b \in bs)
           /\ box'[shell[q].b] = box[shell[q].b],
         \A c \in Boxes \ (gone \cup bs) : Full(c)' = Full(c)
  PROVE  RInv'
<1> DEFINE Stays(q) == shell[q].pc # "idle" /\ shell[q].b \notin gone
<1>1. ASSUME NEW q \in Shells, shell'[q].pc # "idle" PROVE Stays(q)
  BY <1>1
<1>2. SoloInv'
  BY <1>1 DEF RInv, SoloInv, Same, SettingUp
<1>3. EmptyInv'
  BY DEF EmptyInv
<1>4. ASSUME NEW q \in Shells, Stays(q)
      PROVE  (Placed(shell[q]) /\ Furnished(shell[q]) /\ Planned(shell[q]) /\ Stuck(shell[q]))'
  <2>1. Placed(shell[q]) /\ Furnished(shell[q]) /\ Planned(shell[q]) /\ Stuck(shell[q])
    BY DEF RInv, ShellInv
  <2>2. Same(shell[q], shell'[q]) /\ box'[shell[q].b] = box[shell[q].b] /\ shell[q].b \in Boxes
    BY <1>4, <2>1 DEF Placed
  <2>3. Placed(shell[q])' /\ Furnished(shell[q])' /\ Stuck(shell[q])'
    BY <2>1, <2>2 DEF Placed, Furnished, Stuck, Same
  <2>4. Planned(shell[q])'
    <3>1. SUFFICES ASSUME Resolved(shell[q])', ~shell'[q].shaken PROVE Planned(shell[q])'
      BY DEF Planned
    <3>2. Resolved(shell[q]) /\ ~shell[q].shaken
      BY <2>2, <3>1 DEF Resolved, Same
    <3>3. Full(shell[q].b)' = Full(shell[q].b)
      <4>1. PICK c \in Boxes : c = shell[q].b
        BY <2>2
      <4>2. c \notin gone /\ c \notin bs
        BY <1>4, <3>1, <4>1
      <4>3. Full(c)' = Full(c) /\ shell'[q].b = shell[q].b
        BY <2>2, <4>2 DEF Same
      <4> QED  BY <4>1, <4>3
    <3> QED  BY <2>1, <2>2, <3>2, <3>3 DEF Planned, Same
  <2> QED  BY <2>3, <2>4
<1>5. ShellInv'
  <2>1. ASSUME NEW q \in Shells, shell'[q].pc = "idle"
        PROVE  (Placed(shell[q]) /\ Furnished(shell[q]) /\ Planned(shell[q]) /\ Stuck(shell[q]))'
    BY <2>1 DEF Placed, Furnished, Planned, Stuck, Resolved
  <2> QED  BY <1>1, <1>4, <2>1 DEF ShellInv
<1>6. FollowInv'
  <2>1. ASSUME NEW d \in Shells, NEW q \in Shells, shell'[d].pc = "on", SettingUp(shell'[q]),
               shell'[q].b = shell'[d].b, shell'[q].shaken \/ shell'[q].missed
        PROVE  shell'[d].shaken
    <3>1. Stays(d) /\ Stays(q)
      BY <1>1, <2>1 DEF SettingUp
    <3>2. shell[d].pc = "on" /\ SettingUp(shell[q]) /\ shell[q].b = shell[d].b
      BY <2>1, <3>1 DEF Same, SettingUp
    <3> QED  BY <2>1, <3>1, <3>2 DEF RInv, FollowInv, Same
  <2> QED  BY <2>1 DEF FollowInv
<1>7. Truthful'
  <2>1. ASSUME NEW q \in Shells, shell'[q].pc = "on", ~shell'[q].outdated, ~InSetup(shell[q].b)'
        PROVE  TruthAt(shell[q])'
    <3>1. Stays(q) /\ shell[q].b \in Boxes
      BY <1>1, <2>1 DEF RInv, ShellInv, Placed
    <3>2. shell[q].pc = "on" /\ ~shell[q].outdated /\ shell'[q].b = shell[q].b
      BY <2>1, <3>1 DEF Same
    <3>3. ~InSetup(shell[q].b)
      <4>1. SUFFICES ASSUME NEW e \in Shells, shell[e].b = shell[q].b, SettingUp(shell[e]) PROVE FALSE
        BY DEF InSetup, SettingUp
      <4>2. Stays(e)
        BY <3>1, <4>1 DEF SettingUp
      <4>3. shell'[e].b = shell'[q].b /\ SettingUp(shell'[e])
        BY <3>2, <4>1, <4>2 DEF Same, SettingUp
      <4> QED  BY <2>1, <4>3 DEF InSetup, SettingUp
    <3>4. TruthAt(shell[q])
      BY <3>2, <3>3, TruthfulIs DEF RInv
    <3> QED  BY <3>1, <3>2, <3>4 DEF TruthAt, Same
  <2>2. \A q \in Shells : (shell[q].pc = "on" /\ ~shell[q].outdated /\ ~InSetup(shell[q].b) => TruthAt(shell[q]))'
    BY <2>1
  <2> QED  BY <2>2 DEF Truthful, TruthAt
<1> QED  BY <1>2, <1>3, <1>5, <1>6, <1>7 DEF RInv

-----------------------------------------------------------------------------
(* The steps of a command.                                                  *)

\* What the invariant says of one command.
LEMMA OneShell ==
  ASSUME RInv, NEW p \in Shells
  PROVE  /\ shell[p] \in Visitor
         /\ Placed(shell[p]) /\ Furnished(shell[p]) /\ Planned(shell[p]) /\ Stuck(shell[p])
  BY DEF RInv, RTyped, ShellInv

\* A command that ends.
LEMMA EndKeeps ==
  ASSUME RInv, RTyped', NEW p \in Shells, NEW b \in Boxes, NEW bs, Moves(p, b, bs),
         shell'[p].pc = "idle", box' = box,
         \A q \in Shells \ {p} : shell[q].pc = "on" /\ shell[q].b = b /\ ~shell'[q].outdated => TruthAt(shell[q])
  PROVE  RInv'
<1>1. (Placed(shell[p]) /\ Furnished(shell[p]) /\ Planned(shell[p]) /\ Stuck(shell[p]))'
  BY DEF Placed, Furnished, Planned, Stuck, Resolved
<1>2. \A q \in Shells : shell'[q].pc = "on" /\ shell'[q].b = b /\ ~shell'[q].outdated => TruthAt(shell[q])'
  BY DEF TruthAt, Same, Moves
<1>3. Held(b)' = Held(b)
  BY HeldSame
<1>4. Owes(p, b, bs)
  BY <1>1, <1>2, <1>3 DEF Owes, SettingUp
<1> QED  BY <1>4, MoveKeeps

\* A command comes to a container that nobody sets up.
LEMMA ComeKeeps ==
  ASSUME RInv, NEW p \in Shells, Come(p)
  PROVE  RInv'
<1>0. PICK bs : bs = {}
  OBVIOUS
<1>1. PICK b \in Boxes, way \in {"shell", "run"} :
        /\ ~InSetup(b)
        /\ Put(p, [NoShell EXCEPT !.b = b, !.way = way,
                                  !.pc = IF box[b].st = "none" THEN "resolve" ELSE "strip"])
  BY DEF Come
<1>2. PICK r : r = [NoShell EXCEPT !.b = b, !.way = way,
                                   !.pc = IF box[b].st = "none" THEN "resolve" ELSE "strip"]
  OBVIOUS
<1>3. /\ r \in Visitor /\ r.b = b /\ r.way = way /\ r.pc = IF box[b].st = "none" THEN "resolve" ELSE "strip"
      /\ r.env = {} /\ ~r.missed /\ ~r.shaken /\ r.stuck = {}
  BY <1>2, NoShellTyped DEF NoShell, Visitor
<1>4. shell' = [shell EXCEPT ![p] = r]
  BY <1>1, <1>2 DEF Put
<1>5. /\ shell[p].pc = "idle" /\ box' = box /\ taken' = taken /\ wish' = wish
      /\ launches' = launches + 1 /\ changes' \in Nat
  BY DEF Come, Fair, Change, RInv, RTyped
<1>6. RTyped'
  BY <1>3, <1>4, <1>5 DEF RInv, RTyped
<1>7. shell'[p] = r /\ \A q \in Shells \ {p} : shell'[q] = shell[q]
  BY <1>4 DEF RInv, RTyped
<1>8. \A q \in Shells \ {p} :
        /\ Same(shell[q], shell'[q]) /\ shell'[q].outdated = shell[q].outdated
        /\ shell'[q].shaken <=> (shell[q].shaken \/ shell[q].b \in bs)
  BY <1>0, <1>7 DEF Same
<1>9. box[b].st = "none" => box[b].devs = {}
  BY DEF RInv, EmptyInv
<1>10. (Placed(shell[p]) /\ Furnished(shell[p]) /\ Planned(shell[p]) /\ Stuck(shell[p]))'
  BY <1>3, <1>5, <1>7, <1>9 DEF Placed, Furnished, Planned, Stuck, Resolved
<1>11. Held(b)' = Held(b)
  BY <1>5, HeldSame
<1>12. SettingUp(shell'[p]) /\ ~shell'[p].shaken /\ ~shell'[p].missed
  BY <1>3, <1>7 DEF SettingUp
<1>13. /\ \A c \in Boxes \ {b} : box'[c] = box[c]
       /\ box'[b].st = box[b].st /\ box'[b].devs = box[b].devs
       /\ shell'[p].b = b /\ shell'[p].pc # "on"
  BY <1>3, <1>5, <1>7
<1>14. Moves(p, b, bs)
  BY <1>1, <1>5, <1>8, <1>9, <1>13 DEF Moves
<1>15. Owes(p, b, bs)
  BY <1>10, <1>11, <1>12 DEF Owes
<1> QED  BY <1>6, <1>14, <1>15, MoveKeeps

\* The devices of before are removed: the ports of a container that runs are
\* given up, and what cannot be removed is a failing call to all in it.
LEMMA StripsPortsKeeps ==
  ASSUME RInv, NEW p \in Shells, NEW stuck, StripsPorts(p, stuck), changes' \in Nat,
         stuck \subseteq Device
  PROVE  RInv'
<1>1. PICK x \in Visitor, b \in Boxes : /\ x = shell[p] /\ b = x.b /\ x.pc = "strip"
                                        /\ x.env = {} /\ ~x.missed /\ x.way \in {"shell", "run"}
  BY OneShell DEF Placed, Furnished, StripsPorts, Is
<1>2. PICK given : given = IF box[b].st = "running" /\ Remaining(b, stuck) # box[b].devs THEN Boxes \ {b} ELSE {}
  OBVIOUS
<1>3. PICK bs : bs = given \cup (IF stuck = {} THEN {} ELSE {b})
  OBVIOUS
<1>4. PICK r : r = [x EXCEPT !.stuck = stuck,
                      !.pc = IF box[b].st = "stopped" /\ x.way = "shell" THEN "start" ELSE "resolve"]
  OBVIOUS
<1>5. /\ r \in Visitor /\ r.b = b /\ r.stuck = stuck /\ r.way = x.way /\ r.env = {} /\ ~r.missed
      /\ r.shaken = x.shaken
      /\ r.pc = IF box[b].st = "stopped" /\ x.way = "shell" THEN "start" ELSE "resolve"
  BY <1>1, <1>4 DEF Visitor
<1>6. /\ box' = [box EXCEPT ![b].devs = @ \cap stuck]
      /\ shell' = Shake([shell EXCEPT ![p] = r], bs)
      /\ taken' = taken /\ wish' = wish /\ launches' = launches
  BY <1>1, <1>2, <1>3, <1>4 DEF StripsPorts, Is, Remaining
<1>7. /\ box' \in [Boxes -> Vessel] /\ \A c \in Boxes \ {b} : box'[c] = box[c]
      /\ box'[b].st = box[b].st /\ box'[b].devs = box[b].devs \cap stuck
  BY <1>6 DEF RInv, RTyped, Vessel
<1>8. PICK s \in [Shells -> Visitor] : /\ s = [shell EXCEPT ![p] = r] /\ s[p] = r
                                        /\ \A q \in Shells \ {p} : s[q] = shell[q]
  <2>1. /\ [shell EXCEPT ![p] = r] \in [Shells -> Visitor] /\ [shell EXCEPT ![p] = r][p] = r
        /\ \A q \in Shells \ {p} : [shell EXCEPT ![p] = r][q] = shell[q]
    BY <1>5 DEF RInv, RTyped
  <2> QED  BY <2>1
<1>9. /\ shell' \in [Shells -> Visitor] /\ Same(r, shell'[p])
      /\ shell'[p].shaken <=> (x.shaken \/ b \in bs)
      /\ \A q \in Shells \ {p} :
           /\ Same(shell[q], shell'[q]) /\ shell'[q].outdated = shell[q].outdated
           /\ shell'[q].shaken <=> (shell[q].shaken \/ shell[q].b \in bs)
  <2>1. shell' = Shake(s, bs)
    BY <1>6, <1>8
  <2>2. /\ shell' \in [Shells -> Visitor]
        /\ \A q \in Shells : /\ Same(s[q], shell'[q]) /\ shell'[q].outdated = s[q].outdated
                             /\ shell'[q].shaken <=> (s[q].shaken \/ s[q].b \in bs)
    BY <2>1, ShakeDoes
  <2> QED  BY <1>5, <1>8, <2>2
<1>10. RTyped'
  BY <1>6, <1>7, <1>9 DEF RInv, RTyped
<1>11. Held(b)' = Held(b) \/ Boxes \ {b} \subseteq bs
  BY <1>2, <1>3, <1>7 DEF Held, Remaining
<1>12. (Placed(shell[p]) /\ Furnished(shell[p]) /\ Planned(shell[p]) /\ Stuck(shell[p]))'
  <2>1. stuck # {} => shell'[p].shaken
    BY <1>3, <1>9
  <2> QED  BY <1>1, <1>5, <1>7, <1>9, <2>1 DEF Placed, Furnished, Planned, Stuck, Resolved, Same
<1>13. ASSUME NEW q \in Shells \ {p}, shell[q].pc = "on", shell[q].b = b, shell'[p].shaken \/ shell'[p].missed
       PROVE  shell'[q].shaken
  <2>1. x.shaken \/ b \in bs
    BY <1>5, <1>9, <1>13 DEF Same
  <2> QED  BY <1>1, <1>9, <1>13, <2>1 DEF RInv, FollowInv, SettingUp
<1>14. SettingUp(shell[p]) /\ SettingUp(shell'[p]) /\ shell'[p].b = b
  BY <1>1, <1>5, <1>9 DEF SettingUp, Same
<1>15. box[b].st = "none" => box'[b].devs = {}
  BY <1>7 DEF RInv, EmptyInv
<1>16. /\ shell'[p].pc # "on"
       /\ \A q \in Shells \ {p} : shell[q].b # b => shell'[q].outdated = shell[q].outdated
  BY <1>5, <1>9 DEF Same
<1>17. /\ taken' = taken /\ wish' = wish /\ shell[p].b = b
       /\ \A c \in Boxes \ {b} : box'[c] = box[c]
       /\ box[b].st = "running" => box'[b].st = "running"
       /\ box'[b].st = "none" => box'[b].devs = {}
       /\ \A q \in Shells \ {p} :
            /\ Same(shell[q], shell'[q])
            /\ shell[q].b # b => shell'[q].outdated = shell[q].outdated
            /\ shell'[q].shaken <=> (shell[q].shaken \/ shell[q].b \in bs)
  BY <1>1, <1>6, <1>7, <1>9, <1>15, <1>16
<1>18. Moves(p, b, bs)
  BY <1>14, <1>16, <1>17 DEF Moves
<1>19. Owes(p, b, bs)
  BY <1>11, <1>12, <1>13, <1>14 DEF Owes
<1> QED  BY <1>10, <1>18, <1>19, MoveKeeps

\* However the removal goes.
LEMMA StripPortsKeeps ==
  ASSUME RInv, NEW p \in Shells, StripAll(p) \/ StripSome(p)
  PROVE  RInv'
<1>1. CASE StripAll(p)
  BY <1>1, StripsPortsKeeps DEF StripAll, Fair, RInv, RTyped
<1>2. CASE StripSome(p)
  <2>1. box[shell[p].b].devs \subseteq Device
    <3>1. shell[p].b \in Boxes
      BY <1>2, OneShell DEF StripSome, Placed
    <3> QED  BY <3>1 DEF RInv, RTyped, Vessel
  <2>2. changes' \in Nat
    BY <1>2 DEF StripSome, Change, RInv, RTyped
  <2>3. PICK stuck \in SUBSET Device : StripsPorts(p, stuck)
    BY <1>2, <2>1 DEF StripSome
  <2> QED  BY <2>2, <2>3, StripsPortsKeeps
<1> QED  BY <1>1, <1>2

\* With nothing stuck in it, a container that is being set up has no ports of
\* its own among the bound ones.
LEMMA BoundElsewhere ==
  ASSUME NEW b \in Boxes, box[b].devs = {}
  PROVE  Bound = Elsewhere(b)
<1>1. Held(b) = {}
  BY DEF Held, Hosts
<1>2. UNION {Held(c) : c \in Boxes} = Held(b) \cup UNION {Held(c) : c \in Boxes \ {b}}
  <2>1. ASSUME NEW n \in UNION {Held(c) : c \in Boxes}
        PROVE  n \in Held(b) \cup UNION {Held(c) : c \in Boxes \ {b}}
    <3>1. PICK c \in Boxes : n \in Held(c)
      OBVIOUS
    <3>2. CASE c = b
      BY <3>1, <3>2
    <3>3. CASE c # b
      <4>1. c \in Boxes \ {b}
        BY <3>3
      <4> QED  BY <3>1, <4>1
    <3> QED  BY <3>2, <3>3
  <2>2. ASSUME NEW n \in UNION {Held(c) : c \in Boxes \ {b}} PROVE n \in UNION {Held(c) : c \in Boxes}
    <3>1. PICK c \in Boxes \ {b} : n \in Held(c)
      OBVIOUS
    <3> QED  BY <3>1
  <2>3. Held(b) \subseteq UNION {Held(c) : c \in Boxes}
    OBVIOUS
  <2> QED  BY <2>1, <2>2, <2>3
<1> QED  BY <1>1, <1>2 DEF Bound, Elsewhere

\* The ports are looked for: the plan is what Full says, if nothing stuck.
LEMMA ResolveKeeps ==
  ASSUME RInv, NEW p \in Shells, Resolve(p)
  PROVE  RInv'
<1>1. PICK x \in Visitor, b \in Boxes : /\ x = shell[p] /\ b = x.b /\ x.pc = "resolve"
                                        /\ x.env = {} /\ ~x.missed /\ x.way \in {"shell", "run"}
                                        /\ x.way = "shell" => box[b].st # "stopped"
                                        /\ box[b].devs \subseteq x.stuck
                                        /\ x.stuck # {} => x.shaken
  BY OneShell DEF Placed, Furnished, Stuck, Resolve, Is
<1>2. PICK plan : plan = PlanOf(wish[b], Bound)
  OBVIOUS
<1>3. PICK pc : pc = IF box[b].st = "running" THEN "publish" ELSE "start"
  OBVIOUS
<1>4. plan \in Seq(Device)
  <2>1. PICK w \in Wishes : w = wish[b]
    BY DEF RInv, RTyped
  <2>2. PICK bound : bound = Bound
    OBVIOUS
  <2>3. Possible(w, bound) /\ plan = PlanOf(w, bound)
    BY <1>1, <1>2, <2>1, <2>2 DEF Resolve
  <2> QED  BY <2>3, PlanTyped
<1>5. PICK r : r = [x EXCEPT !.plan = plan, !.pc = pc]
  OBVIOUS
<1>6. /\ r \in Visitor /\ r.b = b /\ r.plan = plan /\ r.pc = pc /\ r.env = {} /\ ~r.missed
      /\ r.way = x.way /\ r.stuck = x.stuck /\ r.shaken = x.shaken
  BY <1>1, <1>3, <1>4, <1>5 DEF Visitor
<1>7. /\ shell' = [shell EXCEPT ![p] = r] /\ box' = box /\ taken' = taken /\ wish' = wish
      /\ launches' = launches /\ changes' \in Nat
  <2>1. changes' \in Nat
    BY DEF Resolve, Fair, Change, RInv, RTyped
  <2> QED  BY <1>1, <1>2, <1>3, <1>5, <2>1 DEF Resolve, Is, Put, Ready
<1>8. RTyped' /\ shell'[p] = r /\ \A q \in Shells \ {p} : shell'[q] = shell[q]
  BY <1>6, <1>7 DEF RInv, RTyped
<1>9. PICK bs : bs = {}
  OBVIOUS
<1>10. Full(b)' = Full(b)
  BY <1>7, FullSame, HeldSame
<1>11. ~x.shaken => Range(plan) = Full(b)
  BY <1>1, <1>2, BoundElsewhere DEF Full
<1>12. (Placed(shell[p]) /\ Furnished(shell[p]) /\ Planned(shell[p]) /\ Stuck(shell[p]))'
  <2>1. Placed(shell[p])' /\ Furnished(shell[p])' /\ Stuck(shell[p])'
    BY <1>1, <1>3, <1>6, <1>7, <1>8 DEF Placed, Furnished, Stuck
  <2>2. Planned(shell[p])'
    BY <1>1, <1>6, <1>8, <1>10, <1>11 DEF Planned
  <2> QED  BY <2>1, <2>2
<1>13. ASSUME NEW q \in Shells \ {p}, shell[q].pc = "on", shell[q].b = b, shell'[p].shaken \/ shell'[p].missed
       PROVE  shell'[q].shaken
  BY <1>1, <1>6, <1>8, <1>13 DEF RInv, FollowInv, SettingUp
<1>14. /\ \A c \in Boxes \ {b} : box'[c] = box[c]
       /\ box[b].st = "running" => box'[b].st = "running"
       /\ box'[b].st = "none" => box'[b].devs = {}
       /\ Held(b)' = Held(b)
       /\ \A q \in Shells \ {p} :
            /\ Same(shell[q], shell'[q])
            /\ shell[q].b # b => shell'[q].outdated = shell[q].outdated
            /\ shell'[q].shaken <=> (shell[q].shaken \/ shell[q].b \in bs)
  BY <1>7, <1>8, <1>9, HeldSame DEF RInv, EmptyInv, Same
<1>15. /\ SettingUp(shell[p]) /\ SettingUp(shell'[p]) /\ shell'[p].b = b /\ shell[p].b = b
       /\ shell'[p].pc # "on" /\ taken' = taken /\ wish' = wish
  BY <1>1, <1>3, <1>6, <1>7, <1>8 DEF SettingUp
<1>16. Moves(p, b, bs)
  BY <1>14, <1>15 DEF Moves
<1>17. Owes(p, b, bs)
  BY <1>12, <1>13, <1>14, <1>15 DEF Owes
<1> QED  BY <1>8, <1>16, <1>17, MoveKeeps

\* A command that breaks off has removed the ports of those in the container:
\* what they were told is outdated.
LEMMA BreaksOffKeeps ==
  ASSUME RInv, NEW p \in Shells, shell[p].pc \in {"resolve", "start", "publish"}, BreaksOff(p),
         changes' \in Nat
  PROVE  RInv'
<1>1. PICK b \in Boxes : b = shell[p].b /\ shell[p].pc \in {"resolve", "start", "publish"}
  BY OneShell DEF Placed
<1>2. PICK s \in [Shells -> Visitor] : /\ s = [shell EXCEPT ![p] = NoShell] /\ s[p] = NoShell
                                       /\ \A q \in Shells \ {p} : s[q] = shell[q]
  <2>1. /\ [shell EXCEPT ![p] = NoShell] \in [Shells -> Visitor] /\ [shell EXCEPT ![p] = NoShell][p] = NoShell
        /\ \A q \in Shells \ {p} : [shell EXCEPT ![p] = NoShell][q] = shell[q]
    BY NoShellTyped DEF RInv, RTyped
  <2> QED  BY <2>1
<1>3. PICK bs : bs = {b}
  OBVIOUS
<1>4. PICK t : t = Shake(s, bs)
  OBVIOUS
<1>5. /\ t \in [Shells -> Visitor]
      /\ \A q \in Shells : /\ Same(s[q], t[q]) /\ t[q].outdated = s[q].outdated
                           /\ t[q].shaken <=> (s[q].shaken \/ s[q].b \in bs)
  BY <1>4, ShakeDoes
<1>6. shell' = Outdate(t, b) /\ box' = box /\ taken' = taken /\ wish' = wish
      /\ launches' = launches /\ changes' \in Nat
  BY <1>1, <1>2, <1>3, <1>4 DEF BreaksOff
<1>7. /\ shell' \in [Shells -> Visitor]
      /\ \A q \in Shells : /\ Same(t[q], shell'[q]) /\ shell'[q].shaken = t[q].shaken
                           /\ t[q].b = b /\ t[q].shaken => shell'[q].outdated
                           /\ t[q].b # b => shell'[q].outdated = t[q].outdated
  BY <1>5, <1>6, OutdateDoes
<1>8. \A q \in Shells \ {p} :
        /\ Same(shell[q], shell'[q])
        /\ shell[q].b # b => shell'[q].outdated = shell[q].outdated
        /\ shell'[q].shaken <=> (shell[q].shaken \/ shell[q].b \in bs)
        /\ shell[q].b = b => shell'[q].outdated
  BY <1>2, <1>3, <1>5, <1>7 DEF Same
<1>9. RTyped'
  BY <1>6, <1>7 DEF RInv, RTyped
<1>10. PICK r \in Visitor : r = shell'[p] /\ r.pc = "idle"
  <2>1. NoShell.pc = "idle"
    BY DEF NoShell
  <2>2. shell'[p].pc = "idle"
    <3>1. t[p].pc = "idle"
      BY <1>2, <1>5, <2>1 DEF Same
    <3> QED  BY <1>7, <3>1 DEF Same
  <2>3. shell'[p] \in Visitor
    BY <1>7
  <2> QED  BY <2>2, <2>3
<1>11. SettingUp(shell[p]) /\ shell[p].pc # "idle" /\ shell[p].b = b
  BY <1>1 DEF SettingUp
<1>12. \A q \in Shells \ {p} : shell[q].pc = "on" /\ shell[q].b = b /\ ~shell'[q].outdated => TruthAt(shell[q])
  BY <1>8
<1>13. \A q \in Shells \ {p} :
        /\ Same(shell[q], shell'[q])
        /\ shell[q].b # b => shell'[q].outdated = shell[q].outdated
        /\ shell'[q].shaken <=> (shell[q].shaken \/ shell[q].b \in bs)
  BY <1>8
<1>14. /\ shell[p].pc # "idle" /\ shell[p].b = b /\ r.pc = "idle" /\ shell'[p] = r
       /\ taken' = taken /\ wish' = wish /\ box' = box /\ (SettingUp(shell[p]) \/ ~InSetup(b))
  BY <1>6, <1>10, <1>11
<1>15. Moves(p, b, bs)
  BY <1>13, <1>14 DEF Moves, RInv, EmptyInv
<1> QED  BY <1>9, <1>12, <1>14, <1>15, EndKeeps

\* The container starts, with what stuck in it.
LEMMA StartBoxKeeps ==
  ASSUME RInv, NEW p \in Shells, StartBox(p)
  PROVE  RInv'
<1>1. PICK x \in Visitor, b \in Boxes : /\ x = shell[p] /\ b = x.b /\ x.pc = "start"
                                        /\ x.env = {} /\ ~x.missed /\ x.way \in {"shell", "run"}
                                        /\ box[b].st # "running"
                                        /\ box[b].devs \subseteq x.stuck
                                        /\ x.stuck # {} => x.shaken
                                        /\ Planned(x)
  BY OneShell DEF Placed, Furnished, Stuck, StartBox, Is
<1>2. PICK pc : pc = IF box[b].st = "none" \/ x.way = "run" THEN "publish" ELSE "resolve"
  OBVIOUS
<1>3. PICK bs : bs = IF box[b].devs = {} THEN {} ELSE Boxes \ {b}
  OBVIOUS
<1>4. PICK r : r = [x EXCEPT !.pc = pc]
  OBVIOUS
<1>5. /\ r \in Visitor /\ r.b = b /\ r.plan = x.plan /\ r.pc = pc /\ r.env = {} /\ ~r.missed
      /\ r.way = x.way /\ r.stuck = x.stuck /\ r.shaken = x.shaken /\ pc \in {"publish", "resolve"}
  BY <1>1, <1>2, <1>4 DEF Visitor
<1>6. PICK s \in [Shells -> Visitor] : /\ s = [shell EXCEPT ![p] = r] /\ s[p] = r
                                       /\ \A q \in Shells \ {p} : s[q] = shell[q]
  <2>1. /\ [shell EXCEPT ![p] = r] \in [Shells -> Visitor] /\ [shell EXCEPT ![p] = r][p] = r
        /\ \A q \in Shells \ {p} : [shell EXCEPT ![p] = r][q] = shell[q]
    BY <1>5 DEF RInv, RTyped
  <2> QED  BY <2>1
<1>7. /\ box' = [box EXCEPT ![b].st = "running"] /\ taken' = taken /\ wish' = wish
      /\ launches' = launches /\ changes' = changes
  BY <1>1 DEF StartBox, Is, Fair
<1>8. shell' = Shake(s, bs)
  <2>1. [shell EXCEPT ![p].pc = pc] = s
    <3>1. shell \in [Shells -> Visitor]
      BY DEF RInv, RTyped
    <3> QED  BY <1>1, <1>4, <1>6, <3>1
  <2> QED  BY <1>1, <1>2, <1>3, <2>1 DEF StartBox
<1>9. /\ shell' \in [Shells -> Visitor]
      /\ \A q \in Shells : /\ Same(s[q], shell'[q]) /\ shell'[q].outdated = s[q].outdated
                           /\ shell'[q].shaken <=> (s[q].shaken \/ s[q].b \in bs)
  BY <1>8, ShakeDoes
<1>10. /\ box' \in [Boxes -> Vessel] /\ \A c \in Boxes \ {b} : box'[c] = box[c]
       /\ box'[b].st = "running" /\ box'[b].devs = box[b].devs
  BY <1>7 DEF RInv, RTyped, Vessel
<1>11. RTyped'
  BY <1>7, <1>9, <1>10 DEF RInv, RTyped
<1>12. Held(b)' = Held(b) \/ Boxes \ {b} \subseteq bs
  BY <1>1, <1>3, <1>10 DEF Held, Hosts
<1>13. Full(b)' = Full(b)
  BY <1>7, <1>10, FullSame, HeldSame
<1>14. Same(r, shell'[p]) /\ (shell'[p].shaken <=> x.shaken)
  BY <1>3, <1>5, <1>6, <1>9
<1>15. (Placed(shell[p]) /\ Furnished(shell[p]) /\ Planned(shell[p]) /\ Stuck(shell[p]))'
  <2>1. Placed(shell[p])' /\ Furnished(shell[p])' /\ Stuck(shell[p])'
    BY <1>1, <1>5, <1>10, <1>14 DEF Placed, Furnished, Stuck, Same
  <2>2. Planned(shell[p])'
    BY <1>1, <1>2, <1>5, <1>13, <1>14 DEF Planned, Same, Resolved
  <2> QED  BY <2>1, <2>2
<1>16. \A q \in Shells \ {p} : shell[q].b = b => shell[q].pc # "on"
  BY <1>1, OneShell DEF Placed
<1>17. /\ \A q \in Shells \ {p} :
            /\ Same(shell[q], shell'[q])
            /\ shell[q].b # b => shell'[q].outdated = shell[q].outdated
            /\ shell'[q].shaken <=> (shell[q].shaken \/ shell[q].b \in bs)
  BY <1>6, <1>9
<1>18. /\ SettingUp(shell[p]) /\ SettingUp(shell'[p]) /\ shell'[p].b = b /\ shell[p].b = b
       /\ shell'[p].pc # "on" /\ taken' = taken /\ wish' = wish
  BY <1>1, <1>5, <1>7, <1>14 DEF SettingUp, Same
<1>19. /\ \A c \in Boxes \ {b} : box'[c] = box[c]
       /\ box[b].st = "running" => box'[b].st = "running"
       /\ box'[b].st = "none" => box'[b].devs = {}
  BY <1>10
<1>20. Moves(p, b, bs)
  BY <1>17, <1>18, <1>19 DEF Moves
<1>21. Owes(p, b, bs)
  BY <1>12, <1>15, <1>16, <1>18 DEF Owes
<1> QED  BY <1>11, <1>20, <1>21, MoveKeeps

\* A container that cannot start had nobody in it.
LEMMA StartBoxFailsKeeps ==
  ASSUME RInv, NEW p \in Shells, StartBoxFails(p)
  PROVE  RInv'
<1>1. PICK b \in Boxes : b = shell[p].b /\ shell[p].pc = "start" /\ box[b].st # "running"
  BY OneShell DEF Placed, StartBoxFails, Is
<1>2. /\ shell' = [shell EXCEPT ![p] = NoShell] /\ box' = box /\ taken' = taken /\ wish' = wish
      /\ launches' = launches /\ changes' = changes
  BY DEF StartBoxFails, Is, Fair, Put
<1>3. RTyped' /\ shell'[p] = NoShell /\ \A q \in Shells \ {p} : shell'[q] = shell[q]
  BY <1>2, NoShellTyped DEF RInv, RTyped
<1>4. PICK bs : bs = {}
  OBVIOUS
<1>5. \A q \in Shells \ {p} :
        /\ Same(shell[q], shell'[q])
        /\ shell[q].b # b => shell'[q].outdated = shell[q].outdated
        /\ shell'[q].shaken <=> (shell[q].shaken \/ shell[q].b \in bs)
        /\ shell[q].b = b => shell[q].pc # "on"
  BY <1>1, <1>3, <1>4, OneShell DEF Same, Placed
<1>6. NoShell.pc = "idle" /\ SettingUp(shell[p]) /\ shell[p].pc # "idle"
  BY <1>1 DEF NoShell, SettingUp
<1>7. Moves(p, b, bs)
  BY <1>1, <1>2, <1>3, <1>5, <1>6 DEF Moves, RInv, EmptyInv
<1> QED  BY <1>2, <1>3, <1>5, <1>6, <1>7, EndKeeps

\* One port is published, or is not.
LEMMA PublishesKeeps ==
  ASSUME RInv, NEW p \in Shells, NEW done \in BOOLEAN,
         shell[p].plan # <<>>, Publishes(p, done), changes' \in Nat
  PROVE  RInv'
<1>1. PICK x \in Visitor, b \in Boxes : /\ x = shell[p] /\ b = x.b /\ x.pc = "publish" /\ x.plan # <<>>
                                        /\ x.way \in {"shell", "run"} /\ box[b].st = "running"
                                        /\ x.env \subseteq box[b].devs
                                        /\ box[b].devs \subseteq x.env \cup x.stuck
                                        /\ x.stuck # {} => x.shaken
                                        /\ Planned(x)
  BY OneShell DEF Placed, Furnished, Stuck, Publishes, Is
<1>2. PICK d, rest : d = Head(x.plan) /\ rest = Tail(x.plan)
  OBVIOUS
<1>3. d \in Device /\ rest \in Seq(Device) /\ Range(x.plan) = Range(rest) \cup {d}
  <2>1. x.plan \in Seq(Device)
    BY DEF Visitor
  <2> QED  BY <1>1, <1>2, <2>1, TailRange
<1>4. PICK bs : bs = IF done THEN Boxes \ {b} ELSE {b}
  OBVIOUS
<1>5. PICK env, missed : env = x.env \cup (IF done THEN {d} ELSE {}) /\ missed = (x.missed \/ ~done)
  OBVIOUS
<1>6. PICK r : r = [x EXCEPT !.plan = rest, !.env = env, !.missed = missed]
  OBVIOUS
<1>7. /\ r \in Visitor /\ r.pc = "publish" /\ r.b = b /\ r.way = x.way /\ r.plan = rest /\ r.env = env
      /\ r.stuck = x.stuck /\ r.missed = missed /\ r.shaken = x.shaken
  BY <1>1, <1>3, <1>5, <1>6 DEF Visitor
<1>8. PICK s : s = Shake(shell, bs)
  OBVIOUS
<1>9. /\ s \in [Shells -> Visitor]
      /\ \A q \in Shells : /\ Same(shell[q], s[q]) /\ s[q].outdated = shell[q].outdated
                           /\ s[q].shaken <=> (shell[q].shaken \/ shell[q].b \in bs)
  <2>1. shell \in [Shells -> Visitor]
    BY DEF RInv, RTyped
  <2> QED  BY <1>8, <2>1, ShakeDoes
<1>10. shell' = [s EXCEPT ![p] = r]
  <2>1. r = [shell[p] EXCEPT !.plan = Tail(@), !.env = Announced(p, done), !.missed = @ \/ ~done]
    BY <1>1, <1>2, <1>5, <1>6 DEF Announced, Visitor
  <2>2. s = Shake(shell, IF done THEN Boxes \ {shell[p].b} ELSE {shell[p].b})
    BY <1>1, <1>4, <1>8
  <2> QED  BY <2>1, <2>2 DEF Publishes
<1>11. /\ box' = [box EXCEPT ![b].devs = IF done THEN @ \cup {d} ELSE @]
       /\ taken' = taken /\ wish' = wish /\ launches' = launches
  BY <1>1, <1>2 DEF Publishes, Is
<1>12. /\ box' \in [Boxes -> Vessel] /\ \A c \in Boxes \ {b} : box'[c] = box[c]
       /\ box'[b].st = "running" /\ box'[b].devs = box[b].devs \cup (IF done THEN {d} ELSE {})
  BY <1>1, <1>3, <1>11 DEF RInv, RTyped, Vessel
<1>13. /\ shell' \in [Shells -> Visitor] /\ shell'[p] = r
       /\ \A q \in Shells \ {p} : /\ Same(shell[q], shell'[q]) /\ shell'[q].outdated = shell[q].outdated
                                  /\ shell'[q].shaken <=> (shell[q].shaken \/ shell[q].b \in bs)
  BY <1>7, <1>9, <1>10
<1>14. RTyped'
  BY <1>11, <1>12, <1>13 DEF RInv, RTyped
<1>15. Held(b)' = Held(b) \/ Boxes \ {b} \subseteq bs
  <2>1. CASE done
    BY <1>4, <2>1
  <2>2. CASE ~done
    <3>1. box'[b].devs = box[b].devs /\ box'[b].st = box[b].st
      BY <1>1, <1>12, <2>2
    <3> QED  BY <3>1 DEF Held
  <2> QED  BY <2>1, <2>2
<1>16. Full(b)' = Full(b)
  BY <1>11, <1>12, FullSame, HeldSame
<1>17. (Placed(shell[p]) /\ Furnished(shell[p]) /\ Planned(shell[p]) /\ Stuck(shell[p]))'
  <2>1. Placed(shell[p])' /\ Stuck(shell[p])'
    BY <1>1, <1>7, <1>12, <1>13 DEF Placed, Stuck
  <2>2. Furnished(shell[p])'
    BY <1>1, <1>5, <1>7, <1>12, <1>13 DEF Furnished
  <2>3. /\ ~x.shaken => x.env \cup Range(x.plan) \subseteq Full(b)
        /\ ~x.shaken /\ ~x.missed => Full(b) \subseteq x.env \cup Range(x.plan)
    BY <1>1 DEF Planned, Resolved
  <2>4. Planned(shell[p])'
    BY <1>3, <1>5, <1>7, <1>13, <1>16, <2>3 DEF Planned
  <2> QED  BY <2>1, <2>2, <2>4
<1>18. ASSUME NEW q \in Shells \ {p}, shell[q].pc = "on", shell[q].b = b, shell'[p].shaken \/ shell'[p].missed
       PROVE  shell'[q].shaken
  <2>1. CASE done
    BY <1>1, <1>5, <1>7, <1>13, <1>18, <2>1 DEF RInv, FollowInv, SettingUp
  <2>2. CASE ~done
    BY <1>4, <1>13, <1>18, <2>2
  <2> QED  BY <2>1, <2>2
<1>19. /\ \A q \in Shells \ {p} :
            /\ Same(shell[q], shell'[q])
            /\ shell[q].b # b => shell'[q].outdated = shell[q].outdated
            /\ shell'[q].shaken <=> (shell[q].shaken \/ shell[q].b \in bs)
  BY <1>13
<1>20. /\ SettingUp(shell[p]) /\ SettingUp(shell'[p]) /\ shell'[p].b = b /\ shell[p].b = b
       /\ shell'[p].pc # "on" /\ taken' = taken /\ wish' = wish
  BY <1>1, <1>7, <1>11, <1>13 DEF SettingUp
<1>21. /\ \A c \in Boxes \ {b} : box'[c] = box[c]
       /\ box[b].st = "running" => box'[b].st = "running"
       /\ box'[b].st = "none" => box'[b].devs = {}
  BY <1>12
<1>22. Moves(p, b, bs)
  BY <1>19, <1>20, <1>21 DEF Moves
<1>23. Owes(p, b, bs)
  BY <1>15, <1>17, <1>18, <1>20 DEF Owes
<1> QED  BY <1>14, <1>22, <1>23, MoveKeeps

\* However the call goes.
LEMMA PublishKeeps ==
  ASSUME RInv, NEW p \in Shells, Publish(p) \/ PublishFails(p)
  PROVE  RInv'
<1>1. changes' \in Nat /\ shell[p].plan # <<>>
  <2>1. changes \in Nat
    BY DEF RInv, RTyped
  <2>2. CASE Publish(p)
    BY <2>1, <2>2 DEF Publish, Fair
  <2>3. CASE PublishFails(p)
    BY <2>1, <2>3 DEF PublishFails, Change
  <2> QED  BY <2>2, <2>3
<1>2. \/ Publishes(p, TRUE) \/ Publishes(p, FALSE)
  <2>1. CASE Publish(p) /\ Addable(p)
    BY <2>1 DEF Publish, Publishes, Announced
  <2>2. CASE Publish(p) /\ ~Addable(p)
    BY <2>2 DEF Publish, Publishes, Announced
  <2> QED  BY <2>1, <2>2 DEF PublishFails
<1> QED  BY <1>1, <1>2, PublishesKeeps

\* A command whose ports are announced: if nothing is outdated, they are those
\* of the container.
LEMMA AttachKeeps ==
  ASSUME RInv, NEW p \in Shells, Attach(p)
  PROVE  RInv'
<1>1. PICK x \in Visitor, b \in Boxes : /\ x = shell[p] /\ b = x.b /\ x.pc = "publish" /\ x.plan = <<>>
                                        /\ x.way \in {"shell", "run"} /\ box[b].st = "running"
                                        /\ x.env \subseteq box[b].devs
                                        /\ box[b].devs \subseteq x.env \cup x.stuck
                                        /\ x.stuck # {} => x.shaken
                                        /\ Planned(x)
  BY OneShell DEF Placed, Furnished, Stuck, Attach, Is
<1>2. PICK r : r = [x EXCEPT !.pc = "on"]
  OBVIOUS
<1>3. /\ r \in Visitor /\ r.pc = "on" /\ r.b = b /\ r.way = x.way /\ r.plan = <<>> /\ r.env = x.env
      /\ r.stuck = x.stuck /\ r.missed = x.missed /\ r.shaken = x.shaken
  BY <1>1, <1>2 DEF Visitor
<1>4. PICK s : s = Outdate(shell, b)
  OBVIOUS
<1>5. /\ s \in [Shells -> Visitor]
      /\ \A q \in Shells : /\ Same(shell[q], s[q]) /\ s[q].shaken = shell[q].shaken
                           /\ shell[q].b = b /\ shell[q].shaken => s[q].outdated
                           /\ shell[q].b # b => s[q].outdated = shell[q].outdated
  <2>1. shell \in [Shells -> Visitor]
    BY DEF RInv, RTyped
  <2> QED  BY <1>4, <2>1, OutdateDoes
<1>6. /\ shell' = [s EXCEPT ![p] = r] /\ box' = box /\ taken' = taken /\ wish' = wish
      /\ launches' = launches /\ changes' = changes
  BY <1>1, <1>2, <1>4 DEF Attach, Is, Fair
<1>7. PICK bs : bs = {}
  OBVIOUS
<1>8. /\ shell' \in [Shells -> Visitor] /\ shell'[p] = r
      /\ \A q \in Shells \ {p} : /\ Same(shell[q], shell'[q])
                                 /\ shell[q].b # b => shell'[q].outdated = shell[q].outdated
                                 /\ shell'[q].shaken <=> (shell[q].shaken \/ shell[q].b \in bs)
                                 /\ shell[q].b = b /\ shell[q].shaken => shell'[q].outdated
  BY <1>3, <1>5, <1>6, <1>7
<1>9. RTyped'
  BY <1>6, <1>8 DEF RInv, RTyped
<1>10. Full(b)' = Full(b) /\ Held(b)' = Held(b)
  BY <1>6, FullSame, HeldSame
<1>11. Range(x.plan) = {}
  BY <1>1 DEF Range
<1>12. /\ ~x.shaken => x.env \subseteq Full(b)
       /\ ~x.shaken /\ ~x.missed => Full(b) \subseteq x.env
  BY <1>1, <1>11 DEF Planned, Resolved
<1>13. (Placed(shell[p]) /\ Furnished(shell[p]) /\ Planned(shell[p]) /\ Stuck(shell[p]))'
  BY <1>1, <1>3, <1>6, <1>8, <1>10, <1>11, <1>12 DEF Placed, Furnished, Planned, Stuck
\* The others were told the same, unless they were told otherwise.
<1>14. ASSUME NEW q \in Shells, shell'[q].pc = "on", shell'[q].b = b, ~shell'[q].outdated
       PROVE  TruthAt(shell[q])'
  <2>1. CASE q = p
    BY <1>1, <1>3, <1>6, <1>8, <2>1 DEF TruthAt
  <2>2. CASE q # p
    <3>1. PICK y \in Visitor : /\ y = shell[q] /\ y.pc = "on" /\ y.b = b /\ ~y.shaken /\ y.plan = <<>>
                               /\ Planned(y) /\ y.stuck = {}
      BY <1>8, <1>14, <2>2, OneShell DEF Same, Placed, Stuck
    <3>2. Range(y.plan) = {}
      BY <3>1 DEF Range
    <3>3. y.env \subseteq Full(b) /\ (~y.missed => Full(b) \subseteq y.env)
      BY <3>1, <3>2 DEF Planned, Resolved
    <3>4. ~x.shaken /\ ~x.missed
      BY <1>1, <3>1 DEF RInv, FollowInv, SettingUp
    <3>5. x.env = Full(b) /\ box[b].devs = x.env
      BY <1>1, <1>12, <3>4
    <3>6. Same(y, shell'[q]) /\ shell'[q].b = b
      BY <1>8, <1>14, <2>2, <3>1
    <3> QED  BY <1>6, <3>1, <3>3, <3>5, <3>6 DEF TruthAt, Same
  <2> QED  BY <2>1, <2>2
<1>15. \A q \in Shells \ {p} :
         /\ Same(shell[q], shell'[q])
         /\ shell[q].b # b => shell'[q].outdated = shell[q].outdated
         /\ shell'[q].shaken <=> (shell[q].shaken \/ shell[q].b \in bs)
  BY <1>8
<1>16. /\ SettingUp(shell[p]) /\ ~SettingUp(shell'[p]) /\ shell'[p].b = b /\ shell[p].b = b
       /\ taken' = taken /\ wish' = wish /\ box' = box
  BY <1>1, <1>3, <1>6, <1>8 DEF SettingUp
<1>17. box[b].st = "none" => box[b].devs = {}
  BY DEF RInv, EmptyInv
<1>18. Moves(p, b, bs)
  BY <1>15, <1>16, <1>17 DEF Moves
<1>19. Owes(p, b, bs)
  BY <1>10, <1>13, <1>14, <1>16 DEF Owes
<1> QED  BY <1>9, <1>18, <1>19, MoveKeeps

\* The container is stopped or deleted: nobody is left in it.
LEMMA EndsKeeps ==
  ASSUME RInv, NEW b \in Boxes, Ends(b), taken' = taken, wish' = wish, launches' = launches,
         changes' \in Nat
  PROVE  RInv'
<1>1. taken' = taken /\ wish' = wish /\ launches' = launches /\ changes' \in Nat
  OBVIOUS
<1>2. NoShell.pc = "idle"
  BY DEF NoShell
<1>3. PICK after \in {"stopped", "none"} :
        /\ box' = [box EXCEPT ![b] = IF after = "none" THEN NoBox ELSE [@ EXCEPT !.st = after]]
        /\ shell' = Shake([q \in Shells |-> IF shell[q].b = b THEN NoShell ELSE shell[q]], Boxes)
  BY DEF Ends
<1>4. PICK bs, gone : bs = Boxes /\ gone = {b}
  OBVIOUS
<1>5. PICK s \in [Shells -> Visitor] : s = [q \in Shells |-> IF shell[q].b = b THEN NoShell ELSE shell[q]]
  BY NoShellTyped DEF RInv, RTyped
<1>6. /\ shell' \in [Shells -> Visitor]
      /\ \A q \in Shells : /\ Same(s[q], shell'[q]) /\ shell'[q].outdated = s[q].outdated
                           /\ shell'[q].shaken <=> (s[q].shaken \/ s[q].b \in bs)
  BY <1>3, <1>4, <1>5, ShakeDoes
<1>7. PICK v \in Vessel : /\ box' = [box EXCEPT ![b] = v]
                          /\ v.st = "none" => v.devs = {}
  <2>1. PICK v : v = IF after = "none" THEN NoBox ELSE [box[b] EXCEPT !.st = after]
    OBVIOUS
  <2>2. v \in Vessel /\ (v.st = "none" => v.devs = {})
    <3>1. box[b] \in Vessel
      BY DEF RInv, RTyped
    <3> QED  BY <1>3, <2>1, <3>1, NoShellTyped DEF Vessel, NoBox
  <2> QED  BY <1>3, <2>1, <2>2
<1>8. /\ box' \in [Boxes -> Vessel] /\ \A c \in Boxes \ {b} : box'[c] = box[c]
      /\ box'[b].st = "none" => box'[b].devs = {}
  BY <1>7 DEF RInv, RTyped
<1>9. RTyped'
  BY <1>1, <1>6, <1>8 DEF RInv, RTyped
<1>10. \A c \in Boxes : box'[c].st = "none" => box'[c].devs = {}
  BY <1>8 DEF RInv, EmptyInv
<1>11. \A q \in Shells : shell[q].pc = "idle" \/ shell[q].b \in gone => shell'[q].pc = "idle"
  BY <1>2, <1>4, <1>5, <1>6 DEF Same
<1>12. \A q \in Shells : shell[q].pc # "idle" /\ shell[q].b \notin gone =>
        /\ Same(shell[q], shell'[q])
        /\ shell'[q].outdated = shell[q].outdated
        /\ shell'[q].shaken <=> (shell[q].shaken \/ shell[q].b \in bs)
        /\ box'[shell[q].b] = box[shell[q].b]
  BY <1>4, <1>5, <1>6, <1>8, OneShell DEF Placed
<1>13. gone \in SUBSET Boxes /\ \A c \in Boxes \ (gone \cup bs) : Full(c)' = Full(c)
  BY <1>4
<1> QED  BY <1>9, <1>10, <1>11, <1>12, <1>13, WorldKeeps

\* The end of a session, with or without its container.
LEMMA LeaveKeeps ==
  ASSUME RInv, NEW p \in Shells, Leave(p)
  PROVE  RInv'
<1>1. PICK b \in Boxes : b = shell[p].b /\ shell[p].pc = "on" /\ ~InSetup(b) /\ box[b].st = "running"
  BY OneShell DEF Placed, Leave, Is
<1>2. taken' = taken /\ wish' = wish /\ launches' = launches /\ changes' = changes
  BY DEF Leave, Is, Fair
<1>3. NoShell.pc = "idle"
  BY DEF NoShell
<1>4. CASE box' = box /\ shell' = [shell EXCEPT ![p] = NoShell]
  <2>1. box' = box
    BY <1>4
  <2>2. RTyped' /\ shell'[p] = NoShell /\ \A q \in Shells \ {p} : shell'[q] = shell[q]
    BY <1>2, <1>4, <2>1, NoShellTyped DEF RInv, RTyped
  <2>3. PICK bs : bs = {}
    OBVIOUS
  <2>4. \A q \in Shells \ {p} :
          /\ Same(shell[q], shell'[q])
          /\ shell[q].b # b => shell'[q].outdated = shell[q].outdated
          /\ shell'[q].shaken <=> (shell[q].shaken \/ shell[q].b \in bs)
    BY <2>2, <2>3 DEF Same
  <2>5. \A q \in Shells \ {p} : shell[q].pc = "on" /\ shell[q].b = b /\ ~shell'[q].outdated => TruthAt(shell[q])
    <3>1. ASSUME NEW q \in Shells \ {p}, shell[q].pc = "on", shell[q].b = b, ~shell'[q].outdated
          PROVE  TruthAt(shell[q])
      BY <1>1, <2>2, <3>1, TruthfulIs DEF RInv
    <3> QED  BY <3>1
  <2>6. /\ shell[p].pc # "idle" /\ shell[p].b = b /\ shell'[p] = NoShell
        /\ taken' = taken /\ wish' = wish /\ box' = box /\ (SettingUp(shell[p]) \/ ~InSetup(b))
    BY <1>1, <1>2, <2>1, <2>2
  <2>7. Moves(p, b, bs)
    BY <1>3, <2>4, <2>6 DEF Moves, RInv, EmptyInv
  <2> QED  BY <1>3, <2>2, <2>5, <2>6, <2>7, EndKeeps
<1>5. CASE Ends(b)
  <2>1. changes' \in Nat
    BY <1>2 DEF RInv, RTyped
  <2> QED  BY <1>2, <1>5, <2>1, EndsKeeps
<1> QED  BY <1>1, <1>4, <1>5 DEF Leave, Put

\* A run that cleans up ends its container.
LEMMA CleansUpKeeps ==
  ASSUME RInv, NEW p \in Shells, CleansUp(p)
  PROVE  RInv'
<1>1. shell[p].b \in Boxes
  BY OneShell DEF Placed, CleansUp, Is
<1>2. taken' = taken /\ wish' = wish /\ launches' = launches /\ changes' \in Nat
  BY DEF CleansUp, Is, Change, RInv, RTyped
<1>3. Ends(shell[p].b)
  BY DEF CleansUp
<1> QED  BY <1>1, <1>2, <1>3, EndsKeeps

\* A command that is refused, or ends otherwise before it has published.
LEMMA EarlyEndKeeps ==
  ASSUME RInv, NEW p \in Shells, Refuse(p) \/ Dies(p)
  PROVE  RInv'
<1>1. /\ shell[p].pc \in {"resolve", "start", "publish"} /\ BreaksOff(p)
      /\ changes' \in Nat
  BY DEF Refuse, Dies, Fair, Change, RInv, RTyped
<1> QED  BY <1>1, BreaksOffKeeps

-----------------------------------------------------------------------------
(* The world, and every step.                                               *)

\* All that the world changes is told to those it concerns.
LEMMA ShakenKeeps ==
  ASSUME RInv, NEW bs \in SUBSET Boxes, NEW gone \in SUBSET Boxes,
         shell' = Shake(shell, bs), box' \in [Boxes -> Vessel], taken' \in SUBSET Nat,
         wish' \in [Boxes -> Wishes], launches' \in Nat, changes' \in Nat,
         \A c \in Boxes : box'[c] = box[c] \/ (c \in gone /\ box'[c].st # "none"),
         \A q \in Shells : shell[q].b \in gone => shell[q].pc = "idle",
         \A c \in Boxes \ (gone \cup bs) : Full(c)' = Full(c)
  PROVE  RInv'
<1>1. /\ shell' \in [Shells -> Visitor]
      /\ \A q \in Shells : /\ Same(shell[q], shell'[q]) /\ shell'[q].outdated = shell[q].outdated
                           /\ shell'[q].shaken <=> (shell[q].shaken \/ shell[q].b \in bs)
  <2>1. shell \in [Shells -> Visitor]
    BY DEF RInv, RTyped
  <2> QED  BY <2>1, ShakeDoes
<1>2. RTyped'
  BY <1>1 DEF RTyped
<1>3. \A c \in Boxes : box'[c].st = "none" => box'[c].devs = {}
  BY DEF RInv, EmptyInv
<1>4. \A q \in Shells : shell[q].pc = "idle" \/ shell[q].b \in gone => shell'[q].pc = "idle"
  BY <1>1 DEF Same
<1>5. \A q \in Shells : shell[q].pc # "idle" /\ shell[q].b \notin gone =>
        /\ Same(shell[q], shell'[q])
        /\ shell'[q].outdated = shell[q].outdated
        /\ shell'[q].shaken <=> (shell[q].shaken \/ shell[q].b \in bs)
        /\ box'[shell[q].b] = box[shell[q].b]
  BY <1>1, OneShell DEF Placed
<1> QED  BY <1>2, <1>3, <1>4, <1>5, WorldKeeps

\* A container started by hand, other processes of the host, the configuration.
LEMMA OutsideKeeps ==
  ASSUME RInv,
         \/ \E b \in Boxes : StartByHand(b) \/ Configure(b)
         \/ \E n \in {Numbers[i] : i \in DOMAIN Numbers} : Grab(n) \/ Release(n)
  PROVE  RInv'
<1>1. RTyped /\ \A n \in {Numbers[i] : i \in DOMAIN Numbers} : n \in Nat
  BY PortsAssumption DEF RInv
<1>2. ASSUME NEW b \in Boxes, StartByHand(b) PROVE RInv'
  <2>1. PICK bs, gone \in SUBSET Boxes : bs = Boxes /\ gone = {b}
    OBVIOUS
  <2>2. /\ shell' = Shake(shell, bs) /\ taken' = taken /\ wish' = wish /\ launches' = launches
        /\ box' = [box EXCEPT ![b].st = "running"] /\ changes' = changes + 1
    BY <1>2, <2>1 DEF StartByHand, Change
  <2>3. /\ box' \in [Boxes -> Vessel] /\ taken' \in SUBSET Nat /\ wish' \in [Boxes -> Wishes]
        /\ launches' \in Nat /\ changes' \in Nat
        /\ \A c \in Boxes : box'[c] = box[c] \/ (c \in gone /\ box'[c].st # "none")
    BY <1>1, <2>1, <2>2 DEF RTyped, Vessel
  <2>4. \A q \in Shells : shell[q].b \in gone => shell[q].pc = "idle"
    BY <1>2, <2>1, OneShell DEF StartByHand, InSetup, Placed
  <2>5. \A c \in Boxes \ (gone \cup bs) : Full(c)' = Full(c)
    BY <2>1
  <2> QED  BY <2>1, <2>2, <2>3, <2>4, <2>5, ShakenKeeps
<1>3. ASSUME NEW b \in Boxes, Configure(b) PROVE RInv'
  <2>1. PICK bs, gone \in SUBSET Boxes : bs = {b} /\ gone = {}
    OBVIOUS
  <2>2. PICK w \in Wishes : wish' = [wish EXCEPT ![b] = w]
    BY <1>3 DEF Configure
  <2>3. /\ shell' = Shake(shell, bs) /\ taken' = taken /\ box' = box /\ launches' = launches
        /\ changes' = changes + 1
    BY <1>3, <2>1 DEF Configure, Change
  <2>4. /\ box' \in [Boxes -> Vessel] /\ taken' \in SUBSET Nat /\ wish' \in [Boxes -> Wishes]
        /\ launches' \in Nat /\ changes' \in Nat
        /\ \A c \in Boxes : box'[c] = box[c] \/ (c \in gone /\ box'[c].st # "none")
    BY <1>1, <2>2, <2>3 DEF RTyped
  <2>5. \A q \in Shells : shell[q].b \in gone => shell[q].pc = "idle"
    BY <2>1
  <2>6. ASSUME NEW c \in Boxes \ (gone \cup bs) PROVE Full(c)' = Full(c)
    <3>1. wish'[c] = wish[c]
      BY <1>1, <2>1, <2>2 DEF RTyped
    <3>2. \A d \in Boxes \ {c} : Held(d)' = Held(d)
      BY <2>3, HeldSame
    <3> QED  BY <2>3, <3>1, <3>2, FullSame
  <2> QED  BY <2>3, <2>4, <2>5, <2>6, ShakenKeeps
<1>4. ASSUME NEW n \in {Numbers[i] : i \in DOMAIN Numbers}, Grab(n) \/ Release(n) PROVE RInv'
  <2>1. PICK bs, gone \in SUBSET Boxes : bs = Boxes /\ gone = {}
    OBVIOUS
  <2>2. /\ shell' = Shake(shell, bs) /\ box' = box /\ wish' = wish /\ launches' = launches
        /\ changes' = changes + 1 /\ taken' \in {taken \cup {n}, taken \ {n}}
    BY <1>4, <2>1 DEF Grab, Release, Change
  <2>3. /\ box' \in [Boxes -> Vessel] /\ taken' \in SUBSET Nat /\ wish' \in [Boxes -> Wishes]
        /\ launches' \in Nat /\ changes' \in Nat
        /\ \A c \in Boxes : box'[c] = box[c] \/ (c \in gone /\ box'[c].st # "none")
    BY <1>1, <2>2 DEF RTyped
  <2>4. /\ \A q \in Shells : shell[q].b \in gone => shell[q].pc = "idle"
        /\ \A c \in Boxes \ (gone \cup bs) : Full(c)' = Full(c)
    BY <2>1
  <2> QED  BY <2>2, <2>3, <2>4, ShakenKeeps
<1> QED  BY <1>2, <1>3, <1>4

\* Every step of the published ports keeps the invariant.
LEMMA PortsNext ==
  ASSUME RInv, [RNext]_rvars
  PROVE  RInv'
<1>1. ASSUME NEW p \in Shells,
             \/ Come(p) \/ StripAll(p) \/ StripSome(p) \/ Resolve(p) \/ Refuse(p)
             \/ Dies(p) \/ CleansUp(p) \/ StartBox(p) \/ StartBoxFails(p)
             \/ Publish(p) \/ PublishFails(p) \/ Attach(p) \/ Leave(p)
      PROVE  RInv'
  BY <1>1, ComeKeeps, StripPortsKeeps, ResolveKeeps, EarlyEndKeeps, CleansUpKeeps, StartBoxKeeps,
     StartBoxFailsKeeps, PublishKeeps, AttachKeeps, LeaveKeeps
<1>2. CASE UNCHANGED rvars
  <2> USE <1>2 DEF rvars
  <2>1. \A c \in Boxes : (Held(c)' = Held(c)) /\ (Full(c)' = Full(c))
    <3>1. \A c \in Boxes : Held(c)' = Held(c)
      BY HeldSame
    <3> QED  BY <3>1, FullSame
  <2>2. RTyped' /\ SoloInv' /\ EmptyInv' /\ FollowInv' /\ Truthful'
    BY DEF RInv, RTyped, SoloInv, EmptyInv, FollowInv, Truthful, InSetup
  <2>3. ASSUME NEW q \in Shells
        PROVE  (Placed(shell[q]) /\ Furnished(shell[q]) /\ Planned(shell[q]) /\ Stuck(shell[q]))'
    <3>1. Placed(shell[q]) /\ Furnished(shell[q]) /\ Planned(shell[q]) /\ Stuck(shell[q])
      BY OneShell
    <3>2. shell'[q].pc = "idle" \/ Full(shell[q].b)' = Full(shell[q].b)
      BY <2>1, <3>1 DEF Placed
    <3> QED  BY <3>1, <3>2 DEF Placed, Furnished, Planned, Stuck, Resolved
  <2> QED  BY <2>2, <2>3 DEF RInv, ShellInv
<1> QED  BY <1>1, <1>2, OutsideKeeps DEF RNext

\* The variables of the published ports keep their types.
THEOREM PortsTypeCorrect == RSpec => []RTyped
<1>1. RInv => RTyped
  BY DEF RInv
<1> QED  BY <1>1, PortsInit, PortsNext, PTL DEF RSpec

\* What a session was told about its ports is what its container publishes.
THEOREM AlwaysTruthful == RSpec => []Truthful
<1>1. RInv => Truthful
  BY DEF RInv
<1> QED  BY <1>1, PortsInit, PortsNext, PTL DEF RSpec

-----------------------------------------------------------------------------
(* The tool's own file: Context.                                            *)

Contents == Headers \cup {Custom}
Bare(f) == \A i \in DOMAIN f : f[i] \notin Special

\* What old versions appended behind the user's lines u.
Behind(u, t) == /\ t \in Seq(Line) /\ Copies(t)
                /\ t # <<>> => t[1] = Separator \/ (u = <<>> /\ t[1] \in Headers)
\* A block that is not closed, and what is below it.
Unclosed(m) == /\ m \in Seq(Line)
               /\ m # <<>> => m[1] = BeginMark /\ \A i \in DOMAIN m : m[i] # EndMark

\* The states of the file, and the lines k of it that a setup keeps: without a
\* closed block, with one below copies of old versions, and as it is written.
OpenForm(f, k) == \E u, t, m \in Seq(Line) :
  f = (u \o t) \o m /\ Unmarked(u) /\ Behind(u, t) /\ Unclosed(m) /\ k \subseteq Lines(u)
StaleForm(f, k) == \E u, t, z \in Seq(Line), c \in Contents :
  /\ f = (u \o t) \o (Block(<<c>>) \o z) /\ t # <<>>
  /\ Unmarked(u) /\ Behind(u, t) /\ Bare(z) /\ k \subseteq Lines(u)
WholeForm(f, k, c) == \E u, z \in Seq(Line) :
  f = u \o (Block(<<c>>) \o z) /\ Unmarked(u \o z) /\ k \subseteq Lines(u \o z)

-----------------------------------------------------------------------------
(* The text.                                                                *)

LEMMA MarksDiffer ==
  /\ BeginMark \in Line /\ EndMark \in Line /\ Separator \in Line /\ Custom \in Line
  /\ Contents \subseteq Line
  /\ BeginMark \notin Contents /\ EndMark \notin Contents /\ Separator \notin Contents
  /\ BeginMark # EndMark /\ BeginMark # Separator /\ EndMark # Separator
  /\ Special = Contents \cup {BeginMark, EndMark, Separator}
<1>1. /\ BeginMark \in Line /\ EndMark \in Line /\ Separator \in Line /\ Custom \in Line
      /\ BeginMark # EndMark /\ BeginMark # Separator /\ EndMark # Separator
      /\ BeginMark # Custom /\ EndMark # Custom /\ Separator # Custom
  BY DEF BeginMark, EndMark, Separator, Custom, Special, Line
<1>2. ASSUME NEW h \in Headers
      PROVE  h \in Line /\ h # BeginMark /\ h # EndMark /\ h # Separator
  <2>1. h \in Line
    BY <1>2 DEF Line, Special
  <2> QED
    BY <1>2, <2>1 DEF Headers, Rendered, BeginMark, EndMark, Separator
<1> QED
  BY <1>1, <1>2 DEF Contents, Special

LEMMA LineIndexIs ==
  ASSUME NEW f \in Seq(Line), NEW i \in Nat \ {0}, NEW line, NEW k \in i..Len(f),
         f[k] = line, \A j \in i..(k - 1) : f[j] # line
  PROVE  LineIndex(f, i, line) = k
<1> DEFINE at == {h \in i..Len(f) : f[h] = line}
<1>1. LineIndex(f, i, line) = IF at = {} THEN 0 ELSE CHOOSE h \in at : \A j \in at : h <= j
  BY DEF LineIndex
<1>2. Len(f) \in Nat
  OBVIOUS
<1>3. k \in at /\ \A j \in at : k <= j
  BY <1>2
<1>4. \A h \in at : (\A j \in at : h <= j) => h = k
  BY <1>2, <1>3
<1> HIDE DEF at
<1> QED
  BY <1>1, <1>3, <1>4

LEMMA NoLineIndex ==
  ASSUME NEW f \in Seq(Line), NEW i \in Nat \ {0}, NEW line,
         \A j \in i..Len(f) : f[j] # line
  PROVE  LineIndex(f, i, line) = 0
<1>1. {h \in i..Len(f) : f[h] = line} = {}
  OBVIOUS
<1> QED
  BY <1>1 DEF LineIndex

\* The block goes, and what is below one that is not closed.
LEMMA StripsOpen ==
  ASSUME NEW x \in Seq(Line), \A i \in DOMAIN x : x[i] # BeginMark,
         NEW m \in Seq(Line), Unclosed(m)
  PROVE  StripManaged(x \o m) = x
<1> DEFINE f == x \o m
           b == LineIndex(f, 1, BeginMark)
           e == LineIndex(f, b + 1, EndMark)
<1>1. /\ f \in Seq(Line) /\ Len(f) = Len(x) + Len(m) /\ Len(x) \in Nat /\ Len(m) \in Nat
      /\ \A i \in 1..Len(x) : f[i] = x[i]
      /\ \A i \in 1..Len(m) : f[Len(x) + i] = m[i]
  OBVIOUS
<1>2. StripManaged(f) = IF b = 0 THEN f
        ELSE SubSeq(f, 1, b - 1) \o (IF e = 0 THEN <<>> ELSE SubSeq(f, e + 1, Len(f)))
  BY DEF StripManaged
<1> HIDE DEF e
<1>3. CASE m = <<>>
  <2>1. f = x
    BY <1>3
  <2>2. \A j \in 1..Len(f) : f[j] # BeginMark
    BY <2>1
  <2>3. b = 0
    <3>1. 1 \in Nat \ {0}
      OBVIOUS
    <3> HIDE DEF f
    <3> QED
      BY <1>1, <2>2, <3>1, NoLineIndex
  <2> QED
    BY <1>2, <2>1, <2>3
<1>4. CASE m # <<>>
  <2>1. m[1] = BeginMark /\ \A i \in DOMAIN m : m[i] # EndMark
    BY <1>4 DEF Unclosed
  <2>2. Len(x) + 1 \in 1..Len(f) /\ f[Len(x) + 1] = BeginMark
    BY <1>1, <1>4, <2>1
  <2>3. \A j \in 1..(Len(x) + 1) - 1 : f[j] # BeginMark
    BY <1>1
  <2>4. b = Len(x) + 1
    <3>1. 1 \in Nat \ {0}
      OBVIOUS
    <3> HIDE DEF f
    <3> QED
      BY <1>1, <2>2, <2>3, <3>1, LineIndexIs
  <2>5. \A j \in (b + 1)..Len(f) : f[j] # EndMark
    <3> SUFFICES ASSUME NEW j \in (b + 1)..Len(f) PROVE f[j] # EndMark
      OBVIOUS
    <3>1. j - Len(x) \in 1..Len(m)
      BY <1>1, <2>4
    <3>2. f[Len(x) + (j - Len(x))] = m[j - Len(x)]
      BY <1>1, <3>1
    <3>3. Len(x) + (j - Len(x)) = j
      BY <1>1, <2>4
    <3> QED
      BY <2>1, <3>1, <3>2, <3>3
  <2>6. e = 0
    <3>1. b + 1 \in Nat \ {0}
      BY <1>1, <2>4
    <3> HIDE DEF b, f
    <3> QED
      BY <1>1, <2>5, <3>1, NoLineIndex DEF e
  <2>7. SubSeq(f, 1, b - 1) = x
    BY <1>1, <2>4
  <2>8. x \o <<>> = x
    OBVIOUS
  <2> QED
    BY <1>1, <1>2, <2>4, <2>6, <2>7, <2>8
<1> QED
  BY <1>3, <1>4

LEMMA Joined ==
  ASSUME NEW T, NEW s \in Seq(T), NEW t \in Seq(T)
  PROVE  /\ s \o t \in Seq(T) /\ Len(s \o t) = Len(s) + Len(t)
         /\ Len(s) \in Nat /\ Len(t) \in Nat
         /\ DOMAIN (s \o t) = 1..(Len(s) + Len(t))
         /\ DOMAIN s = 1..Len(s) /\ DOMAIN t = 1..Len(t)
         /\ \A i \in 1..Len(s) : (s \o t)[i] = s[i]
         /\ \A i \in 1..Len(t) : (s \o t)[Len(s) + i] = t[i]
OBVIOUS

LEMMA PutBehind ==
  ASSUME NEW T, NEW h \in Seq(T), NEW a \in T
  PROVE  /\ h \o <<a>> \in Seq(T) /\ Len(h \o <<a>>) = Len(h) + 1 /\ Len(h) \in Nat
         /\ (h \o <<a>>)[Len(h) + 1] = a
         /\ \A i \in 1..Len(h) : (h \o <<a>>)[i] = h[i]
OBVIOUS

LEMMA BlockIs ==
  ASSUME NEW c \in Contents
  PROVE  Block(<<c>>) = <<BeginMark, c, EndMark>> /\ Block(<<c>>) \in Seq(Line)
<1>0. c \in Line /\ BeginMark \in Line /\ EndMark \in Line
  BY MarksDiffer
<1>1. PICK h \in Seq(Line) : h = <<BeginMark>> \o <<c>> /\ Len(h) = 2 /\ h[1] = BeginMark /\ h[2] = c
  <2>1. <<BeginMark>> \o <<c>> \in Seq(Line) /\ Len(<<BeginMark>> \o <<c>>) = 2
    BY <1>0
  <2>2. (<<BeginMark>> \o <<c>>)[1] = BeginMark
    BY <1>0
  <2>3. (<<BeginMark>> \o <<c>>)[2] = c
    BY <1>0
  <2> QED
    BY <2>1, <2>2, <2>3, Zenon
<1>2. PICK q : q = h \o <<EndMark>>
  OBVIOUS
<1>3. /\ q \in Seq(Line) /\ Len(q) = Len(h) + 1 /\ q[Len(h) + 1] = EndMark
      /\ \A i \in 1..Len(h) : q[i] = h[i]
  BY <1>0, <1>2, PutBehind
<1>4. q \in Seq(Line) /\ Len(q) = 3 /\ q[1] = BeginMark /\ q[2] = c /\ q[3] = EndMark
  BY <1>1, <1>3
<1>5. q = <<BeginMark, c, EndMark>>
  BY <1>0, <1>4
<1> QED
  BY <1>1, <1>2, <1>4, <1>5 DEF Block

\* f is x, a block about c, and z.
InPlaces(f, x, c, z) ==
  /\ f \in Seq(Line) /\ Len(f) = Len(x) + 3 + Len(z)
  /\ Len(x) \in Nat /\ Len(z) \in Nat /\ DOMAIN f = 1..Len(f)
  /\ DOMAIN x = 1..Len(x) /\ DOMAIN z = 1..Len(z)
  /\ \A i \in 1..Len(x) : f[i] = x[i]
  /\ f[Len(x) + 1] = BeginMark /\ f[Len(x) + 2] = c /\ f[Len(x) + 3] = EndMark
  /\ \A i \in 1..Len(z) : f[Len(x) + 3 + i] = z[i]

LEMMA BlockInPlace ==
  ASSUME NEW x \in Seq(Line), NEW z \in Seq(Line), NEW c \in Contents
  PROVE  InPlaces(x \o (Block(<<c>>) \o z), x, c, z)
<1> DEFINE f == x \o (Block(<<c>>) \o z)
<1> DEFINE y == Block(<<c>>) \o z
<1>1. /\ Block(<<c>>) = <<BeginMark, c, EndMark>> /\ Block(<<c>>) \in Seq(Line)
  BY BlockIs
<1>2. /\ y \in Seq(Line) /\ Len(y) = 3 + Len(z) /\ y[1] = BeginMark /\ y[2] = c
      /\ y[3] = EndMark /\ \A i \in 1..Len(z) : y[3 + i] = z[i]
  <2>1. y = <<BeginMark, c, EndMark>> \o z /\ <<BeginMark, c, EndMark>> \in Seq(Line)
    BY <1>1
  <2> HIDE DEF y
  <2> QED
    BY <2>1
<1> HIDE DEF y
<1>3. /\ f \in Seq(Line) /\ Len(f) = Len(x) + Len(y) /\ Len(x) \in Nat
      /\ Len(z) \in Nat
      /\ \A i \in 1..Len(x) : f[i] = x[i]
      /\ \A i \in 1..Len(y) : f[Len(x) + i] = y[i]
  BY <1>2 DEF y
<1>4. \A i \in 1..Len(z) : f[Len(x) + 3 + i] = z[i]
  <2> SUFFICES ASSUME NEW i \in 1..Len(z) PROVE f[Len(x) + 3 + i] = z[i]
    OBVIOUS
  <2>1. 3 + i \in 1..Len(y) /\ Len(x) + 3 + i = Len(x) + (3 + i)
    BY <1>2, <1>3
  <2> QED
    BY <1>2, <1>3, <2>1
<1>5. 1 \in 1..Len(y) /\ 2 \in 1..Len(y) /\ 3 \in 1..Len(y)
  BY <1>2, <1>3
<1> QED
  <2>1. f[Len(x) + 1] = BeginMark /\ f[Len(x) + 2] = c /\ f[Len(x) + 3] = EndMark
    BY <1>2, <1>3, <1>5
  <2>2. Len(f) = Len(x) + 3 + Len(z) /\ DOMAIN f = 1..Len(f)
    BY <1>2, <1>3
  <2>3. DOMAIN x = 1..Len(x) /\ DOMAIN z = 1..Len(z)
    OBVIOUS
  <2> QED
    BY <1>3, <1>4, <2>1, <2>2, <2>3 DEF InPlaces

LEMMA StripsClosed ==
  ASSUME NEW x \in Seq(Line), \A i \in DOMAIN x : x[i] # BeginMark,
         NEW z \in Seq(Line), NEW c \in Contents
  PROVE  StripManaged(x \o (Block(<<c>>) \o z)) = x \o z
<1> DEFINE f == x \o (Block(<<c>>) \o z)
           b == LineIndex(f, 1, BeginMark)
           e == LineIndex(f, b + 1, EndMark)
<1>0. InPlaces(f, x, c, z)
  BY BlockInPlace
<1>2. StripManaged(f) = IF b = 0 THEN f
        ELSE SubSeq(f, 1, b - 1) \o (IF e = 0 THEN <<>> ELSE SubSeq(f, e + 1, Len(f)))
  BY DEF StripManaged
<1> HIDE DEF f, e
<1>1. /\ f \in Seq(Line) /\ Len(f) = Len(x) + 3 + Len(z)
      /\ Len(x) \in Nat /\ Len(z) \in Nat /\ DOMAIN f = 1..Len(f)
      /\ DOMAIN x = 1..Len(x) /\ DOMAIN z = 1..Len(z)
      /\ \A i \in 1..Len(x) : f[i] = x[i]
      /\ f[Len(x) + 1] = BeginMark /\ f[Len(x) + 2] = c /\ f[Len(x) + 3] = EndMark
      /\ \A i \in 1..Len(z) : f[Len(x) + 3 + i] = z[i]
  BY <1>0 DEF InPlaces
<1>3. b = Len(x) + 1
  <2>1. Len(x) + 1 \in 1..Len(f) /\ 1 \in Nat \ {0}
    BY <1>1
  <2>2. \A j \in 1..((Len(x) + 1) - 1) : f[j] # BeginMark
    BY <1>1
  <2> QED
    BY <1>1, <2>1, <2>2, LineIndexIs
<1> HIDE DEF b
<1>4. e = Len(x) + 3
  <2>1. /\ b + 1 \in Nat \ {0} /\ Len(x) + 3 \in (b + 1)..Len(f)
        /\ \A j \in (b + 1)..(Len(x) + 3) - 1 : j = Len(x) + 2
    BY <1>1, <1>3
  <2>2. c # EndMark
    BY MarksDiffer
  <2>3. \A j \in (b + 1)..(Len(x) + 3) - 1 : f[j] # EndMark
    BY <1>1, <2>1, <2>2
  <2> DEFINE i == b + 1
             k == Len(x) + 3
  <2>4. /\ i \in Nat \ {0} /\ k \in i..Len(f) /\ f[k] = EndMark
        /\ \A j \in i..(k - 1) : f[j] # EndMark
    BY <1>1, <2>1, <2>3
  <2> HIDE DEF i, k
  <2>5. LineIndex(f, i, EndMark) = k
    BY <1>1, <2>4, LineIndexIs
  <2> QED
    BY <2>5 DEF e, i, k
<1>5. SubSeq(f, 1, b - 1) = x
  BY <1>1, <1>3
<1>6. SubSeq(f, e + 1, Len(f)) = z
  <2> DEFINE q == SubSeq(f, e + 1, Len(f))
  <2>1. q = [i \in 1..(Len(f) - (e + 1) + 1) |-> f[i + (e + 1) - 1]]
    BY <1>1, <1>4
  <2>2. Len(f) - (e + 1) + 1 = Len(z)
    BY <1>1, <1>4
  <2>3. \A i \in 1..Len(z) : f[i + (e + 1) - 1] = z[i]
    <3> SUFFICES ASSUME NEW i \in 1..Len(z) PROVE f[i + (e + 1) - 1] = z[i]
      OBVIOUS
    <3>1. i + (e + 1) - 1 = Len(x) + 3 + i
      BY <1>1, <1>4
    <3> QED
      BY <1>1, <3>1
  <2>4. z = [i \in 1..Len(z) |-> z[i]]
    OBVIOUS
  <2> HIDE DEF q
  <2> QED
    BY <2>1, <2>2, <2>3, <2>4 DEF q
<1>7. b # 0 /\ e # 0
  BY <1>1, <1>3, <1>4
<1> QED
  BY <1>2, <1>5, <1>6, <1>7 DEF f

\* A line that is no separator lies in a segment.
LEMMA SegmentHeadIs ==
  ASSUME NEW f \in Seq(Line), NEW i \in DOMAIN f, f[i] # Separator
  PROVE  /\ SegmentHead(f, i) \in 1..i
         /\ SegmentHead(f, i) = 1 \/ f[SegmentHead(f, i) - 1] = Separator
         /\ \A k \in SegmentHead(f, i)..i : f[k] # Separator
<1> DEFINE Ok(h) == /\ h = 1 \/ f[h - 1] = Separator
                    /\ \A k \in h..i : f[k] # Separator
           D == {d \in 0..(i - 1) : (i - d) = 1 \/ f[(i - d) - 1] = Separator}
<1>1. i \in Nat \ {0}
  OBVIOUS
<1>2. i - 1 \in D /\ D \in SUBSET Nat
  <2>1. i - 1 \in 0..(i - 1) /\ i - (i - 1) = 1
    BY <1>1
  <2>2. \A d \in 0..(i - 1) : d \in Nat
    BY <1>1
  <2> QED
    BY <2>1, <2>2
<1>3. PICK d \in D : \A k \in D : d <= k
  <2> HIDE DEF D
  <2> QED
    BY <1>2, Least
<1>4. /\ d \in 0..(i - 1) /\ (i - d = 1 \/ f[(i - d) - 1] = Separator)
      /\ i - d \in 1..i
  <2>1. d \in 0..(i - 1)
    OBVIOUS
  <2>2. i - d = 1 \/ f[(i - d) - 1] = Separator
    OBVIOUS
  <2>3. i - d \in 1..i
    <3> HIDE DEF D
    <3>1. i \in Nat /\ i >= 1 /\ d \in Nat /\ d <= i - 1
      BY <1>1, <2>1
    <3>2. i - d >= 1 /\ i - d <= i /\ i - d \in Int
      BY <3>1
    <3> QED
      BY <3>1, <3>2
  <2> QED
    BY <2>1, <2>2, <2>3
<1>5. \A k \in (i - d)..i : f[k] # Separator
  <2> SUFFICES ASSUME NEW k \in (i - d)..i, f[k] = Separator PROVE FALSE
    OBVIOUS
  <2>1. k # i /\ k < i
    BY <1>1, <1>4
  <2>2. i - (k + 1) \in 0..(i - 1) /\ i - (i - (k + 1)) = k + 1 /\ (k + 1) - 1 = k
    BY <1>1, <1>4, <2>1
  <2>3. i - (k + 1) \in D
    BY <2>2
  <2>4. i - (k + 1) < d
    BY <1>1, <1>4, <2>1
  <2>5. d <= i - (k + 1)
    <3> HIDE DEF D
    <3> QED
      BY <1>3, <2>3
  <2> QED
    BY <1>1, <1>4, <2>2, <2>4, <2>5
<1>6. \E h \in 1..i : Ok(h)
  <2>1. Ok(i - d)
    BY <1>4, <1>5
  <2> HIDE DEF Ok
  <2> QED
    BY <1>4, <2>1
<1>7. SegmentHead(f, i) = CHOOSE h \in 1..i : Ok(h)
  BY DEF SegmentHead
<1>8. SegmentHead(f, i) \in 1..i /\ Ok(SegmentHead(f, i))
  <2> HIDE DEF Ok
  <2> QED
    BY <1>6, <1>7
<1> QED
  BY <1>8

LEMMA DistinctPick ==
  ASSUME NEW s \in Seq(Line), NEW P \in SUBSET DOMAIN s,
         \A i, j \in P : i < j => s[i] # s[j]
  PROVE  \A n, m \in DOMAIN Pick(s, P) : n < m => Pick(s, P)[n] # Pick(s, P)[m]
<1> DEFINE C == Cardinality(P)
<1>1. C \in Nat
  BY PickOrder
<1>2. PICK f \in [1..C -> P] :
             /\ \A n, m \in 1..C : n < m => f[n] < f[m]
             /\ \A i \in P : \E n \in 1..C : f[n] = i
             /\ Pick(s, P) = [n \in 1..C |-> s[f[n]]]
  BY PickOrder
<1> HIDE DEF C
<1>3. \A n, m \in 1..C : n < m => s[f[n]] # s[f[m]]
  BY <1>2
<1> QED BY <1>1, <1>2, <1>3

\* The lines above what old versions appended stay, and no other does.
LEMMA LegacyGoes ==
  ASSUME NEW u \in Seq(Line), NEW t, Unmarked(u), Behind(u, t)
  PROVE  /\ StripLegacy(u \o t) \in Seq(Line) /\ Unmarked(StripLegacy(u \o t))
         /\ Lines(u) \subseteq Lines(StripLegacy(u \o t))
<1>0. t \in Seq(Line) /\ Copies(t)
  BY DEF Behind
<1> DEFINE g == u \o t
<1>1. /\ g \in Seq(Line) /\ Len(g) = Len(u) + Len(t) /\ Len(u) \in Nat /\ Len(t) \in Nat
      /\ DOMAIN g = 1..(Len(u) + Len(t)) /\ DOMAIN u = 1..Len(u) /\ DOMAIN t = 1..Len(t)
      /\ \A i \in 1..Len(u) : g[i] = u[i]
      /\ \A i \in 1..Len(t) : g[Len(u) + i] = t[i]
  BY <1>0
<1>2. CASE \A i \in DOMAIN g : g[i] \notin Headers
  <2>1. t = <<>>
    <3> SUFFICES ASSUME t # <<>> PROVE FALSE
      OBVIOUS
    <3>1. 1 \in 1..Len(t) /\ g[Len(u) + 1] = t[1] /\ Len(u) + 1 \in DOMAIN g
      BY <1>0, <1>1
    <3>2. t[1] = Separator
      BY <1>2, <3>1 DEF Behind
    <3>3. 1 + 1 \in DOMAIN t /\ t[1 + 1] \in Headers
      BY <1>1, <3>1, <3>2 DEF Behind, Copies
    <3>4. g[Len(u) + (1 + 1)] = t[1 + 1] /\ Len(u) + (1 + 1) \in DOMAIN g
      BY <1>1, <3>3
    <3> QED
      BY <1>2, <3>3, <3>4
  <2>2. g = u
    BY <2>1
  <2>3. StripLegacy(g) = g
    BY <1>2 DEF StripLegacy
  <2> QED
    BY <2>2, <2>3
<1>3. CASE \E i \in DOMAIN g : g[i] \in Headers
  <2> DEFINE I == {i \in DOMAIN g : g[i] # Separator /\ g[SegmentHead(g, i)] \notin Headers}
  <2>1. StripLegacy(g) = Pick(g, I) /\ I \in SUBSET DOMAIN g
    BY <1>3 DEF StripLegacy
  <2> HIDE DEF g
  <2>2. \A i \in 1..Len(u) : g[i] # Separator /\ g[i] \notin Headers
    BY <1>1 DEF Unmarked, Special
  <2>3. ASSUME NEW i \in 1..Len(u) PROVE i \in I
    <3>1. i \in DOMAIN g /\ g[i] # Separator
      BY <1>1, <2>2
    <3>2. /\ SegmentHead(g, i) \in 1..i
          /\ SegmentHead(g, i) = 1 \/ g[SegmentHead(g, i) - 1] = Separator
      BY <1>1, <3>1, SegmentHeadIs
    <3>3. SegmentHead(g, i) \in 1..Len(u)
      BY <1>1, <3>2
    <3> QED
      BY <2>2, <3>1, <3>3
  <2>4. ASSUME NEW i \in I PROVE i \in 1..Len(u)
    <3> SUFFICES ASSUME i > Len(u) PROVE FALSE
      BY <1>1
    <3>1. /\ i \in 1..(Len(u) + Len(t)) /\ g[i] # Separator
          /\ g[SegmentHead(g, i)] \notin Headers /\ i \in DOMAIN g
      BY <1>1
    <3> DEFINE h == SegmentHead(g, i)
    <3>2. /\ h \in 1..i /\ (h = 1 \/ g[h - 1] = Separator)
          /\ \A k \in h..i : g[k] # Separator
      BY <1>1, <3>1, SegmentHeadIs
    <3>3. g[h] \notin Headers
      BY <3>1
    <3> HIDE DEF h
    <3>4. t # <<>> /\ 1 \in 1..Len(t) /\ g[Len(u) + 1] = t[1]
      BY <1>1, <3>1
    <3>5. CASE h <= Len(u) + 1 /\ t[1] = Separator
      <4>1. Len(u) + 1 \in h..i
        BY <1>1, <3>1, <3>2, <3>5
      <4> QED
        BY <3>2, <3>4, <3>5, <4>1
    <3>6. CASE t[1] # Separator /\ h = 1
      <4>1. u = <<>> /\ t[1] \in Headers
        BY <3>4, <3>6 DEF Behind
      <4>2. g[1] = t[1]
        <5>1. Len(u) = 0
          BY <4>1
        <5> QED
          BY <3>4, <5>1
      <4> QED
        BY <3>3, <3>6, <4>1, <4>2
    <3>7. CASE (h > 1 /\ h > Len(u) + 1) \/ (t[1] # Separator /\ h > 1)
      <4>1. h > Len(u) + 1
        <5>1. CASE t[1] # Separator
          <6>1. u = <<>>
            BY <3>4, <5>1 DEF Behind
          <6>2. Len(u) = 0
            BY <6>1
          <6> QED
            BY <3>2, <3>7, <5>1, <6>2
        <5>2. CASE t[1] = Separator
          BY <3>7, <5>2
        <5> QED
          BY <5>1, <5>2
      <4> DEFINE k == h - 1 - Len(u)
      <4>2. /\ k \in 1..Len(t) /\ k + 1 \in 1..Len(t) /\ Len(u) + k = h - 1
            /\ Len(u) + (k + 1) = h /\ h # 1
        BY <1>1, <3>1, <3>2, <4>1
      <4> HIDE DEF k
      <4>3. t[k] = g[h - 1] /\ t[k + 1] = g[h]
        BY <1>1, <4>2
      <4>4. t[k] = Separator
        BY <3>2, <4>2, <4>3
      <4>5. t[k + 1] \in Headers
        BY <1>0, <1>1, <4>2, <4>4 DEF Copies
      <4> QED
        BY <3>3, <4>3, <4>5
    <3> QED
      BY <1>1, <3>2, <3>5, <3>6, <3>7
  <2>5. I = 1..Len(u)
    BY <2>3, <2>4
  <2> HIDE DEF I
  <2> DEFINE p == Pick(g, I)
  <2>6. /\ p \in Seq(Line)
        /\ \A n \in DOMAIN p : \E i \in I : p[n] = g[i]
        /\ \A i \in I : \E n \in DOMAIN p : p[n] = g[i]
    BY <1>1, <2>1, PickHolds
  <2>7. \A n \in DOMAIN p : p[n] \notin Special
    <3> SUFFICES ASSUME NEW n \in DOMAIN p PROVE p[n] \notin Special
      OBVIOUS
    <3> HIDE DEF p
    <3>1. PICK i \in 1..Len(u) : p[n] = g[i]
      BY <2>5, <2>6
    <3>2. g[i] = u[i] /\ i \in DOMAIN u
      BY <1>1
    <3> QED
      BY <3>1, <3>2 DEF Unmarked
  <2>8. \A n, m \in DOMAIN p : n < m => p[n] # p[m]
    <3>1. \A i, j \in I : i < j => g[i] # g[j]
      BY <1>1, <2>5 DEF Unmarked
    <3> QED
      BY <1>1, <2>1, <3>1, DistinctPick
  <2>9. Lines(u) \subseteq Lines(p)
    <3> SUFFICES ASSUME NEW i \in 1..Len(u) PROVE u[i] \in Lines(p)
      BY <1>1 DEF Lines
    <3>1. PICK n \in DOMAIN p : p[n] = g[i]
      BY <2>5, <2>6
    <3> QED
      BY <1>1, <3>1 DEF Lines
  <2> QED
    BY <2>1, <2>6, <2>7, <2>8, <2>9 DEF Unmarked, g
<1> QED
  BY <1>2, <1>3 DEF g

Regroups(a, b, c) == (a \o b) \o c = a \o (b \o c)

LEMMA ThreeJoined ==
  ASSUME NEW a \in Seq(Line), NEW b \in Seq(Line), NEW c \in Seq(Line)
  PROVE  /\ Regroups(a, b, c)
         /\ a \o <<>> = a /\ <<>> \o a = a
<1> DEFINE T == Line
<1>1. a \in Seq(T) /\ b \in Seq(T) /\ c \in Seq(T)
  OBVIOUS
<1> HIDE DEF T
<1> QED
  BY <1>1 DEF Regroups

LEMMA ClosedBelow ==
  ASSUME NEW t \in Seq(Line), Copies(t), NEW z \in Seq(Line), Bare(z)
  PROVE  t \o z \in Seq(Line) /\ Copies(t \o z)
<1> DEFINE y == t \o z
<1>1. /\ y \in Seq(Line) /\ Len(y) = Len(t) + Len(z) /\ Len(t) \in Nat /\ Len(z) \in Nat
      /\ DOMAIN y = 1..(Len(t) + Len(z))
      /\ DOMAIN t = 1..Len(t) /\ DOMAIN z = 1..Len(z)
      /\ \A i \in 1..Len(t) : y[i] = t[i]
      /\ \A i \in 1..Len(z) : y[Len(t) + i] = z[i]
  BY Joined
<1> HIDE DEF y
<1>2. ASSUME NEW i \in DOMAIN y
      PROVE  /\ y[i] \notin {BeginMark, EndMark}
             /\ y[i] = Separator => i + 1 \in DOMAIN y /\ y[i + 1] \in Headers
  <2>1. CASE i \in 1..Len(t)
    <3>1. /\ t[i] \notin {BeginMark, EndMark}
          /\ t[i] = Separator => i + 1 \in DOMAIN t /\ t[i + 1] \in Headers
      BY <1>1, <2>1 DEF Copies
    <3> QED
      BY <1>1, <2>1, <3>1
  <2>2. CASE i \notin 1..Len(t)
    <3>1. i - Len(t) \in 1..Len(z) /\ Len(t) + (i - Len(t)) = i
      BY <1>1, <2>2
    <3>2. y[i] = z[i - Len(t)]
      BY <1>1, <3>1
    <3>3. y[i] \notin Special
      BY <1>1, <3>1, <3>2 DEF Bare
    <3> QED
      BY <3>3, MarksDiffer
  <2> QED
    BY <2>1, <2>2
<1> QED
  BY <1>1, <1>2 DEF Copies, y

\* Above a block there is no other.
LEMMA NoMark ==
  ASSUME NEW u \in Seq(Line), NEW t, Unmarked(u), Behind(u, t)
  PROVE  /\ t \in Seq(Line) /\ u \o t \in Seq(Line)
         /\ \A i \in DOMAIN (u \o t) : (u \o t)[i] # BeginMark
<1> DEFINE y == u \o t
<1>0. t \in Seq(Line) /\ Copies(t)
  BY DEF Behind
<1>1. /\ y \in Seq(Line) /\ Len(u) \in Nat /\ Len(t) \in Nat
      /\ DOMAIN y = 1..(Len(u) + Len(t))
      /\ DOMAIN t = 1..Len(t) /\ DOMAIN u = 1..Len(u)
      /\ \A i \in 1..Len(u) : y[i] = u[i]
      /\ \A i \in 1..Len(t) : y[Len(u) + i] = t[i]
  BY <1>0, Joined
<1> HIDE DEF y
<1>2. ASSUME NEW i \in DOMAIN y PROVE y[i] # BeginMark
  <2>1. CASE i \in 1..Len(u)
    BY <1>1, <2>1, MarksDiffer DEF Unmarked
  <2>2. CASE i \notin 1..Len(u)
    <3>1. i - Len(u) \in 1..Len(t) /\ Len(u) + (i - Len(u)) = i
      BY <1>1, <2>2
    <3>2. y[i] = t[i - Len(u)]
      BY <1>1, <3>1
    <3> QED
      BY <1>0, <1>1, <3>1, <3>2 DEF Copies
  <2> QED
    BY <2>1, <2>2
<1> QED
  BY <1>0, <1>1, <1>2 DEF y

\* What a setup reads of the file.
Keeps(f, k) == /\ Preserved(f) \in Seq(Line) /\ Unmarked(Preserved(f))
               /\ k \subseteq Lines(Preserved(f))

LEMMA ReadsOpen == ASSUME NEW f, NEW k, OpenForm(f, k) PROVE Keeps(f, k)
<1>1. PICK u, t, m \in Seq(Line) :
        f = (u \o t) \o m /\ Unmarked(u) /\ Behind(u, t) /\ Unclosed(m) /\ k \subseteq Lines(u)
  BY DEF OpenForm
<1>2. StripManaged(f) = u \o t
  <2>1. u \o t \in Seq(Line) /\ \A i \in DOMAIN (u \o t) : (u \o t)[i] # BeginMark
    BY <1>1, NoMark
  <2> QED
    BY <1>1, <2>1, StripsOpen
<1>3. /\ StripLegacy(u \o t) \in Seq(Line) /\ Unmarked(StripLegacy(u \o t))
      /\ Lines(u) \subseteq Lines(StripLegacy(u \o t))
  BY <1>1, LegacyGoes
<1> QED
  BY <1>1, <1>2, <1>3 DEF Keeps, Preserved

LEMMA ReadsStale == ASSUME NEW f, NEW k, StaleForm(f, k) PROVE Keeps(f, k)
<1>1. PICK u, t, z \in Seq(Line), c \in Contents :
        /\ f = (u \o t) \o (Block(<<c>>) \o z) /\ t # <<>>
        /\ Unmarked(u) /\ Behind(u, t) /\ Bare(z) /\ k \subseteq Lines(u)
  BY DEF StaleForm
<1>2. StripManaged(f) = u \o (t \o z)
  <2>1. u \o t \in Seq(Line) /\ \A i \in DOMAIN (u \o t) : (u \o t)[i] # BeginMark
    BY <1>1, NoMark
  <2>2. StripManaged(f) = (u \o t) \o z
    BY <1>1, <2>1, StripsClosed
  <2> QED
    BY <2>2, ThreeJoined DEF Regroups
<1>3. Behind(u, t \o z)
  <2>1. t \o z \in Seq(Line) /\ Copies(t \o z)
    BY <1>1, ClosedBelow DEF Behind
  <2>2. (t \o z)[1] = t[1]
    <3>1. 1 \in 1..Len(t)
      BY <1>1
    <3> QED
      BY <3>1, Joined
  <2> QED
    BY <1>1, <2>1, <2>2 DEF Behind
<1>4. /\ StripLegacy(u \o (t \o z)) \in Seq(Line) /\ Unmarked(StripLegacy(u \o (t \o z)))
      /\ Lines(u) \subseteq Lines(StripLegacy(u \o (t \o z)))
  BY <1>1, <1>3, LegacyGoes
<1> QED
  BY <1>1, <1>2, <1>4 DEF Keeps, Preserved

LEMMA ReadsWhole ==
  ASSUME NEW f, NEW k, NEW c \in Contents, WholeForm(f, k, c) PROVE Keeps(f, k)
<1>1. PICK u, z \in Seq(Line) :
        f = u \o (Block(<<c>>) \o z) /\ Unmarked(u \o z) /\ k \subseteq Lines(u \o z)
  BY DEF WholeForm
<1>2. u \o z \in Seq(Line) /\ \A i \in DOMAIN u : u[i] # BeginMark
  <2>1. u \o z \in Seq(Line) /\ \A i \in DOMAIN u : i \in DOMAIN (u \o z) /\ (u \o z)[i] = u[i]
    BY Joined
  <2> QED
    BY <1>1, <2>1, MarksDiffer DEF Unmarked
<1>3. StripManaged(f) = u \o z
  BY <1>1, <1>2, StripsClosed
<1>4. StripLegacy(u \o z) = u \o z
  <2>1. \A i \in DOMAIN (u \o z) : (u \o z)[i] \notin Headers
    BY <1>1 DEF Unmarked, Special
  <2> QED
    BY <2>1 DEF StripLegacy
<1> QED
  BY <1>1, <1>2, <1>3, <1>4 DEF Keeps, Preserved

LEMMA Reads ==
  ASSUME NEW f, NEW k,
         OpenForm(f, k) \/ StaleForm(f, k) \/ \E c \in Contents : WholeForm(f, k, c)
  PROVE  Keeps(f, k)
BY ReadsOpen, ReadsStale, ReadsWhole

-----------------------------------------------------------------------------
(* The file in its forms.                                                   *)

LEMMA JoinedLines ==
  ASSUME NEW a \in Seq(Line), NEW b \in Seq(Line)
  PROVE  Lines(a \o b) = Lines(a) \cup Lines(b)
<1> DEFINE y == a \o b
<1>1. /\ DOMAIN y = 1..(Len(a) + Len(b)) /\ Len(a) \in Nat /\ Len(b) \in Nat
      /\ DOMAIN a = 1..Len(a) /\ DOMAIN b = 1..Len(b)
      /\ \A i \in 1..Len(a) : y[i] = a[i]
      /\ \A i \in 1..Len(b) : y[Len(a) + i] = b[i]
  BY Joined
<1> HIDE DEF y
<1>2. ASSUME NEW i \in DOMAIN y PROVE y[i] \in Lines(a) \cup Lines(b)
  <2>1. CASE i \in 1..Len(a)
    BY <1>1, <2>1 DEF Lines
  <2>2. CASE i \notin 1..Len(a)
    <3>1. i - Len(a) \in 1..Len(b) /\ Len(a) + (i - Len(a)) = i
      BY <1>1, <2>2
    <3>2. y[i] = b[i - Len(a)]
      BY <1>1, <3>1
    <3> QED
      BY <1>1, <3>1, <3>2 DEF Lines
  <2> QED
    BY <2>1, <2>2
<1>3. ASSUME NEW i \in DOMAIN a PROVE a[i] \in Lines(y)
  BY <1>1 DEF Lines
<1>4. ASSUME NEW i \in DOMAIN b PROVE b[i] \in Lines(y)
  <2>1. Len(a) + i \in DOMAIN y /\ y[Len(a) + i] = b[i]
    BY <1>1
  <2> QED
    BY <2>1 DEF Lines
<1> QED
  BY <1>2, <1>3, <1>4 DEF Lines, y

LEMMA OneLine == ASSUME NEW l \in Line PROVE <<l>> \in Seq(Line) /\ Lines(<<l>>) = {l}
<1>1. DOMAIN <<l>> = {1} /\ <<l>>[1] = l
  OBVIOUS
<1> QED
  BY <1>1 DEF Lines

LEMMA BlockLines ==
  ASSUME NEW c \in Contents PROVE Lines(Block(<<c>>)) = {BeginMark, c, EndMark}
<1>1. Block(<<c>>) = <<BeginMark, c, EndMark>>
  BY BlockIs
<1> DEFINE q == Block(<<c>>)
<1>2. DOMAIN q = {1, 2, 3} /\ q[1] = BeginMark /\ q[2] = c /\ q[3] = EndMark
  BY <1>1
<1> HIDE DEF q
<1> QED
  BY <1>2 DEF Lines, q

\* The lines that have to stay are there, and are the user's.
KeptAreMine(f, k) == f \in Seq(Line) /\ k \subseteq Lines(f) /\ k \cap Special = {}

LEMMA OpenHolds == ASSUME NEW f, NEW k, OpenForm(f, k) PROVE KeptAreMine(f, k)
<1>1. PICK u, t, m \in Seq(Line) :
        f = (u \o t) \o m /\ Unmarked(u) /\ k \subseteq Lines(u)
  BY DEF OpenForm
<1>2. u \o t \in Seq(Line) /\ (u \o t) \o m \in Seq(Line)
  BY Joined
<1>3. Lines(u \o t) = Lines(u) \cup Lines(t)
  BY JoinedLines
<1>4. Lines((u \o t) \o m) = Lines(u \o t) \cup Lines(m)
  BY <1>2, JoinedLines
<1>5. Lines(u) \cap Special = {}
  BY <1>1 DEF Unmarked, Lines
<1> QED
  BY <1>1, <1>2, <1>3, <1>4, <1>5 DEF KeptAreMine

LEMMA StaleHolds ==
  ASSUME NEW f, NEW k, StaleForm(f, k) PROVE KeptAreMine(f, k) /\ BeginMark \in Lines(f)
<1>1. PICK u, t, z \in Seq(Line), c \in Contents :
        f = (u \o t) \o (Block(<<c>>) \o z) /\ Unmarked(u) /\ k \subseteq Lines(u)
  BY DEF StaleForm
<1>2. Block(<<c>>) \in Seq(Line) /\ Lines(Block(<<c>>)) = {BeginMark, c, EndMark}
  BY BlockIs, BlockLines
<1>3. u \o t \in Seq(Line) /\ Block(<<c>>) \o z \in Seq(Line)
  BY <1>2, Joined
<1>4. (u \o t) \o (Block(<<c>>) \o z) \in Seq(Line)
  BY <1>3, Joined
<1>5. Lines(u \o t) = Lines(u) \cup Lines(t)
  BY JoinedLines
<1>6. Lines(Block(<<c>>) \o z) = Lines(Block(<<c>>)) \cup Lines(z)
  BY <1>2, JoinedLines
<1>7. Lines((u \o t) \o (Block(<<c>>) \o z)) = Lines(u \o t) \cup Lines(Block(<<c>>) \o z)
  BY <1>3, JoinedLines
<1>8. Lines(u) \cap Special = {}
  BY <1>1 DEF Unmarked, Lines
<1> QED
  BY <1>1, <1>2, <1>4, <1>5, <1>6, <1>7, <1>8 DEF KeptAreMine

LEMMA WholeHolds ==
  ASSUME NEW f, NEW k, NEW c \in Contents, WholeForm(f, k, c) PROVE KeptAreMine(f, k)
<1>1. PICK u, z \in Seq(Line) :
        f = u \o (Block(<<c>>) \o z) /\ Unmarked(u \o z) /\ k \subseteq Lines(u \o z)
  BY DEF WholeForm
<1>2. Block(<<c>>) \in Seq(Line)
  BY BlockIs
<1>3. Block(<<c>>) \o z \in Seq(Line) /\ u \o z \in Seq(Line)
  BY <1>2, Joined
<1>4. u \o (Block(<<c>>) \o z) \in Seq(Line)
  BY <1>3, Joined
<1>5. Lines(u \o z) = Lines(u) \cup Lines(z)
  BY JoinedLines
<1>6. Lines(Block(<<c>>) \o z) = Lines(Block(<<c>>)) \cup Lines(z)
  BY <1>2, JoinedLines
<1>7. Lines(u \o (Block(<<c>>) \o z)) = Lines(u) \cup Lines(Block(<<c>>) \o z)
  BY <1>3, JoinedLines
<1>8. Lines(u \o z) \cap Special = {}
  BY <1>1 DEF Unmarked, Lines
<1> QED
  BY <1>1, <1>4, <1>5, <1>6, <1>7, <1>8 DEF KeptAreMine

\* One block, about c, and around it lines of the user, none twice.
OneBlock(f, c) == \E b \in DOMAIN f :
  /\ f[b] = BeginMark /\ b + 2 \in DOMAIN f /\ f[b + 2] = EndMark /\ f[b + 1] = c
  /\ \A i \in DOMAIN f \ (b..b + 2) : f[i] \notin Special
  /\ \A i, j \in DOMAIN f : i < j => f[i] # f[j]

LEMMA WholeIs ==
  ASSUME NEW f, NEW k, NEW c \in Contents, WholeForm(f, k, c) PROVE OneBlock(f, c)
<1>1. PICK u, z \in Seq(Line) : f = u \o (Block(<<c>>) \o z) /\ Unmarked(u \o z)
  BY DEF WholeForm
<1>2. InPlaces(f, u, c, z)
  BY <1>1, BlockInPlace
<1>3. /\ f \in Seq(Line) /\ Len(f) = Len(u) + 3 + Len(z)
      /\ Len(u) \in Nat /\ Len(z) \in Nat /\ DOMAIN f = 1..Len(f)
      /\ \A i \in 1..Len(u) : f[i] = u[i]
      /\ f[Len(u) + 1] = BeginMark /\ f[Len(u) + 2] = c /\ f[Len(u) + 3] = EndMark
      /\ \A i \in 1..Len(z) : f[Len(u) + 3 + i] = z[i]
  BY <1>2 DEF InPlaces
<1> DEFINE v == u \o z
           b == Len(u) + 1
<1>4. /\ DOMAIN v = 1..(Len(u) + Len(z))
      /\ \A i \in 1..Len(u) : v[i] = u[i]
      /\ \A i \in 1..Len(z) : v[Len(u) + i] = z[i]
  BY Joined
<1>5. /\ \A i \in DOMAIN v : v[i] \notin Special
      /\ \A i, j \in DOMAIN v : i < j => v[i] # v[j]
  BY <1>1 DEF Unmarked
<1> HIDE DEF v
<1> DEFINE Around(i) == IF i < b THEN i ELSE i - 3
<1>6. ASSUME NEW i \in DOMAIN f \ (b..b + 2)
      PROVE  Around(i) \in DOMAIN v /\ f[i] = v[Around(i)]
  <2>1. CASE i < b
    <3>1. i \in 1..Len(u) /\ i \in 1..(Len(u) + Len(z))
      BY <1>3, <2>1
    <3> QED
      BY <1>3, <1>4, <2>1, <3>1
  <2>2. CASE i >= b
    <3>0. i \in Int /\ i <= Len(u) + 3 + Len(z) /\ i > Len(u) + 3
      BY <1>3, <2>2
    <3>1. /\ i - 3 - Len(u) \in 1..Len(z) /\ Len(u) + 3 + (i - 3 - Len(u)) = i
          /\ Len(u) + (i - 3 - Len(u)) = i - 3 /\ ~(i < b)
          /\ i - 3 \in 1..(Len(u) + Len(z))
      BY <1>3, <3>0
    <3>2. f[i] = z[i - 3 - Len(u)] /\ v[i - 3] = z[i - 3 - Len(u)]
      BY <1>3, <1>4, <3>1
    <3> QED
      BY <1>4, <3>1, <3>2
  <2> QED
    BY <1>3, <2>1, <2>2
<1>7. ASSUME NEW i \in DOMAIN f \cap (b..b + 2)
      PROVE  /\ i = b \/ i = b + 1 \/ i = b + 2
             /\ f[i] \in Special /\ f[b] = BeginMark /\ f[b + 1] = c /\ f[b + 2] = EndMark
  <2>1. /\ i = Len(u) + 1 \/ i = Len(u) + 2 \/ i = Len(u) + 3
        /\ b = Len(u) + 1 /\ b + 1 = Len(u) + 2 /\ b + 2 = Len(u) + 3
    BY <1>3
  <2> QED
    BY <1>3, <2>1, MarksDiffer
<1>8. ASSUME NEW i \in DOMAIN f, NEW j \in DOMAIN f, i < j PROVE f[i] # f[j]
  <2>1. CASE i \in b..b + 2 /\ j \in b..b + 2
    BY <1>3, <1>7, <1>8, <2>1, MarksDiffer
  <2>2. CASE i \notin b..b + 2 /\ j \in b..b + 2
    BY <1>5, <1>6, <1>7, <2>2
  <2>3. CASE i \in b..b + 2 /\ j \notin b..b + 2
    BY <1>5, <1>6, <1>7, <2>3
  <2>4. CASE i \notin b..b + 2 /\ j \notin b..b + 2
    <3>1. Around(i) < Around(j)
      BY <1>3, <1>8, <2>4
    <3>2. Around(i) \in DOMAIN v /\ Around(j) \in DOMAIN v
          /\ f[i] = v[Around(i)] /\ f[j] = v[Around(j)]
      BY <1>6, <2>4
    <3> HIDE DEF Around
    <3> QED
      BY <1>5, <3>1, <3>2
  <2> QED
    BY <2>1, <2>2, <2>3, <2>4
<1>9. b \in DOMAIN f /\ b + 2 \in DOMAIN f /\ f[b] = BeginMark /\ f[b + 2] = EndMark /\ f[b + 1] = c
  <2>1. b \in DOMAIN f /\ b + 2 \in DOMAIN f /\ b + 1 = Len(u) + 2 /\ b + 2 = Len(u) + 3
    BY <1>3
  <2> QED
    BY <1>3, <2>1
<1>10. \A i \in DOMAIN f \ (b..b + 2) : f[i] \notin Special
  BY <1>5, <1>6
<1> HIDE DEF b
<1> QED
  BY <1>8, <1>9, <1>10 DEF OneBlock

-----------------------------------------------------------------------------
(* The user adds a line.                                                    *)

LEMMA LineAbove ==
  ASSUME NEW u \in Seq(Line), Unmarked(u), NEW l \in Line, l \notin Special, l \notin Lines(u)
  PROVE  Unmarked(<<l>> \o u)
<1> DEFINE y == <<l>> \o u
<1>1. /\ DOMAIN y = 1..(1 + Len(u)) /\ Len(u) \in Nat /\ DOMAIN u = 1..Len(u)
      /\ y[1] = l /\ \A i \in 1..Len(u) : y[1 + i] = u[i]
  OBVIOUS
<1>2. \A i \in 1..Len(u) : u[i] # l /\ u[i] \notin Special
  BY <1>1 DEF Lines, Unmarked
<1> HIDE DEF y
<1>3. ASSUME NEW i \in DOMAIN y, i # 1 PROVE i - 1 \in 1..Len(u) /\ y[i] = u[i - 1]
  <2>1. i - 1 \in 1..Len(u) /\ 1 + (i - 1) = i
    BY <1>1, <1>3
  <2> QED
    BY <1>1, <2>1
<1>4. \A i \in DOMAIN y : y[i] \notin Special
  BY <1>1, <1>2, <1>3
<1>5. ASSUME NEW i \in DOMAIN y, NEW j \in DOMAIN y, i < j PROVE y[i] # y[j]
  <2>1. j # 1 /\ j - 1 \in 1..Len(u) /\ y[j] = u[j - 1]
    BY <1>1, <1>3, <1>5
  <2>2. CASE i = 1
    BY <1>1, <1>2, <2>1, <2>2
  <2>3. CASE i # 1
    <3>1. i - 1 \in 1..Len(u) /\ y[i] = u[i - 1] /\ i - 1 < j - 1
      BY <1>1, <1>3, <1>5, <2>3
    <3> QED
      BY <1>1, <2>1, <3>1 DEF Unmarked
  <2> QED
    BY <2>2, <2>3
<1> QED
  BY <1>4, <1>5 DEF Unmarked, y

LEMMA LineBelow ==
  ASSUME NEW u \in Seq(Line), Unmarked(u), NEW l \in Line, l \notin Special, l \notin Lines(u)
  PROVE  Unmarked(u \o <<l>>)
<1> DEFINE y == u \o <<l>>
<1>1. /\ DOMAIN y = 1..(Len(u) + 1) /\ Len(u) \in Nat /\ DOMAIN u = 1..Len(u)
      /\ y[Len(u) + 1] = l /\ \A i \in 1..Len(u) : y[i] = u[i]
  OBVIOUS
<1>2. \A i \in 1..Len(u) : u[i] # l /\ u[i] \notin Special
  BY <1>1 DEF Lines, Unmarked
<1> HIDE DEF y
<1>3. \A i \in DOMAIN y : i \in 1..Len(u) \/ i = Len(u) + 1
  BY <1>1
<1>4. \A i \in DOMAIN y : y[i] \notin Special
  BY <1>1, <1>2, <1>3
<1>5. ASSUME NEW i \in DOMAIN y, NEW j \in DOMAIN y, i < j PROVE y[i] # y[j]
  <2>1. i \in 1..Len(u)
    BY <1>1, <1>5
  <2>2. CASE j = Len(u) + 1
    BY <1>1, <1>2, <2>1, <2>2
  <2>3. CASE j \in 1..Len(u)
    BY <1>1, <1>5, <2>1, <2>3 DEF Unmarked
  <2> QED
    BY <1>3, <2>2, <2>3
<1> QED
  BY <1>4, <1>5 DEF Unmarked, y

LEMMA Fewer == ASSUME NEW f, NEW k, NEW h, h \subseteq k
  PROVE  /\ OpenForm(f, k) => OpenForm(f, h)
         /\ StaleForm(f, k) => StaleForm(f, h)
         /\ \A c \in Contents : WholeForm(f, k, c) => WholeForm(f, h, c)
BY DEF OpenForm, StaleForm, WholeForm

\* Above copies of old versions only a separator, or none.
LEMMA AboveCopies ==
  ASSUME NEW u \in Seq(Line), NEW t, NEW w \in Seq(Line), NEW l \in Line, Behind(u, t),
         (u \o t) \o w # <<>> => ((u \o t) \o w)[1] \notin Headers
  PROVE  Behind(<<l>> \o u, t)
<1>1. t \in Seq(Line)
  BY DEF Behind
<1>2. ASSUME t # <<>> PROVE t[1] = Separator
  <2>1. CASE u = <<>> /\ t[1] \in Headers
    <3>1. u \o t = t
      BY <1>1, <2>1
    <3>2. 1 \in 1..Len(t)
      BY <1>1, <1>2
    <3>3. (t \o w)[1] = t[1] /\ Len(t \o w) = Len(t) + Len(w)
      BY <1>1, <3>2, Joined
    <3>4. t \o w # <<>>
      <4>1. Len(t \o w) > 0
        BY <3>2, <3>3
      <4> QED
        BY <4>1
    <3> QED
      BY <2>1, <3>1, <3>3, <3>4
  <2> QED
    BY <1>2, <2>1 DEF Behind
<1> QED
  BY <1>1, <1>2 DEF Behind

Shifts(l, u, t, w) ==
  /\ <<l>> \in Seq(Line) /\ <<l>> \o u \in Seq(Line) /\ t \o <<l>> \in Seq(Line)
  /\ w \o <<l>> \in Seq(Line) /\ u \o t \in Seq(Line)
  /\ <<l>> \o ((u \o t) \o w) = ((<<l>> \o u) \o t) \o w
  /\ ((u \o t) \o w) \o <<l>> = (u \o t) \o (w \o <<l>>)

LEMMA FourJoined ==
  ASSUME NEW l \in Line, NEW u \in Seq(Line), NEW t \in Seq(Line), NEW w \in Seq(Line)
  PROVE  /\ Shifts(l, u, t, w)
         /\ Lines(<<l>> \o u) = {l} \cup Lines(u)
         /\ Lines(u \o <<l>>) = Lines(u) \cup {l}
<1> DEFINE o == <<l>>
<1>1. o \in Seq(Line) /\ Lines(o) = {l}
  BY OneLine
<1> HIDE DEF o
<1>2. /\ o \o u \in Seq(Line) /\ t \o o \in Seq(Line)
      /\ w \o o \in Seq(Line) /\ u \o t \in Seq(Line)
  BY <1>1, Joined
<1>p. PICK p \in Seq(Line) : p = u \o t
  BY <1>2
<1>3. o \o ((u \o t) \o w) = (o \o (u \o t)) \o w
  <2>1. (o \o p) \o w = o \o (p \o w)
    <3>1. Regroups(o, p, w)
      BY <1>1, ThreeJoined
    <3> QED
      BY <3>1 DEF Regroups
  <2> QED
    BY <1>p, <2>1
<1>4. o \o (u \o t) = (o \o u) \o t
  <2>1. Regroups(o, u, t)
    BY <1>1, ThreeJoined
  <2> QED
    BY <2>1 DEF Regroups
<1>5. ((u \o t) \o w) \o o = (u \o t) \o (w \o o)
  <2>1. (p \o w) \o o = p \o (w \o o)
    <3>1. Regroups(p, w, o)
      BY <1>1, ThreeJoined
    <3> QED
      BY <3>1 DEF Regroups
  <2> QED
    BY <1>p, <2>1
<1>6. Lines(o \o u) = {l} \cup Lines(u) /\ Lines(u \o o) = Lines(u) \cup {l}
  BY <1>1, JoinedLines
<1> QED
  BY <1>1, <1>2, <1>3, <1>4, <1>5, <1>6, Zenon DEF o, Shifts

LEMMA OpenAbove ==
  ASSUME NEW f, NEW k, OpenForm(f, k), NEW l \in Line, l \notin Special, l \notin Lines(f),
         f # <<>> => f[1] \notin Headers
  PROVE  OpenForm(<<l>> \o f, k \cup {l})
<1>1. PICK u, t, m \in Seq(Line) :
        f = (u \o t) \o m /\ Unmarked(u) /\ Behind(u, t) /\ Unclosed(m) /\ k \subseteq Lines(u)
  BY DEF OpenForm
<1>2. l \notin Lines(u)
  <2>1. u \o t \in Seq(Line) /\ Lines(u \o t) = Lines(u) \cup Lines(t)
    BY Joined, JoinedLines
  <2>2. Lines((u \o t) \o m) = Lines(u \o t) \cup Lines(m)
    BY <2>1, JoinedLines
  <2> QED
    BY <1>1, <2>1, <2>2
<1>3. <<l>> \o u \in Seq(Line) /\ <<l>> \o f = ((<<l>> \o u) \o t) \o m
  <2>1. /\ <<l>> \o u \in Seq(Line)
        /\ <<l>> \o ((u \o t) \o m) = ((<<l>> \o u) \o t) \o m
    <3>1. Shifts(l, u, t, m)
      BY FourJoined
    <3> QED
      BY <3>1, Zenon DEF Shifts
  <2> QED
    BY <1>1, <2>1, Zenon
<1>4. Behind(<<l>> \o u, t)
  BY <1>1, AboveCopies
<1>5. Unmarked(<<l>> \o u)
  BY <1>1, <1>2, LineAbove
<1>6. Lines(<<l>> \o u) = {l} \cup Lines(u)
  BY FourJoined, Zenon
<1>7. k \cup {l} \subseteq Lines(<<l>> \o u)
  BY <1>1, <1>6
<1> DEFINE v == <<l>> \o u
<1>8. v \in Seq(Line) /\ <<l>> \o f = (v \o t) \o m /\ Unmarked(v) /\ Behind(v, t)
      /\ k \cup {l} \subseteq Lines(v)
  BY <1>3, <1>4, <1>5, <1>7
<1> HIDE DEF v
<1> QED
  BY <1>1, <1>8 DEF OpenForm

LEMMA StaleAbove ==
  ASSUME NEW f, NEW k, StaleForm(f, k), NEW l \in Line, l \notin Special, l \notin Lines(f),
         f # <<>> => f[1] \notin Headers
  PROVE  StaleForm(<<l>> \o f, k \cup {l})
<1>1. PICK u, t, z \in Seq(Line), c \in Contents :
        /\ f = (u \o t) \o (Block(<<c>>) \o z) /\ t # <<>>
        /\ Unmarked(u) /\ Behind(u, t) /\ Bare(z) /\ k \subseteq Lines(u)
  BY DEF StaleForm
<1>a. PICK w \in Seq(Line) : w = Block(<<c>>) \o z
  BY BlockIs, Joined
<1>2. l \notin Lines(u)
  <2>1. u \o t \in Seq(Line) /\ Lines(u \o t) = Lines(u) \cup Lines(t)
    BY Joined, JoinedLines
  <2>2. Lines((u \o t) \o w) = Lines(u \o t) \cup Lines(w)
    BY <2>1, JoinedLines
  <2> QED
    BY <1>1, <1>a, <2>1, <2>2
<1>3. <<l>> \o u \in Seq(Line) /\ <<l>> \o f = ((<<l>> \o u) \o t) \o w
  <2>1. /\ <<l>> \o u \in Seq(Line)
        /\ <<l>> \o ((u \o t) \o w) = ((<<l>> \o u) \o t) \o w
    <3>1. Shifts(l, u, t, w)
      BY FourJoined
    <3> QED
      BY <3>1, Zenon DEF Shifts
  <2> QED
    BY <1>1, <1>a, <2>1, Zenon
<1>4. Behind(<<l>> \o u, t)
  <2>1. (u \o t) \o w # <<>> => ((u \o t) \o w)[1] \notin Headers
    BY <1>1, <1>a
  <2> QED
    BY <1>1, <2>1, AboveCopies
<1>5. Unmarked(<<l>> \o u)
  BY <1>1, <1>2, LineAbove
<1>6. Lines(<<l>> \o u) = {l} \cup Lines(u)
  BY FourJoined, Zenon
<1>7. k \cup {l} \subseteq Lines(<<l>> \o u)
  BY <1>1, <1>6
<1> DEFINE v == <<l>> \o u
<1>8. v \in Seq(Line) /\ <<l>> \o f = (v \o t) \o (Block(<<c>>) \o z) /\ Unmarked(v)
      /\ Behind(v, t) /\ k \cup {l} \subseteq Lines(v)
  BY <1>3, <1>4, <1>5, <1>7, <1>a
<1> HIDE DEF v
<1> QED
  BY <1>1, <1>8 DEF StaleForm

LEMMA WholeAbove ==
  ASSUME NEW f, NEW k, NEW c \in Contents, WholeForm(f, k, c),
         NEW l \in Line, l \notin Special, l \notin Lines(f)
  PROVE  WholeForm(<<l>> \o f, k \cup {l}, c)
<1>1. PICK u, z \in Seq(Line) :
        f = u \o (Block(<<c>>) \o z) /\ Unmarked(u \o z) /\ k \subseteq Lines(u \o z)
  BY DEF WholeForm
<1>a. Block(<<c>>) \in Seq(Line) /\ <<l>> \in Seq(Line) /\ Lines(<<l>>) = {l}
  BY BlockIs, OneLine
<1>b. /\ Block(<<c>>) \o z \in Seq(Line) /\ u \o z \in Seq(Line) /\ <<l>> \o u \in Seq(Line)
  BY <1>a, Joined
<1>2. l \notin Lines(u \o z)
  <2>1. Lines(u \o (Block(<<c>>) \o z)) = Lines(u) \cup Lines(Block(<<c>>) \o z)
    BY <1>b, JoinedLines
  <2>2. Lines(Block(<<c>>) \o z) = Lines(Block(<<c>>)) \cup Lines(z)
    BY <1>a, JoinedLines
  <2>3. Lines(u \o z) = Lines(u) \cup Lines(z)
    BY JoinedLines
  <2> QED
    BY <1>1, <2>1, <2>2, <2>3
<1>3. <<l>> \o (u \o (Block(<<c>>) \o z)) = (<<l>> \o u) \o (Block(<<c>>) \o z)
  <2>1. Regroups(<<l>>, u, (Block(<<c>>) \o z))
    BY <1>a, <1>b, ThreeJoined
  <2> QED
    BY <2>1 DEF Regroups
<1>4. <<l>> \o (u \o z) = (<<l>> \o u) \o z
  <2>1. Regroups(<<l>>, u, z)
    BY <1>a, ThreeJoined
  <2> QED
    BY <2>1 DEF Regroups
<1>5. Unmarked(<<l>> \o (u \o z))
  BY <1>1, <1>b, <1>2, LineAbove
<1>6. Lines(<<l>> \o (u \o z)) = {l} \cup Lines(u \o z)
  BY <1>b, FourJoined, Zenon
<1> DEFINE v == <<l>> \o u
<1>8. v \in Seq(Line) /\ <<l>> \o f = v \o (Block(<<c>>) \o z) /\ Unmarked(v \o z)
      /\ k \cup {l} \subseteq Lines(v \o z)
  BY <1>1, <1>b, <1>3, <1>4, <1>5, <1>6
<1> HIDE DEF v
<1> QED
  BY <1>8 DEF WholeForm

LEMMA WholeBelow ==
  ASSUME NEW f, NEW k, NEW c \in Contents, WholeForm(f, k, c),
         NEW l \in Line, l \notin Special, l \notin Lines(f)
  PROVE  WholeForm(f \o <<l>>, k \cup {l}, c)
<1>1. PICK u, z \in Seq(Line) :
        f = u \o (Block(<<c>>) \o z) /\ Unmarked(u \o z) /\ k \subseteq Lines(u \o z)
  BY DEF WholeForm
<1>a. Block(<<c>>) \in Seq(Line) /\ <<l>> \in Seq(Line) /\ Lines(<<l>>) = {l}
  BY BlockIs, OneLine
<1>b. /\ Block(<<c>>) \o z \in Seq(Line) /\ u \o z \in Seq(Line) /\ z \o <<l>> \in Seq(Line)
  BY <1>a, Joined
<1>2. l \notin Lines(u \o z)
  <2>1. Lines(u \o (Block(<<c>>) \o z)) = Lines(u) \cup Lines(Block(<<c>>) \o z)
    BY <1>b, JoinedLines
  <2>2. Lines(Block(<<c>>) \o z) = Lines(Block(<<c>>)) \cup Lines(z)
    BY <1>a, JoinedLines
  <2>3. Lines(u \o z) = Lines(u) \cup Lines(z)
    BY JoinedLines
  <2> QED
    BY <1>1, <2>1, <2>2, <2>3
<1>3. (u \o (Block(<<c>>) \o z)) \o <<l>> = u \o ((Block(<<c>>) \o z) \o <<l>>)
  <2>1. Regroups(u, (Block(<<c>>) \o z), <<l>>)
    BY <1>a, <1>b, ThreeJoined
  <2> QED
    BY <2>1 DEF Regroups
<1>c. (Block(<<c>>) \o z) \o <<l>> = Block(<<c>>) \o (z \o <<l>>)
  <2>1. Regroups(Block(<<c>>), z, <<l>>)
    BY <1>a, ThreeJoined
  <2> QED
    BY <2>1 DEF Regroups
<1>4. (u \o z) \o <<l>> = u \o (z \o <<l>>)
  <2>1. Regroups(u, z, <<l>>)
    BY <1>a, ThreeJoined
  <2> QED
    BY <2>1 DEF Regroups
<1>5. Unmarked((u \o z) \o <<l>>)
  BY <1>1, <1>b, <1>2, LineBelow
<1>6. Lines((u \o z) \o <<l>>) = Lines(u \o z) \cup {l}
  BY <1>b, FourJoined, Zenon
<1> DEFINE v == z \o <<l>>
<1>8. v \in Seq(Line) /\ f \o <<l>> = u \o (Block(<<c>>) \o v) /\ Unmarked(u \o v)
      /\ k \cup {l} \subseteq Lines(u \o v)
  BY <1>1, <1>b, <1>3, <1>c, <1>4, <1>5, <1>6
<1> HIDE DEF v
<1> QED
  BY <1>8 DEF WholeForm

LEMMA StaleBelow ==
  ASSUME NEW f, NEW k, StaleForm(f, k), NEW l \in Line, l \notin Special
  PROVE  StaleForm(f \o <<l>>, k)
<1>1. PICK u, t, z \in Seq(Line), c \in Contents :
        /\ f = (u \o t) \o (Block(<<c>>) \o z) /\ t # <<>>
        /\ Unmarked(u) /\ Behind(u, t) /\ Bare(z) /\ k \subseteq Lines(u)
  BY DEF StaleForm
<1>a. Block(<<c>>) \in Seq(Line) /\ <<l>> \in Seq(Line)
  BY BlockIs, OneLine
<1>b. Block(<<c>>) \o z \in Seq(Line) /\ z \o <<l>> \in Seq(Line) /\ u \o t \in Seq(Line)
  BY <1>a, Joined
<1>2. ((u \o t) \o (Block(<<c>>) \o z)) \o <<l>> = (u \o t) \o ((Block(<<c>>) \o z) \o <<l>>)
  <2>1. PICK w \in Seq(Line) : w = Block(<<c>>) \o z
    BY <1>b
  <2>2. Shifts(l, u, t, w)
    BY FourJoined
  <2> QED
    BY <2>1, <2>2, Zenon DEF Shifts
<1>3. (Block(<<c>>) \o z) \o <<l>> = Block(<<c>>) \o (z \o <<l>>)
  <2>1. Regroups(Block(<<c>>), z, <<l>>)
    BY <1>a, ThreeJoined
  <2> QED
    BY <2>1 DEF Regroups
<1>4. Bare(z \o <<l>>)
  <2>1. Lines(z \o <<l>>) = Lines(z) \cup {l}
    BY <1>a, JoinedLines, OneLine
  <2>2. Lines(z) \cap Special = {}
    BY <1>1 DEF Bare, Lines
  <2>3. Lines(z \o <<l>>) \cap Special = {}
    BY <2>1, <2>2
  <2> QED
    BY <2>3 DEF Bare, Lines
<1> DEFINE v == z \o <<l>>
<1>8. v \in Seq(Line) /\ f \o <<l>> = (u \o t) \o (Block(<<c>>) \o v) /\ Bare(v)
  BY <1>1, <1>b, <1>2, <1>3, <1>4
<1> HIDE DEF v
<1> QED
  BY <1>1, <1>8 DEF StaleForm

\* Below a file without a block and without copies the line is kept.
LEMMA OpenBelow ==
  ASSUME NEW f, NEW k, OpenForm(f, k), NEW l \in Line, l \notin Special, l \notin Lines(f)
  PROVE  /\ OpenForm(f \o <<l>>, k)
         /\ Lines(f) \cap ({BeginMark} \cup Headers) = {} => OpenForm(f \o <<l>>, k \cup {l})
<1>1. PICK u, t, m \in Seq(Line) :
        f = (u \o t) \o m /\ Unmarked(u) /\ Behind(u, t) /\ Unclosed(m) /\ k \subseteq Lines(u)
  BY DEF OpenForm
<1>a. <<l>> \in Seq(Line) /\ Lines(<<l>>) = {l} /\ Unclosed(<<>>) /\ <<>> \in Seq(Line)
  BY OneLine DEF Unclosed
<1>b. /\ u \o t \in Seq(Line) /\ u \o <<l>> \in Seq(Line) /\ t \o <<l>> \in Seq(Line)
      /\ m \o <<l>> \in Seq(Line)
  BY <1>a, Joined
<1>c. Lines(f) = Lines(u) \cup Lines(t) \cup Lines(m)
  <2>1. Lines(u \o t) = Lines(u) \cup Lines(t)
    BY JoinedLines
  <2>2. Lines((u \o t) \o m) = Lines(u \o t) \cup Lines(m)
    BY <1>b, JoinedLines
  <2> QED
    BY <1>1, <2>1, <2>2
<1>2. CASE m # <<>>
  <2>1. f \o <<l>> = (u \o t) \o (m \o <<l>>)
    BY <1>1, <1>a, <1>b, ThreeJoined
  <2>2. Unclosed(m \o <<l>>)
    <3>1. /\ 1 \in 1..Len(m) /\ m[1] = BeginMark /\ \A i \in DOMAIN m : m[i] # EndMark
      BY <1>1, <1>2 DEF Unclosed
    <3>2. (m \o <<l>>)[1] = m[1]
      BY <1>a, <3>1, Joined
    <3>3. EndMark \notin Lines(m) /\ l # EndMark
      BY <3>1, MarksDiffer DEF Lines
    <3>4. Lines(m \o <<l>>) = Lines(m) \cup {l}
      BY <1>a, JoinedLines
    <3>5. EndMark \notin Lines(m \o <<l>>)
      BY <3>3, <3>4
    <3> QED
      BY <1>b, <3>1, <3>2, <3>5 DEF Unclosed, Lines
  <2>3. OpenForm(f \o <<l>>, k)
    <3> DEFINE v == m \o <<l>>
    <3>1. v \in Seq(Line) /\ f \o <<l>> = (u \o t) \o v /\ Unclosed(v)
      BY <1>b, <2>1, <2>2
    <3> HIDE DEF v
    <3> QED
      BY <1>1, <3>1 DEF OpenForm
  <2>4. BeginMark \in Lines(f)
    <3>1. 1 \in DOMAIN m /\ m[1] = BeginMark
      BY <1>1, <1>2 DEF Unclosed
    <3>2. BeginMark \in Lines(m)
      BY <3>1 DEF Lines
    <3> QED
      BY <1>c, <3>2
  <2> QED
    BY <2>3, <2>4
<1>3. CASE m = <<>> /\ t # <<>>
  <2>1. f \o <<l>> = (u \o (t \o <<l>>)) \o <<>>
    <3>1. f = u \o t
      BY <1>1, <1>3, <1>b, ThreeJoined
    <3>2. (u \o t) \o <<l>> = u \o (t \o <<l>>)
      <4>1. Regroups(u, t, <<l>>)
        BY <1>a, ThreeJoined
      <4> QED
        BY <4>1 DEF Regroups
    <3>3. u \o (t \o <<l>>) \in Seq(Line)
      BY <1>b, Joined
    <3>4. (u \o (t \o <<l>>)) \o <<>> = u \o (t \o <<l>>)
      BY <3>3, ThreeJoined
    <3> QED
      BY <3>1, <3>2, <3>4
  <2>2. Behind(u, t \o <<l>>)
    <3>1. Bare(<<l>>)
      BY DEF Bare
    <3>2. Copies(t \o <<l>>)
      BY <1>1, <1>a, <3>1, ClosedBelow DEF Behind
    <3>3. 1 \in 1..Len(t)
      BY <1>3
    <3>4. (t \o <<l>>)[1] = t[1]
      BY <1>a, <3>3, Joined
    <3> QED
      BY <1>1, <1>3, <1>b, <3>2, <3>4 DEF Behind
  <2>3. OpenForm(f \o <<l>>, k)
    <3> DEFINE v == t \o <<l>>
    <3>1. v \in Seq(Line) /\ f \o <<l>> = (u \o v) \o <<>> /\ Behind(u, v)
      BY <1>b, <2>1, <2>2
    <3> HIDE DEF v
    <3> QED
      BY <1>1, <1>a, <3>1 DEF OpenForm
  <2>4. \E h \in Headers : h \in Lines(f)
    <3>1. 1 \in DOMAIN t
      BY <1>3
    <3>2. \E i \in DOMAIN t : t[i] \in Headers
      BY <1>1, <1>3, <3>1 DEF Behind, Copies
    <3>3. \E h \in Headers : h \in Lines(t)
      BY <3>2 DEF Lines
    <3> QED
      BY <1>c, <3>3
  <2> QED
    BY <2>3, <2>4
<1>4. CASE m = <<>> /\ t = <<>>
  <2>1. f = u
    BY <1>1, <1>4, <1>b, ThreeJoined
  <2>2. f \o <<l>> = ((u \o <<l>>) \o <<>>) \o <<>>
    BY <1>b, <2>1, ThreeJoined
  <2>3. Unmarked(u \o <<l>>)
    BY <1>1, <2>1, LineBelow
  <2>4. Lines(u \o <<l>>) = Lines(u) \cup {l}
    BY <1>a, JoinedLines
  <2> DEFINE v == u \o <<l>>
  <2>5. Behind(v, <<>>)
    BY <1>a DEF Behind, Copies
  <2>6. v \in Seq(Line) /\ f \o <<l>> = (v \o <<>>) \o <<>> /\ Unmarked(v)
        /\ k \cup {l} \subseteq Lines(v)
    BY <1>1, <1>b, <2>2, <2>3, <2>4
  <2> HIDE DEF v
  <2>7. OpenForm(f \o <<l>>, k \cup {l})
    BY <1>a, <2>5, <2>6 DEF OpenForm
  <2>8. OpenForm(f \o <<l>>, k)
    BY <2>7, Fewer
  <2> QED
    BY <2>7, <2>8
<1> QED
  BY <1>2, <1>3, <1>4

-----------------------------------------------------------------------------
(* A setup writes, as a whole or not.                                       *)

Joins(s, t) ==
  /\ s \o t \in Seq(Line) /\ Len(s \o t) = Len(s) + Len(t)
  /\ Len(s) \in Nat /\ Len(t) \in Nat
  /\ DOMAIN s = 1..Len(s) /\ DOMAIN t = 1..Len(t)
  /\ \A i \in 1..Len(s) : (s \o t)[i] = s[i]
  /\ \A i \in 1..Len(t) : (s \o t)[Len(s) + i] = t[i]

LEMMA LinesJoin == ASSUME NEW s \in Seq(Line), NEW t \in Seq(Line) PROVE Joins(s, t)
BY Joined DEF Joins

LEMMA WritesWhole ==
  ASSUME NEW u \in Seq(Line), Unmarked(u), NEW c \in Contents, NEW k, k \subseteq Lines(u)
  PROVE  WholeForm(u \o Block(<<c>>), k, c)
<1>1. Block(<<c>>) \in Seq(Line) /\ <<>> \in Seq(Line)
  BY BlockIs
<1>2. Block(<<c>>) \o <<>> = Block(<<c>>) /\ u \o <<>> = u
  BY <1>1, ThreeJoined
<1> DEFINE z == <<>>
<1>3. /\ z \in Seq(Line) /\ u \o Block(<<c>>) = u \o (Block(<<c>>) \o z)
      /\ Unmarked(u \o z) /\ k \subseteq Lines(u \o z)
  BY <1>1, <1>2
<1> HIDE DEF z
<1> QED
  BY <1>3 DEF WholeForm

LEMMA PartOf ==
  ASSUME NEW s \in Seq(Line), NEW n \in 0..Len(s)
  PROVE  /\ SubSeq(s, 1, n) \in Seq(Line) /\ Len(SubSeq(s, 1, n)) = n
         /\ DOMAIN SubSeq(s, 1, n) = 1..n /\ DOMAIN s = 1..Len(s) /\ Len(s) \in Nat
         /\ \A i \in 1..n : SubSeq(s, 1, n)[i] = s[i]
OBVIOUS

\* What is written of it before the push breaks off.
LEMMA WritesPart ==
  ASSUME NEW u \in Seq(Line), Unmarked(u), NEW c \in Contents,
         NEW n \in 1..(Len(u \o Block(<<c>>)) - 1), NEW k, k \cap Special = {}
  PROVE  OpenForm(SubSeq(u \o Block(<<c>>), 1, n),
                  k \cap Lines(SubSeq(u \o Block(<<c>>), 1, n)))
<1> DEFINE f == u \o Block(<<c>>)
           p == SubSeq(f, 1, n)
<1>0. /\ Block(<<c>>) = <<BeginMark, c, EndMark>> /\ Block(<<c>>) \in Seq(Line)
      /\ c \in Line /\ BeginMark \in Line /\ Len(Block(<<c>>)) = 3
  BY BlockIs, MarksDiffer
<1>1. /\ f \in Seq(Line) /\ Len(f) = Len(u) + 3 /\ Len(u) \in Nat /\ DOMAIN u = 1..Len(u)
      /\ \A i \in 1..Len(u) : f[i] = u[i]
      /\ f[Len(u) + 1] = BeginMark /\ f[Len(u) + 2] = c
  <2> DEFINE b == Block(<<c>>)
  <2>1. b \in Seq(Line) /\ Len(b) = 3 /\ b[1] = BeginMark /\ b[2] = c
    BY <1>0
  <2> HIDE DEF b
  <2>2. /\ u \o b \in Seq(Line) /\ Len(u \o b) = Len(u) + Len(b)
        /\ Len(u) \in Nat /\ DOMAIN u = 1..Len(u)
        /\ \A i \in 1..Len(u) : (u \o b)[i] = u[i]
        /\ \A i \in 1..Len(b) : (u \o b)[Len(u) + i] = b[i]
    <3>1. Joins(u, b)
      BY <2>1, LinesJoin
    <3> QED
      BY <3>1 DEF Joins
  <2>3. (u \o b)[Len(u) + 1] = BeginMark /\ (u \o b)[Len(u) + 2] = c
    BY <2>1, <2>2
  <2> QED
    BY <2>1, <2>2, <2>3 DEF b
<1>2. n \in 1..(Len(f) - 1) /\ n \in Nat
  BY <1>1
<1> HIDE DEF f
<1>3. /\ p \in Seq(Line) /\ Len(p) = n /\ DOMAIN p = 1..n
      /\ \A i \in 1..n : p[i] = f[i]
  <2>1. n \in 0..Len(f)
    BY <1>1, <1>2
  <2> QED
    BY <1>1, <2>1, PartOf
<1> HIDE DEF p
<1> DEFINE q == IF n <= Len(u) THEN n ELSE Len(u)
           v == SubSeq(u, 1, q)
           m == IF n <= Len(u) THEN <<>>
                ELSE IF n = Len(u) + 1 THEN <<BeginMark>> ELSE <<BeginMark, c>>
<1>4. /\ v \in Seq(Line) /\ Len(v) = q /\ DOMAIN v = 1..q
      /\ \A i \in 1..q : v[i] = u[i]
      /\ q \in Nat /\ q <= Len(u) /\ q <= n
  <2>1. q \in 0..Len(u) /\ q \in Nat /\ q <= Len(u) /\ q <= n
    BY <1>1, <1>2
  <2> HIDE DEF q
  <2> QED
    BY <2>1, PartOf
<1>5. Unmarked(v)
  BY <1>1, <1>4 DEF Unmarked
<1>6. /\ m \in Seq(Line) /\ Len(m) = n - q /\ \A i \in 1..(n - q) : m[i] = f[Len(u) + i]
      /\ \A i \in DOMAIN m : m[i] \in {BeginMark, c}
      /\ m # <<>> => m[1] = BeginMark
  <2>1. CASE n <= Len(u)
    <3>1. m = <<>> /\ q = n
      BY <2>1
    <3> HIDE DEF m, q
    <3> QED
      BY <1>2, <3>1
  <2>2. CASE n = Len(u) + 1
    <3>0. Len(u) \in Nat /\ ~(n <= Len(u))
      BY <1>1, <2>2
    <3>1. m = <<BeginMark>> /\ q = Len(u) /\ n - q = 1
      BY <2>2, <3>0
    <3> HIDE DEF m, q
    <3> QED
      BY <1>0, <1>1, <3>1
  <2>3. CASE n = Len(u) + 2
    <3>0. Len(u) \in Nat /\ ~(n <= Len(u)) /\ n # Len(u) + 1
      BY <1>1, <2>3
    <3>1. m = <<BeginMark, c>> /\ q = Len(u) /\ n - q = 2
      BY <2>3, <3>0
    <3> HIDE DEF m, q
    <3> QED
      BY <1>0, <1>1, <3>1
  <2> QED
    BY <1>1, <1>2, <2>1, <2>2, <2>3
<1>7. n <= Len(u) \/ q = Len(u)
  OBVIOUS
<1> HIDE DEF m, v
<1>8. n - q = 0 \/ q = Len(u)
  BY <1>2
<1> HIDE DEF q
<1>9. p = (v \o <<>>) \o m
  <2>1. v \o <<>> = v
    BY <1>4, ThreeJoined
  <2>a. Joins(v, m)
    BY <1>4, <1>6, LinesJoin
  <2>b. PICK w \in Seq(Line) : w = v \o m
    BY <2>a DEF Joins
  <2>2. /\ Len(w) = q + (n - q)
        /\ \A i \in 1..q : w[i] = v[i]
        /\ \A i \in 1..(n - q) : w[q + i] = m[i]
    BY <1>4, <1>6, <2>a, <2>b DEF Joins
  <2>3. ASSUME NEW i \in 1..n PROVE w[i] = p[i]
    <3>1. CASE i <= q
      <4>1. i \in 1..q /\ i \in 1..Len(u)
        BY <1>1, <1>4, <3>1
      <4> QED
        BY <1>1, <1>3, <1>4, <2>2, <4>1
    <3>2. CASE i > q
      <4>1. i - q \in 1..(n - q) /\ q + (i - q) = i /\ q = Len(u)
        BY <1>4, <1>8, <3>2
      <4>2. w[i] = m[i - q] /\ m[i - q] = f[Len(u) + (i - q)]
        BY <1>6, <2>2, <4>1
      <4> QED
        BY <1>3, <4>1, <4>2
    <3>3. i \in Int /\ q \in Int
      BY <1>2, <1>4
    <3> QED
      BY <3>1, <3>2, <3>3
  <2>4. Len(w) = Len(p)
    BY <1>2, <1>3, <1>4, <2>2
  <2>6. w = p
    BY <1>3, <2>3, <2>4
  <2> QED
    BY <2>1, <2>6, <2>b
<1>10. Behind(v, <<>>) /\ <<>> \in Seq(Line)
  <2>1. <<>> \in Seq(Line) /\ DOMAIN <<>> = {}
    OBVIOUS
  <2> QED
    BY <2>1 DEF Behind, Copies
<1>11. Unclosed(m)
  BY <1>6, MarksDiffer DEF Unclosed
<1>12. k \cap Lines(p) \subseteq Lines(v)
  <2>1. Lines(p) = Lines(v) \cup Lines(m)
    <3>1. v \o <<>> = v
      BY <1>4, ThreeJoined
    <3> QED
      BY <1>4, <1>6, <1>9, <3>1, JoinedLines
  <2>2. Lines(m) \subseteq Special
    BY <1>6, MarksDiffer DEF Lines
  <2> QED
    BY <2>1, <2>2
<1>13. OpenForm(p, k \cap Lines(p))
  BY <1>4, <1>5, <1>6, <1>9, <1>10, <1>11, <1>12 DEF OpenForm
<1> QED
  BY <1>13 DEF p, f

-----------------------------------------------------------------------------
(* The file at first.                                                       *)

LEMMA CutInThree ==
  ASSUME NEW s \in Seq(Line), NEW i \in 0..Len(s), NEW j \in i..Len(s)
  PROVE  /\ SubSeq(s, 1, i) \in Seq(Line) /\ SubSeq(s, i + 1, j) \in Seq(Line)
         /\ SubSeq(s, j + 1, Len(s)) \in Seq(Line)
         /\ s = (SubSeq(s, 1, i) \o SubSeq(s, i + 1, j)) \o SubSeq(s, j + 1, Len(s))
         /\ i = 0 => SubSeq(s, 1, i) = <<>>
<1>1. Len(s) \in Nat /\ i \in Nat /\ j \in Nat /\ i <= j /\ j <= Len(s)
  OBVIOUS
<1> DEFINE a == SubSeq(s, 1, i)
           b == SubSeq(s, i + 1, j)
           d == SubSeq(s, j + 1, Len(s))
<1>2. a \in Seq(Line) /\ Len(a) = i /\ \A h \in 1..i : a[h] = s[h]
  BY <1>1
<1>3. b \in Seq(Line) /\ Len(b) = j - i /\ \A h \in 1..(j - i) : b[h] = s[i + h]
  BY <1>1
<1>4. d \in Seq(Line) /\ Len(d) = Len(s) - j /\ \A h \in 1..(Len(s) - j) : d[h] = s[j + h]
  BY <1>1
<1>5. i = 0 => a = <<>>
  BY <1>1
<1> HIDE DEF a, b, d
<1>a. Joins(a, b)
  BY <1>2, <1>3, LinesJoin
<1>6. PICK e \in Seq(Line) : e = a \o b
  BY <1>a DEF Joins
<1>7. Len(e) = j /\ \A h \in 1..j : e[h] = s[h]
  <2>1. /\ Len(a \o b) = i + (j - i)
        /\ \A h \in 1..i : (a \o b)[h] = a[h]
        /\ \A h \in 1..(j - i) : (a \o b)[i + h] = b[h]
    BY <1>2, <1>3, <1>a DEF Joins
  <2>2. ASSUME NEW h \in 1..j PROVE e[h] = s[h]
    <3>1. CASE h <= i
      <4>1. h \in 1..i
        BY <1>1, <3>1
      <4> QED
        BY <1>2, <1>6, <2>1, <4>1
    <3>2. CASE h > i
      <4>1. h - i \in 1..(j - i) /\ i + (h - i) = h
        BY <1>1, <3>2
      <4> QED
        BY <1>3, <1>6, <2>1, <4>1
    <3> QED
      BY <1>1, <3>1, <3>2
  <2> QED
    BY <1>1, <1>6, <2>1, <2>2
<1>b. Joins(e, d)
  BY <1>4, <1>6, LinesJoin
<1>8. PICK g \in Seq(Line) : g = e \o d
  BY <1>b DEF Joins
<1>9. Len(g) = Len(s) /\ \A h \in 1..Len(s) : g[h] = s[h]
  <2>1. /\ Len(e \o d) = j + (Len(s) - j)
        /\ \A h \in 1..j : (e \o d)[h] = e[h]
        /\ \A h \in 1..(Len(s) - j) : (e \o d)[j + h] = d[h]
    BY <1>4, <1>7, <1>b DEF Joins
  <2>2. ASSUME NEW h \in 1..Len(s) PROVE g[h] = s[h]
    <3>1. CASE h <= j
      <4>1. h \in 1..j
        BY <1>1, <3>1
      <4> QED
        BY <1>7, <1>8, <2>1, <4>1
    <3>2. CASE h > j
      <4>1. h - j \in 1..(Len(s) - j) /\ j + (h - j) = h
        BY <1>1, <3>2
      <4> QED
        BY <1>4, <1>8, <2>1, <4>1
    <3> QED
      BY <1>1, <3>1, <3>2
  <2> QED
    BY <1>1, <1>8, <2>1, <2>2
<1>10. g = s
  BY <1>9
<1> QED
  BY <1>2, <1>3, <1>4, <1>5, <1>6, <1>8, <1>10 DEF a, b, d

AnyForm(f, k) == OpenForm(f, k) \/ StaleForm(f, k) \/ \E c \in Contents : WholeForm(f, k, c)

LEMMA FirstForm == ASSUME NEW f \in Files PROVE AnyForm(f.lines, f.kept)
<1>1. f.lines \in Seq(Line) /\ FileAtFirst(f)
  BY ContextAssumption
<1> DEFINE s == f.lines
<1>2. PICK i \in 0..Len(s), j \in 0..Len(s) :
        /\ i <= j /\ Unmarked(SubSeq(s, 1, i)) /\ Copies(SubSeq(s, i + 1, j))
        /\ Begun(SubSeq(s, j + 1, Len(s)))
        /\ SubSeq(s, i + 1, j) # <<>> => SubSeq(s, i + 1, j)[1] = Separator
             \/ (i = 0 /\ SubSeq(s, i + 1, j)[1] \in Headers)
        /\ f.kept \subseteq Lines(SubSeq(s, 1, i))
  BY <1>1 DEF FileAtFirst
<1> HIDE DEF s
<1>s. s \in Seq(Line)
  BY <1>1 DEF s
<1>3. PICK u, t, m \in Seq(Line) : /\ s = (u \o t) \o m /\ (i = 0 => u = <<>>)
        /\ u = SubSeq(s, 1, i) /\ t = SubSeq(s, i + 1, j) /\ m = SubSeq(s, j + 1, Len(s))
  <2>1. j \in i..Len(s)
    BY <1>2, <1>s
  <2> QED
    BY <1>s, <2>1, CutInThree
<1>4. /\ Unmarked(u) /\ Copies(t) /\ Begun(m) /\ f.kept \subseteq Lines(u)
      /\ t # <<>> => t[1] = Separator \/ (u = <<>> /\ t[1] \in Headers)
  BY <1>2, <1>3
<1>5. Behind(u, t)
  BY <1>4 DEF Behind
<1>6. CASE m = <<>>
  <2>1. Unclosed(m)
    BY <1>6 DEF Unclosed
  <2> QED
    BY <1>3, <1>4, <1>5, <2>1 DEF OpenForm, AnyForm, s
<1>7. CASE m = <<BeginMark>>
  <2>1. Unclosed(m)
    <3>1. DOMAIN m = {1} /\ m[1] = BeginMark
      BY <1>7
    <3> QED
      BY <3>1, MarksDiffer DEF Unclosed
  <2> QED
    BY <1>3, <1>4, <1>5, <2>1 DEF OpenForm, AnyForm, s
<1>8. ASSUME NEW c \in Contents, m = <<BeginMark, c>> PROVE AnyForm(s, f.kept)
  <2>1. Unclosed(m)
    <3>1. DOMAIN m = {1, 2} /\ m[1] = BeginMark /\ m[2] = c
      BY <1>8
    <3> QED
      BY <3>1, MarksDiffer DEF Unclosed
  <2> QED
    BY <1>3, <1>4, <1>5, <2>1 DEF OpenForm, AnyForm, s
<1>9. ASSUME NEW c \in Contents, m = Block(<<c>>) PROVE AnyForm(s, f.kept)
  <2>1. CASE t = <<>>
    <3>1. u \o t = u
      BY <2>1, ThreeJoined
    <3>2. s = u \o Block(<<c>>)
      BY <1>3, <1>9, <3>1
    <3>3. WholeForm(s, f.kept, c)
      BY <1>4, <3>2, WritesWhole
    <3> QED
      BY <3>3 DEF AnyForm
  <2>2. CASE t # <<>>
    <3> DEFINE z == <<>>
    <3>1. Block(<<c>>) \o z = Block(<<c>>) /\ z \in Seq(Line) /\ Bare(z)
      BY BlockIs, ThreeJoined DEF Bare
    <3>2. s = (u \o t) \o (Block(<<c>>) \o z)
      BY <1>3, <1>9, <3>1
    <3> HIDE DEF z
    <3> QED
      BY <1>4, <1>5, <2>2, <3>1, <3>2 DEF StaleForm, AnyForm
  <2> QED
    BY <2>1, <2>2
<1> QED
  BY <1>4, <1>6, <1>7, <1>8, <1>9 DEF Begun, Contents, s

-----------------------------------------------------------------------------
(* The invariant.                                                           *)

Saying == {<<c>> : c \in Contents}
SetupType ==
  {k \in [pc : {"idle", "md", "json", "check", "read", "write"}, n : 0..MaxSetups,
          body : Saying \cup {<<>>}, copy : Seq(Line), blind : BOOLEAN] :
     /\ k.pc \in {"check", "read", "write"} => k.body # <<>>
     /\ k.pc # "write" => k.copy = <<>>}

XTyped == /\ setup \in [Setups -> SetupType] /\ setups \in 0..MaxSetups
          /\ json # "junk"

\* What a setup is about to write keeps the lines that have to stay, unless it
\* could not find out what there is.
CopyInv == \A s \in Setups : setup[s].pc = "write" =>
  Unmarked(setup[s].copy) /\ (setup[s].blind \/ kept \subseteq Lines(setup[s].copy))

\* The setup will not write the block any more.
Resting(k) == k.pc \in {"idle", "md"} \/ (k.pc = "json" /\ k.body = <<>>)
Settled == level /\ \A s \in Setups : Resting(setup[s])
TextInv ==
  /\ whole => \E c \in Contents : WholeForm(auto, kept, c) /\ (Settled => md = <<c>>)
  /\ ~whole => AnyForm(auto, kept)

\* One after the other, a setup has just written to SANDBOX_CONTEXT.md what it
\* will write into the block.
LevelInv == level => \A s \in Setups :
  /\ setup[s].pc # "idle" => \A r \in Setups : setup[r].pc # "idle" => r = s
  /\ ~Resting(setup[s]) => md = setup[s].body

XInv == XTyped /\ CopyInv /\ TextInv /\ LevelInv

LEMMA FormsRead == ASSUME TextInv PROVE Keeps(auto, kept) /\ KeptAreMine(auto, kept)
<1>1. AnyForm(auto, kept)
  BY DEF TextInv, AnyForm
<1> QED
  BY <1>1, Reads, OpenHolds, StaleHolds, WholeHolds DEF AnyForm

LEMMA XInitially == ASSUME XInit PROVE XInv
<1>1. NoSetup \in SetupType /\ NoSetup.pc = "idle" /\ Resting(NoSetup)
  BY ContextAssumption DEF NoSetup, SetupType, Resting
<1>2. XTyped
  BY <1>1, ContextAssumption DEF XInit, XTyped
<1>3. TextInv
  BY FirstForm DEF XInit, TextInv
<1>4. CopyInv /\ LevelInv
  BY <1>1 DEF XInit, CopyInv, LevelInv
<1> QED
  BY <1>2, <1>3, <1>4 DEF XInv

-----------------------------------------------------------------------------
(* The steps.                                                               *)

\* Setup s goes from one place to the next, and the file stays.
LEMMA OneGoes ==
  ASSUME XInv, NEW s \in Setups, NEW k \in SetupType, setup[s].pc # "idle",
         setup' = [setup EXCEPT ![s] = k], UNCHANGED <<auto, kept, whole, setups>>,
         level' => level, json' # "junk",
         k.pc = "write" => Unmarked(k.copy) /\ (k.blind \/ kept \subseteq Lines(k.copy)),
         level' /\ ~Resting(k) => md' = k.body,
         level' /\ Resting(k) => Resting(setup[s]) /\ md' = md
  PROVE  XInv'
<1>1. /\ setup \in [Setups -> SetupType] /\ setup'[s] = k
      /\ \A t \in Setups : t # s => setup'[t] = setup[t]
      /\ setup' \in [Setups -> SetupType]
  BY DEF XInv, XTyped
<1>2. XTyped'
  BY <1>1 DEF XInv, XTyped
<1>3. CopyInv'
  <2> SUFFICES ASSUME NEW t \in Setups, setup'[t].pc = "write"
               PROVE  /\ Unmarked(setup'[t].copy)
                      /\ setup'[t].blind \/ kept' \subseteq Lines(setup'[t].copy)
    BY DEF CopyInv
  <2>1. CASE t = s
    BY <1>1, <2>1
  <2>2. CASE t # s
    BY <1>1, <2>2 DEF XInv, CopyInv
  <2> QED
    BY <2>1, <2>2
<1>4. ASSUME level' PROVE level /\ \A t \in Setups : t # s => setup[t].pc = "idle"
  BY <1>4 DEF XInv, LevelInv
<1>5. TextInv'
  <2>1. Settled' => Settled /\ md' = md
    <3> SUFFICES ASSUME Settled' PROVE Settled /\ md' = md
      OBVIOUS
    <3>1. level' /\ \A t \in Setups : Resting(setup'[t])
      BY DEF Settled
    <3>2. Resting(k) /\ level
      BY <1>1, <1>4, <3>1
    <3>3. Resting(setup[s]) /\ md' = md
      BY <3>1, <3>2
    <3>4. \A t \in Setups : Resting(setup[t])
      BY <1>1, <3>1, <3>3
    <3> QED
      BY <3>2, <3>3, <3>4 DEF Settled
  <2>2. TextInv
    BY DEF XInv
  <2> HIDE DEF Settled
  <2>3. CASE whole
    <3>1. PICK c \in Contents : WholeForm(auto, kept, c) /\ (Settled => md = <<c>>)
      BY <2>2, <2>3 DEF TextInv
    <3>2. WholeForm(auto', kept', c) /\ (Settled' => md' = <<c>>)
      BY <2>1, <3>1
    <3> QED
      BY <2>3, <3>2 DEF TextInv
  <2>4. CASE ~whole
    BY <2>2, <2>4 DEF TextInv
  <2> QED
    BY <2>3, <2>4
<1>6. LevelInv'
  <2> SUFFICES ASSUME level', NEW t \in Setups
               PROVE  /\ setup'[t].pc # "idle" => \A r \in Setups : setup'[r].pc # "idle" => r = t
                      /\ ~Resting(setup'[t]) => md' = setup'[t].body
    BY DEF LevelInv
  <2>1. \A r \in Setups : r # s => setup'[r].pc = "idle"
    BY <1>1, <1>4
  <2>2. ~Resting(setup'[t]) => t = s
    BY <2>1 DEF Resting
  <2> QED
    BY <1>1, <2>1, <2>2
<1> QED
  BY <1>2, <1>3, <1>5, <1>6 DEF XInv

LEMMA XFinishes == NoSetup \in SetupType /\ NoSetup.pc = "idle" /\ Resting(NoSetup)
BY ContextAssumption DEF NoSetup, SetupType, Resting

LEMMA BeginsSetup == ASSUME XInv, NEW s \in Setups, BeginSetup(s) PROVE XInv'
<1> DEFINE k == [NoSetup EXCEPT !.pc = "md", !.n = setups + 1]
<1>1. k \in SetupType /\ k.pc = "md" /\ Resting(k)
  <2>1. setups + 1 \in 0..MaxSetups
    BY ContextAssumption DEF BeginSetup, XInv, XTyped
  <2>2. NoSetup \in SetupType /\ NoSetup.copy = <<>>
    BY XFinishes DEF NoSetup
  <2>3. k \in SetupType
    BY <2>1, <2>2 DEF SetupType
  <2>4. k.pc = "md"
    BY <2>2 DEF SetupType
  <2> QED
    BY <2>3, <2>4 DEF Resting
<1> HIDE DEF k
<1>2. /\ setup[s].pc = "idle" /\ setup' = [setup EXCEPT ![s] = k]
      /\ level' = (level /\ \A t \in Setups : setup[t].pc = "idle")
      /\ UNCHANGED <<md, json, auto, kept, whole>> /\ setups' = setups + 1
  BY DEF BeginSetup, k
<1>3. /\ setup \in [Setups -> SetupType] /\ setup'[s] = k
      /\ \A t \in Setups : t # s => setup'[t] = setup[t]
      /\ setup' \in [Setups -> SetupType]
  BY <1>1, <1>2 DEF XInv, XTyped
<1>4. XTyped'
  BY <1>2, <1>3, ContextAssumption DEF XInv, XTyped, BeginSetup
<1>5. CopyInv'
  BY <1>1, <1>2, <1>3 DEF XInv, CopyInv
<1>6. LevelInv'
  <2>1. level' => level /\ \A t \in Setups : setup[t].pc = "idle"
    BY <1>2
  <2> QED
    BY <1>1, <1>3, <2>1 DEF LevelInv, Resting
<1>7. TextInv'
  <2>1. Settled' => Settled
    <3>1. setup[s].pc = "idle" => Resting(setup[s])
      BY DEF Resting
    <3> QED
      BY <1>2, <1>3, <3>1 DEF Settled
  <2>2. TextInv
    BY DEF XInv
  <2> HIDE DEF Settled
  <2>3. CASE whole
    <3>1. PICK c \in Contents : WholeForm(auto, kept, c) /\ (Settled => md = <<c>>)
      BY <2>2, <2>3 DEF TextInv
    <3>2. WholeForm(auto', kept', c) /\ (Settled' => md' = <<c>>)
      BY <1>2, <2>1, <3>1
    <3> QED
      BY <1>2, <2>3, <3>2 DEF TextInv
  <2>4. CASE ~whole
    BY <1>2, <2>2, <2>4 DEF TextInv
  <2> QED
    BY <2>3, <2>4
<1> QED
  BY <1>4, <1>5, <1>6, <1>7 DEF XInv

LEMMA WritesMd ==
  ASSUME XInv, NEW s \in Setups, WriteMd(s) \/ WriteMdFails(s) PROVE XInv'
<1>1. /\ setup[s].pc = "md" /\ UNCHANGED <<auto, kept, whole, setups, json>>
      /\ level' => level
  BY DEF WriteMd, WriteMdFails, Now, NoSlip, Slip
<1>2. setup[s] \in SetupType /\ json # "junk"
  BY DEF XInv, XTyped
<1>3. PICK body \in Bodies(s) :
        /\ ToJSON(s, body)
        /\ ~level' \/ md' = (IF body = <<>> THEN md ELSE body)
  BY DEF WriteMd, WriteMdFails, Slip
<1>4. body \in Saying \cup {<<>>}
  <2>1. setup[s].n \in 0..MaxSetups
    BY <1>2 DEF SetupType
  <2>2. Rendered(setup[s].n) \in Contents /\ Custom \in Contents
    BY <2>1 DEF Contents, Headers
  <2> QED
    BY <1>3, <2>2 DEF Bodies, Saying
<1> DEFINE k == [setup[s] EXCEPT !.pc = "json", !.n = 0, !.body = body]
<1>5. setup' = [setup EXCEPT ![s] = k]
  BY <1>3 DEF ToJSON, XInv, XTyped
<1>6. k \in SetupType /\ k.pc = "json" /\ k.body = body
  <2>1. setup[s].copy = <<>>
    BY <1>1, <1>2 DEF SetupType
  <2>2. 0 \in 0..MaxSetups
    BY ContextAssumption
  <2> QED
    BY <1>2, <1>4, <2>1, <2>2 DEF SetupType
<1> HIDE DEF k
<1>7. Resting(setup[s]) /\ (Resting(k) <=> body = <<>>)
  BY <1>1, <1>6 DEF Resting
<1>8. level' /\ ~Resting(k) => md' = k.body
  BY <1>3, <1>6, <1>7
<1>9. level' /\ Resting(k) => Resting(setup[s]) /\ md' = md
  BY <1>3, <1>7
<1> QED
  BY <1>1, <1>2, <1>5, <1>6, <1>8, <1>9, OneGoes

LEMMA WritesJSON ==
  ASSUME XInv, NEW s \in Setups, WriteJSON(s) \/ WriteJSONFails(s) PROVE XInv'
<1>1. /\ setup[s].pc = "json" /\ UNCHANGED <<auto, kept, whole, setups, md>>
      /\ (level' => level) /\ AfterJSON(s)
  BY DEF WriteJSON, WriteJSONFails, Now, NoSlip, Slip
<1>2. setup[s] \in SetupType /\ json # "junk"
  BY DEF XInv, XTyped
<1>3. json' # "junk"
  BY <1>2 DEF WriteJSON, WriteJSONFails, ResolvedJSON
<1>4. CASE setup[s].body = <<>>
  <2>1. setup' = [setup EXCEPT ![s] = NoSetup]
    BY <1>1, <1>4 DEF AfterJSON, Finished
  <2>2. Resting(setup[s])
    BY <1>1, <1>4 DEF Resting
  <2>3. NoSetup \in SetupType /\ NoSetup.pc = "idle" /\ Resting(NoSetup)
    BY XFinishes
  <2> HIDE DEF NoSetup
  <2> QED
    BY <1>1, <1>3, <2>1, <2>2, <2>3, OneGoes
<1>5. CASE setup[s].body # <<>>
  <2> DEFINE k == [setup[s] EXCEPT !.pc = "check"]
  <2>1. setup' = [setup EXCEPT ![s] = k]
    BY <1>1, <1>5 DEF AfterJSON, To, XInv, XTyped
  <2>2. k \in SetupType /\ k.pc = "check" /\ k.body = setup[s].body
    BY <1>1, <1>2, <1>5 DEF SetupType
  <2> HIDE DEF k
  <2>3. ~Resting(k) /\ ~Resting(setup[s])
    BY <1>1, <1>5, <2>2 DEF Resting
  <2>4. level' /\ ~Resting(k) => md' = k.body
    BY <1>1, <2>2, <2>3 DEF XInv, LevelInv
  <2> QED
    BY <1>1, <1>3, <2>1, <2>2, <2>3, <2>4, OneGoes
<1> QED
  BY <1>4, <1>5

LEMMA GivesUp ==
  ASSUME XInv, NEW s \in Setups, MkdirFails(s) \/ ReadFails(s) PROVE XInv'
<1>1. /\ setup[s].pc # "idle" /\ UNCHANGED <<auto, kept, whole, setups, md, json>>
      /\ ~level' /\ setup' = [setup EXCEPT ![s] = NoSetup]
  BY DEF MkdirFails, ReadFails, Now, Slip, Finished
<1>2. NoSetup \in SetupType /\ NoSetup.pc = "idle" /\ json # "junk"
  BY XFinishes DEF XInv, XTyped
<1> HIDE DEF NoSetup
<1> QED
  BY <1>1, <1>2, OneGoes

LEMMA Checks ==
  ASSUME XInv, NEW s \in Setups, Check(s) \/ CheckFails(s) PROVE XInv'
<1>1. /\ setup[s].pc = "check" /\ UNCHANGED <<auto, kept, whole, setups, md, json>>
      /\ level' => level
  BY DEF Check, CheckFails, Now, NoSlip, Slip
<1>2. setup[s] \in SetupType /\ json # "junk"
  BY DEF XInv, XTyped
<1>3. setup[s].body # <<>> /\ setup[s].copy = <<>>
  BY <1>1, <1>2 DEF SetupType
<1>4. \E k \in SetupType :
        /\ setup' = [setup EXCEPT ![s] = k] /\ k.pc \in {"read", "write"}
        /\ k.body = setup[s].body /\ k.copy = <<>>
        /\ k.pc = "write" => k.blind \/ auto = <<>>
  <2>1. CASE Check(s)
    <3> DEFINE k == [setup[s] EXCEPT !.pc = IF auto = <<>> THEN "write" ELSE "read"]
    <3>1. setup' = [setup EXCEPT ![s] = k]
      BY <2>1 DEF Check, To, XInv, XTyped
    <3>2. k \in SetupType /\ k.body = setup[s].body /\ k.copy = <<>>
      BY <1>2, <1>3 DEF SetupType
    <3>3. k.pc = IF auto = <<>> THEN "write" ELSE "read"
      BY <1>2 DEF SetupType
    <3> HIDE DEF k
    <3> QED
      BY <3>1, <3>2, <3>3
  <2>2. CASE CheckFails(s)
    <3> DEFINE k == [setup[s] EXCEPT !.pc = "write", !.blind = TRUE]
    <3>1. setup' = [setup EXCEPT ![s] = k]
      BY <2>2 DEF CheckFails, XInv, XTyped
    <3>2. k \in SetupType /\ k.body = setup[s].body /\ k.copy = <<>>
      BY <1>2, <1>3 DEF SetupType
    <3>3. k.pc = "write" /\ k.blind
      BY <1>2 DEF SetupType
    <3> HIDE DEF k
    <3> QED
      BY <3>1, <3>2, <3>3
  <2> QED
    BY <2>1, <2>2
<1>5. PICK k \in SetupType :
        /\ setup' = [setup EXCEPT ![s] = k] /\ k.pc \in {"read", "write"}
        /\ k.body = setup[s].body /\ k.copy = <<>>
        /\ k.pc = "write" => k.blind \/ auto = <<>>
  BY <1>4
<1>6. ~Resting(k) /\ ~Resting(setup[s])
  BY <1>1, <1>5 DEF Resting
<1>7. level' /\ ~Resting(k) => md' = k.body
  BY <1>1, <1>5, <1>6 DEF XInv, LevelInv
<1>8. k.pc = "write" => Unmarked(k.copy) /\ (k.blind \/ kept \subseteq Lines(k.copy))
  <2>1. Unmarked(<<>>)
    BY DEF Unmarked
  <2>2. auto = <<>> => kept \subseteq Lines(<<>>)
    BY FormsRead DEF XInv, KeptAreMine
  <2> QED
    BY <1>5, <2>1, <2>2
<1> QED
  BY <1>1, <1>2, <1>5, <1>6, <1>7, <1>8, OneGoes

LEMMA ReadsFile == ASSUME XInv, NEW s \in Setups, Read(s) PROVE XInv'
<1>1. /\ setup[s].pc = "read" /\ UNCHANGED <<auto, kept, whole, setups, md, json>>
      /\ level' = level
  BY DEF Read, Now, NoSlip
<1>2. setup[s] \in SetupType /\ json # "junk"
  BY DEF XInv, XTyped
<1>3. setup[s].body # <<>>
  BY <1>1, <1>2 DEF SetupType
<1> DEFINE k == [setup[s] EXCEPT !.pc = "write", !.copy = Preserved(auto)]
<1>4. setup' = [setup EXCEPT ![s] = k]
  BY DEF Read, XInv, XTyped
<1>5. /\ Preserved(auto) \in Seq(Line) /\ Unmarked(Preserved(auto))
      /\ kept \subseteq Lines(Preserved(auto))
  BY FormsRead DEF XInv, Keeps
<1>6. k \in SetupType /\ k.pc = "write" /\ k.body = setup[s].body /\ k.copy = Preserved(auto)
  BY <1>2, <1>3, <1>5 DEF SetupType
<1> HIDE DEF k
<1>7. ~Resting(k) /\ ~Resting(setup[s])
  BY <1>1, <1>6 DEF Resting
<1>8. level' /\ ~Resting(k) => md' = k.body
  BY <1>1, <1>6, <1>7 DEF XInv, LevelInv
<1> QED
  BY <1>1, <1>2, <1>4, <1>5, <1>6, <1>7, <1>8, OneGoes

LEMMA WritesFile == ASSUME XInv, NEW s \in Setups, Write(s) PROVE XInv'
<1>1. /\ setup[s].pc = "write" /\ UNCHANGED <<md, json, setups>> /\ level' = level
      /\ setup' = [setup EXCEPT ![s] = NoSetup]
      /\ auto' = setup[s].copy \o Block(setup[s].body) /\ whole' = TRUE
      /\ kept' = IF setup[s].blind THEN {} ELSE kept
  BY DEF Write, NoSlip, Finished, Written
<1>2. /\ setup[s] \in SetupType /\ setup[s].body # <<>> /\ setup[s].copy \in Seq(Line)
      /\ setup[s].body \in Saying \cup {<<>>}
  BY <1>1 DEF XInv, XTyped, SetupType
<1>3. PICK c \in Contents : setup[s].body = <<c>>
  BY <1>2 DEF Saying
<1>4. Unmarked(setup[s].copy) /\ kept' \subseteq Lines(setup[s].copy)
  BY <1>1 DEF XInv, CopyInv
<1>5. WholeForm(auto', kept', c)
  <2>1. WholeForm(setup[s].copy \o Block(<<c>>), kept', c)
    BY <1>2, <1>4, WritesWhole
  <2> QED
    BY <1>1, <1>3, <2>1
<1>6. /\ NoSetup \in SetupType /\ NoSetup.pc = "idle" /\ Resting(NoSetup)
  BY XFinishes
<1> HIDE DEF NoSetup
<1>7. /\ setup \in [Setups -> SetupType] /\ setup'[s] = NoSetup
      /\ \A t \in Setups : t # s => setup'[t] = setup[t]
      /\ setup' \in [Setups -> SetupType]
  BY <1>1, <1>6 DEF XInv, XTyped
<1>8. XTyped'
  BY <1>1, <1>7 DEF XInv, XTyped
<1>9. CopyInv'
  <2>1. kept' \subseteq kept
    BY <1>1
  <2> QED
    BY <1>6, <1>7, <2>1 DEF XInv, CopyInv
<1>10. ~Resting(setup[s])
  BY <1>1 DEF Resting
<1>11. level' => md' = <<c>> /\ \A t \in Setups : setup'[t].pc = "idle"
  BY <1>1, <1>3, <1>6, <1>7, <1>10 DEF XInv, LevelInv
<1>12. LevelInv'
  BY <1>11 DEF LevelInv, Resting
<1>13. TextInv'
  <2>1. Settled' => md' = <<c>>
    BY <1>11 DEF Settled
  <2> QED
    BY <1>1, <1>5, <2>1 DEF TextInv
<1> QED
  BY <1>8, <1>9, <1>12, <1>13 DEF XInv

LEMMA WriteBreaksOff == ASSUME XInv, NEW s \in Setups, WriteFails(s) PROVE XInv'
<1>1. /\ setup[s].pc = "write" /\ UNCHANGED <<md, json, setups>> /\ ~level'
      /\ setup' = [setup EXCEPT ![s] = NoSetup]
  BY DEF WriteFails, Slip, Finished
<1>2. /\ setup[s] \in SetupType /\ setup[s].body # <<>> /\ setup[s].copy \in Seq(Line)
      /\ setup[s].body \in Saying \cup {<<>>}
  BY <1>1 DEF XInv, XTyped, SetupType
<1>3. PICK c \in Contents : setup[s].body = <<c>>
  BY <1>2 DEF Saying
<1>6. /\ NoSetup \in SetupType /\ NoSetup.pc = "idle" /\ Resting(NoSetup)
  BY XFinishes
<1>4. CASE UNCHANGED <<auto, whole, kept>>
  <2>1. json' # "junk"
    BY <1>1 DEF XInv, XTyped
  <2> HIDE DEF NoSetup
  <2> QED
    BY <1>1, <1>4, <1>6, <2>1, OneGoes
<1>5. CASE \E n \in 1..Len(Written(s)) - 1 :
             /\ auto' = SubSeq(Written(s), 1, n) /\ whole' = FALSE
             /\ kept' = kept \cap Lines(auto')
  <2>1. PICK n \in 1..(Len(Written(s)) - 1) :
             /\ auto' = SubSeq(Written(s), 1, n) /\ whole' = FALSE
             /\ kept' = kept \cap Lines(auto')
    BY <1>5
  <2>2. Written(s) = setup[s].copy \o Block(<<c>>)
    BY <1>3 DEF Written
  <2>3. Unmarked(setup[s].copy) /\ kept \cap Special = {}
    BY <1>1, FormsRead DEF XInv, CopyInv, KeptAreMine
  <2>4. OpenForm(auto', kept')
    <3> DEFINE u == setup[s].copy
    <3>1. u \in Seq(Line) /\ Unmarked(u)
      BY <1>2, <2>3
    <3>2. /\ n \in 1..(Len(u \o Block(<<c>>)) - 1)
          /\ auto' = SubSeq(u \o Block(<<c>>), 1, n)
      BY <2>1, <2>2
    <3> HIDE DEF u
    <3>3. OpenForm(SubSeq(u \o Block(<<c>>), 1, n),
                   kept \cap Lines(SubSeq(u \o Block(<<c>>), 1, n)))
      BY <2>3, <3>1, <3>2, WritesPart
    <3> QED
      BY <2>1, <3>2, <3>3
  <2> HIDE DEF NoSetup
  <2>5. /\ setup \in [Setups -> SetupType] /\ setup'[s] = NoSetup
        /\ \A t \in Setups : t # s => setup'[t] = setup[t]
        /\ setup' \in [Setups -> SetupType]
    BY <1>1, <1>6 DEF XInv, XTyped
  <2>6. XTyped'
    BY <1>1, <2>5 DEF XInv, XTyped
  <2>7. CopyInv'
    <3>1. kept' \subseteq kept
      BY <2>1
    <3> QED
      BY <1>6, <2>5, <3>1 DEF XInv, CopyInv
  <2>8. TextInv'
    BY <2>1, <2>4 DEF TextInv, AnyForm
  <2>9. LevelInv'
    BY <1>1 DEF LevelInv
  <2> QED
    BY <2>6, <2>7, <2>8, <2>9 DEF XInv
<1> QED
  BY <1>4, <1>5 DEF WriteFails

LEMMA FewerAny ==
  ASSUME NEW f, NEW k, NEW h, h \subseteq k, AnyForm(f, k) PROVE AnyForm(f, h)
BY Fewer DEF AnyForm

LEMMA EditsText == ASSUME XInv, NEW l \in Mine, Edit(l) PROVE TextInv'
<1>1. /\ l \notin Lines(auto) /\ UNCHANGED <<md, json, whole, level, setup, setups, slips>>
      /\ kept' = IF Safe(l, auto') THEN kept \cup {l} ELSE kept
      /\ \/ auto' = auto \o <<l>>
         \/ auto' = <<l>> \o auto /\ (auto # <<>> => auto[1] \notin Headers)
  BY DEF Edit
<1>2. l \in Line /\ l \notin Special
  BY ContextAssumption DEF Line
<1>3. TextInv /\ auto \in Seq(Line)
  BY FormsRead DEF XInv, KeptAreMine
<1>4. kept' \subseteq kept \cup {l} /\ kept \subseteq kept \cup {l}
  BY <1>1
<1>5. Settled' = Settled
  BY <1>1 DEF Settled
<1>6. CASE whole
  <2>1. PICK c \in Contents : WholeForm(auto, kept, c) /\ (Settled => md = <<c>>)
    BY <1>3, <1>6 DEF TextInv
  <2>2. WholeForm(auto', kept \cup {l}, c)
    BY <1>1, <1>2, <2>1, WholeAbove, WholeBelow
  <2>3. WholeForm(auto', kept', c)
    BY <1>4, <2>2, Fewer
  <2> HIDE DEF Settled
  <2> QED
    BY <1>1, <1>5, <1>6, <2>1, <2>3 DEF TextInv
<1>7. CASE ~whole
  <2>1. AnyForm(auto, kept)
    BY <1>3, <1>7 DEF TextInv
  <2>2. CASE \E c \in Contents : WholeForm(auto, kept, c)
    <3>1. PICK c \in Contents : WholeForm(auto, kept, c)
      BY <2>2
    <3>2. WholeForm(auto', kept \cup {l}, c)
      BY <1>1, <1>2, <3>1, WholeAbove, WholeBelow
    <3>3. AnyForm(auto', kept')
      BY <1>4, <3>2, Fewer DEF AnyForm
    <3> QED
      BY <1>1, <1>7, <3>3 DEF TextInv
  <2>3. CASE /\ OpenForm(auto, kept) \/ StaleForm(auto, kept)
             /\ auto' = <<l>> \o auto /\ (auto # <<>> => auto[1] \notin Headers)
    <3>1. AnyForm(auto', kept \cup {l})
      BY <1>1, <1>2, <2>3, OpenAbove, StaleAbove DEF AnyForm
    <3>2. AnyForm(auto', kept')
      BY <1>4, <3>1, FewerAny
    <3> QED
      BY <1>1, <1>7, <3>2 DEF TextInv
  <2>4. CASE (OpenForm(auto, kept) \/ StaleForm(auto, kept)) /\ auto' = auto \o <<l>>
    <3>1. Joins(auto, <<l>>) /\ Lines(auto \o <<l>>) = Lines(auto) \cup {l}
      BY <1>2, <1>3, OneLine, LinesJoin, FourJoined
    <3>2. auto'[1] = l => auto = <<>>
      <4> SUFFICES ASSUME auto'[1] = l, auto # <<>> PROVE FALSE
        OBVIOUS
      <4>1. 1 \in 1..Len(auto) /\ 1 \in DOMAIN auto
        BY <1>3
      <4>2. auto'[1] = auto[1]
        BY <2>4, <3>1, <4>1 DEF Joins
      <4> QED
        BY <1>1, <4>1, <4>2 DEF Lines
    <3>3. Safe(l, auto') => Lines(auto) \cap ({BeginMark} \cup Headers) = {}
      <4>1. auto = <<>> => Lines(auto) = {}
        BY DEF Lines
      <4>2. Safe(l, auto') => auto'[1] = l
               \/ Lines(auto') \cap ({BeginMark} \cup Headers) = {}
        BY <1>7 DEF Safe
      <4> QED
        BY <2>4, <3>1, <3>2, <4>1, <4>2
    <3>4. CASE StaleForm(auto, kept)
      <4>1. BeginMark \in Lines(auto)
        BY <3>4, StaleHolds
      <4>2. kept' = kept
        BY <1>1, <3>3, <4>1
      <4>3. StaleForm(auto', kept')
        BY <1>2, <2>4, <3>4, <4>2, StaleBelow
      <4> QED
        BY <1>1, <1>7, <4>3 DEF TextInv, AnyForm
    <3>5. CASE OpenForm(auto, kept)
      <4>1. /\ OpenForm(auto', kept)
            /\ Lines(auto) \cap ({BeginMark} \cup Headers) = {}
                 => OpenForm(auto', kept \cup {l})
        BY <1>1, <1>2, <2>4, <3>5, OpenBelow
      <4>2. OpenForm(auto', kept')
        BY <1>1, <3>3, <4>1
      <4> QED
        BY <1>1, <1>7, <4>2 DEF TextInv, AnyForm
    <3> QED
      BY <2>4, <3>4, <3>5
  <2> QED
    BY <1>1, <2>1, <2>2, <2>3, <2>4 DEF AnyForm
<1> QED
  BY <1>6, <1>7

LEMMA Edits == ASSUME XInv, NEW l \in Mine, Edit(l) PROVE XInv'
<1>1. /\ UNCHANGED <<md, json, level, setup, setups>>
      /\ kept' = IF Safe(l, auto') THEN kept \cup {l} ELSE kept
  BY DEF Edit
<1>2. XTyped' /\ LevelInv'
  BY <1>1 DEF XInv, XTyped, LevelInv
<1>3. CopyInv'
  <2>1. CASE \E s \in Setups : setup[s].pc = "write"
    <3>1. kept' = kept
      BY <1>1, <2>1 DEF Safe
    <3> QED
      BY <1>1, <3>1 DEF XInv, CopyInv
  <2>2. CASE \A s \in Setups : setup[s].pc # "write"
    BY <1>1, <2>2 DEF CopyInv
  <2> QED
    BY <2>1, <2>2
<1> QED
  BY <1>2, <1>3, EditsText DEF XInv

LEMMA XStutters == ASSUME XInv, UNCHANGED xvars PROVE XInv'
<1>1. UNCHANGED <<md, json, auto, kept, whole, level, setup, setups>>
  BY DEF xvars
<1>2. XTyped' /\ CopyInv' /\ LevelInv'
  BY <1>1 DEF XInv, XTyped, CopyInv, LevelInv
<1>3. Settled' = Settled
  BY <1>1 DEF Settled
<1>4. TextInv'
  BY <1>1, <1>3 DEF XInv, TextInv
<1> QED
  BY <1>2, <1>4 DEF XInv

LEMMA XStepInv == ASSUME XInv, [XNext]_xvars PROVE XInv'
<1>1. ASSUME NEW s \in Setups, BeginSetup(s) PROVE XInv'
  BY <1>1, BeginsSetup
<1>2. ASSUME NEW s \in Setups, WriteMd(s) \/ WriteMdFails(s) PROVE XInv'
  BY <1>2, WritesMd
<1>3. ASSUME NEW s \in Setups, WriteJSON(s) \/ WriteJSONFails(s) PROVE XInv'
  BY <1>3, WritesJSON
<1>4. ASSUME NEW s \in Setups, Check(s) \/ CheckFails(s) PROVE XInv'
  BY <1>4, Checks
<1>5. ASSUME NEW s \in Setups, MkdirFails(s) \/ ReadFails(s) PROVE XInv'
  BY <1>5, GivesUp
<1>6. ASSUME NEW s \in Setups, Read(s) PROVE XInv'
  BY <1>6, ReadsFile
<1>7. ASSUME NEW s \in Setups, Write(s) PROVE XInv'
  BY <1>7, WritesFile
<1>8. ASSUME NEW s \in Setups, WriteFails(s) PROVE XInv'
  BY <1>8, WriteBreaksOff
<1>9. ASSUME NEW l \in Mine, Edit(l) PROVE XInv'
  BY <1>9, Edits
<1>10. CASE UNCHANGED xvars
  BY <1>10, XStutters
<1> QED
  BY <1>1, <1>2, <1>3, <1>4, <1>5, <1>6, <1>7, <1>8, <1>9, <1>10 DEF XNext

\* However many sessions have set a container up, one after the other or two at
\* a time, and whatever failed or broke off: the tool's file keeps the lines of
\* the user, holds one block and nothing else of ours, and says what
\* SANDBOX_CONTEXT.md says when no setup overlapped another and none failed
\* (stripManagedContextBlock, stripLegacyAutoContext, injectAutoContextFile).
THEOREM ContextReconciled == XSpec => []Reconciled
<1>1. ASSUME XInv PROVE Reconciled
  <2>1. kept \subseteq Lines(auto) /\ json # "junk"
    BY <1>1, FormsRead DEF XInv, XTyped, KeptAreMine
  <2>2. ASSUME whole
        PROVE  \E b \in DOMAIN auto :
                 /\ auto[b] = BeginMark /\ b + 2 \in DOMAIN auto /\ auto[b + 2] = EndMark
                 /\ \A i \in DOMAIN auto \ (b..b + 2) : auto[i] \notin Special
                 /\ \A i, j \in DOMAIN auto : i < j => auto[i] # auto[j]
                 /\ level /\ (\A s \in Setups : setup[s].pc = "idle") => md = <<auto[b + 1]>>
    <3>1. PICK c \in Contents : WholeForm(auto, kept, c) /\ (Settled => md = <<c>>)
      BY <1>1, <2>2 DEF XInv, TextInv
    <3>2. OneBlock(auto, c)
      BY <3>1, WholeIs
    <3>3. PICK b \in DOMAIN auto :
            /\ auto[b] = BeginMark /\ b + 2 \in DOMAIN auto /\ auto[b + 2] = EndMark
            /\ auto[b + 1] = c
            /\ \A i \in DOMAIN auto \ (b..b + 2) : auto[i] \notin Special
            /\ \A i, j \in DOMAIN auto : i < j => auto[i] # auto[j]
      BY <3>2 DEF OneBlock
    <3>4. level /\ (\A s \in Setups : setup[s].pc = "idle") => md = <<auto[b + 1]>>
      BY <3>1, <3>3 DEF Settled, Resting
    <3> QED
      BY <3>3, <3>4
  <2> QED
    BY <2>1, <2>2 DEF Reconciled
<1>2. XInit => XInv
  BY XInitially
<1>3. XInv /\ [XNext]_xvars => XInv'
  BY XStepInv
<1> QED
  BY <1>1, <1>2, <1>3, PTL DEF XSpec

=============================================================================
