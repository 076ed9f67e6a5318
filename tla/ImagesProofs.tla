---------------------------- MODULE ImagesProofs ----------------------------
(***************************************************************************)
(* The images that coi builds, for any number of commands, builds,         *)
(* failures, kills and cleanups that run side by side (image/builder.go,   *)
(* image/meta.go, cli/images.go): what an alias names is whole, a rebuild  *)
(* does not lose the image that it replaces, and who launches from a child *)
(* is told when its base was rebuilt.                                      *)
(*                                                                         *)
(* Nothing but the container's name keeps two builds apart, and not after  *)
(* the publication, when the container is gone.  So each part of the       *)
(* invariant says which weaknesses, once met, excuse it (But).             *)
(***************************************************************************)
EXTENDS Images, PickingProofs

-----------------------------------------------------------------------------
(* What holds of the versions, the aliases and the commands.                *)

\* A build works in the container; a build has published and moves the alias.
Working == {"network", "script", "running", "stop", "publish"}
Moving == {"clean", "find", "drop", "point"}
Excuses == Overlap \cup Broken \cup Removed

Version == [of : Names, on : Nat, gone : BOOLEAN, whole : BOOLEAN]
Crate == [by : Procs \cup {"none"}, on : Nat, up : BOOLEAN,
          began : SUBSET Names, ran : SUBSET Names]
Process == [pc : {"idle", "check", "fetch", "import", "launch", "undo", "load", "write", "prune"}
                 \cup Working \cup Moving,
            n : Names \cup {"none"}, forced : BOOLEAN, new : Nat, snap : [Names -> Nat],
            todo : Seq(Nat), next : Seq(Names)]

Typed ==
  /\ imgs \in Seq(Version) /\ main \in [Names -> Nat] /\ box \in Crate
  /\ meta \in [Names -> Nat] /\ now \in Nat /\ proc \in [Procs -> Process]
  /\ \A p \in Procs : proc[p].pc # "idle" => proc[p].n \in Names

\* The container coi-build is the one that p launched for its build.
Builds(p) == proc[p].pc \in Working /\ box # NoBox /\ box.by = p

\* A version comes from a whole script, run on the base that its name has.
VersionInv == \A i \in DOMAIN imgs :
  /\ imgs[i].on < i
  /\ But({"shared"}) \/ (imgs[i].whole /\ (imgs[i].of = "child" <=> imgs[i].on # 0))
AliasInv == \A n \in Names : main[n] # 0 =>
  main[n] \in DOMAIN imgs /\ ~imgs[main[n]].gone /\ imgs[main[n]].of = n
\* Until its alias is set and recorded, a version is the last one published.
LateInv == \A p \in Procs : proc[p].pc \in Late =>
  /\ proc[p].new \in DOMAIN imgs /\ imgs[proc[p].new].of = proc[p].n
  /\ But(Overlap) \/ proc[p].new = Len(imgs)
PointInv == But(Excuses) \/ \A p \in Procs :
  proc[p].pc \in {"load", "write"} => main[proc[p].n] = proc[p].new

\* How much of the script ran in the container, by where its build stands.
RanAt(r) ==
  /\ box.began = IF r.pc \in {"network", "script"} THEN {} ELSE {r.n}
  /\ box.ran = IF r.pc \in {"network", "script", "running"} THEN {} ELSE {r.n}
  /\ r.n = "child" <=> box.on # 0
BoxInv ==
  /\ box.on <= Len(imgs)
  /\ \A p \in Procs : Builds(p) => But({"shared"}) \/ RanAt(proc[p])

\* While a build is between its publication and its record, no other one is,
\* and no other one has a container.
SoloInv == But(Overlap) \/ \A p, q \in Procs :
  p # q /\ proc[p].pc \in Late => proc[q].pc \notin Late /\ ~Builds(q)
\* An alias names the latest version that is there.
NewestInv == But(Excuses) \/ \A n \in Names : Within(n, Moving) \/
  \A j \in DOMAIN imgs : imgs[j].of = n => main[n] # 0 /\ (~imgs[j].gone => j <= main[n])
\* A cleanup deletes no version that is the latest of its name.
PruneInv == \A p \in Procs : proc[p].pc = "prune" =>
  /\ proc[p].todo # <<>>
  /\ \A k \in DOMAIN proc[p].todo : proc[p].todo[k] \in DOMAIN imgs
  /\ But(Excuses) \/ \A k \in DOMAIN proc[p].todo : \E j \in DOMAIN imgs :
       j > proc[p].todo[k] /\ ~imgs[j].gone /\ imgs[j].of = imgs[proc[p].todo[k]].of
\* The record is not behind the aliases, and nobody writes over a newer one.
MetaInv ==
  /\ \A n \in Names : meta[n] <= now /\ \A p \in Procs : proc[p].snap[n] <= now
  /\ But(Overlap) \/ \A p \in Procs : proc[p].pc = "write" => proc[p].snap = meta
  /\ But(Excuses \cup {"unrecorded"}) \/ \A n \in Names :
       main[n] # 0 => meta[n] # 0 \/ Within(n, Late)
\* The base is not moved under a child that is being built.
ChildInv == But(Excuses) \/ \A p \in Procs : proc[p].n = "child" =>
  /\ Builds(p) => box.on = main["base"]
  /\ proc[p].pc \in Late => imgs[proc[p].new].on = main["base"]

ImagesInv ==
  /\ Typed /\ VersionInv /\ AliasInv /\ LateInv /\ PointInv /\ BoxInv /\ SoloInv
  /\ NewestInv /\ PruneInv /\ MetaInv /\ ChildInv /\ StaleTold

LEMMA ImagesInit == Init => ImagesInv
<1> SUFFICES ASSUME Init PROVE ImagesInv
  OBVIOUS
<1>1. /\ imgs = <<>> /\ \A n \in Names : main[n] = 0 /\ meta[n] = 0
      /\ box = NoBox /\ now = 0 /\ \A p \in Procs : proc[p] = NoProc
  BY DEF Init, NoMeta
<1>2. /\ NoProc.pc = "idle" /\ NoProc.snap = NoMeta /\ NoProc.n = "none" /\ NoProc \in Process
      /\ NoBox \in Crate /\ NoBox.on = 0 /\ \A n \in Names : NoMeta[n] = 0
  BY DEF NoProc, NoMeta, NoBox, Process, Crate
<1>3. Typed
  BY <1>1, <1>2 DEF Init, Typed, NoMeta
<1>4. VersionInv /\ AliasInv /\ NewestInv
  BY <1>1 DEF VersionInv, AliasInv, NewestInv
<1>5. LateInv /\ PointInv /\ SoloInv /\ PruneInv /\ ChildInv
  BY <1>1, <1>2 DEF LateInv, PointInv, SoloInv, PruneInv, ChildInv, Late
<1>6. BoxInv
  BY <1>1, <1>2 DEF BoxInv, Builds
<1>7. MetaInv /\ StaleTold
  BY <1>1, <1>2 DEF MetaInv, StaleTold, Names
<1> QED  BY <1>3, <1>4, <1>5, <1>6, <1>7 DEF ImagesInv

-----------------------------------------------------------------------------
(* The steps that neither publish, nor move an alias, nor record, nor       *)
(* delete an image.                                                         *)

Excused(reasons) == But(reasons)'

\* The command p goes from record x to r; what it does to the container.
Goes(p, x, r) ==
  /\ x = proc[p] /\ r \in Process /\ (r.pc # "idle" => r.n \in Names)
  /\ proc' = [proc EXCEPT ![p] = r]
  /\ waived \subseteq waived' /\ box' \in Crate
  /\ r.pc \in Late => x.pc \in Late /\ r.n = x.n /\ r.new = x.new
  /\ r.pc \in {"load", "write"} => x.pc \in {"load", "write"}
  /\ x.pc \in Moving => r.pc \in Moving \/ Excused(Excuses)
  /\ x.pc \in Late => r.pc \in Late \/ Excused(Excuses \cup {"unrecorded"})
  /\ r.pc = "write" => r.snap = meta \/ (x.pc = "write" /\ r.snap = x.snap)
  /\ r.snap \in {x.snap, meta, NoMeta}
\* The container stays, goes, or is the command's own; a build in it is where
\* RanAt says, the one of before or one that was launched when no other build
\* was being recorded.
InBox(p, x, r) ==
  /\ box'.on <= Len(imgs)
  /\ \/ box' \in {box, NoBox} \/ box'.by = p
     \/ box # NoBox /\ box'.by = box.by /\ box'.on = box.on /\ Excused({"shared"})
  /\ r.pc \in Working /\ box' # NoBox /\ box'.by = p =>
       /\ Excused({"shared"}) \/ RanAt(r)'
       /\ \/ Builds(p) /\ r.n = x.n /\ box'.on = box.on
          \/ /\ r.n = "child" => box'.on = main["base"]
             /\ Excused(Overlap) \/ \A q \in Procs : proc[q].pc \notin Late
\* A command that cleans up has only versions to delete that are not the latest.
Prunes(r) ==
  r.pc = "prune" =>
    /\ r.todo # <<>>
    /\ \A k \in DOMAIN r.todo : r.todo[k] \in DOMAIN imgs
    /\ Excused(Excuses) \/ \A k \in DOMAIN r.todo : \E j \in DOMAIN imgs :
         j > r.todo[k] /\ ~imgs[j].gone /\ imgs[j].of = imgs[r.todo[k]].of
\* A step of p that only these three sentences are about.
Plain(p, x, r) ==
  /\ UNCHANGED <<imgs, main, meta, now>>
  /\ Goes(p, x, r) /\ InBox(p, x, r) /\ Prunes(r)

\* A weakness that was met stays met.
LEMMA ExcuseStays ==
  ASSUME waived \subseteq waived', NEW reasons
  PROVE  But(reasons) => Excused(reasons)
  BY DEF But, Excused

\* Such a step keeps the invariant.
LEMMA PlainKeeps ==
  ASSUME ImagesInv, NEW p \in Procs, NEW x, NEW r, Plain(p, x, r)
  PROVE  ImagesInv'
<1>1. /\ proc'[p] = r /\ x = proc[p] /\ \A q \in Procs \ {p} : proc'[q] = proc[q]
      /\ imgs' = imgs /\ main' = main /\ meta' = meta /\ now' = now
      /\ waived \subseteq waived' /\ x \in Process /\ r \in Process
  BY DEF ImagesInv, Typed, Plain, Goes
<1>2. \A reasons : But(reasons) => But(reasons)'
  BY <1>1, ExcuseStays DEF Excused
<1>3. Typed'
  BY <1>1 DEF ImagesInv, Typed, Plain, Goes
<1>4. VersionInv' /\ AliasInv'
  BY <1>1, <1>2 DEF ImagesInv, VersionInv, AliasInv
<1>5. LateInv'
  BY <1>1, <1>2 DEF ImagesInv, LateInv, Plain, Goes
<1>16. PointInv'
  BY <1>1, <1>2 DEF ImagesInv, PointInv, Plain, Goes, Late
<1>6. ASSUME NEW q \in Procs \ {p}, Builds(q)' PROVE Builds(q) /\ (box' = box \/ (box'.on = box.on /\ But({"shared"})'))
  BY <1>1, <1>6 DEF Builds, Plain, InBox, Excused, Goes
<1>7. BoxInv'
  <2>1. box'.on <= Len(imgs')
    BY <1>1 DEF Plain, InBox
  <2>2. ASSUME NEW q \in Procs, Builds(q)' PROVE But({"shared"})' \/ RanAt(proc[q])'
    <3>1. CASE q = p
      BY <1>1, <2>2, <3>1 DEF Plain, InBox, Builds, Excused, RanAt
    <3>2. CASE q # p
      BY <1>1, <1>2, <1>6, <2>2, <3>2 DEF ImagesInv, BoxInv, RanAt
    <3> QED  BY <3>1, <3>2
  <2> QED  BY <2>1, <2>2 DEF BoxInv
<1>8. SoloInv'
  <2> SUFFICES ASSUME ~But(Overlap)', NEW q \in Procs, NEW m \in Procs, q # m, proc'[q].pc \in Late
               PROVE  proc'[m].pc \notin Late /\ ~Builds(m)'
    BY DEF SoloInv
  <2>1. proc[q].pc \in Late
    BY <1>1 DEF Plain, Goes
  <2>2. proc[m].pc \notin Late /\ ~Builds(m)
    BY <1>2, <2>1 DEF ImagesInv, SoloInv
  <2>3. proc'[m].pc \notin Late
    BY <1>1, <2>2 DEF Plain, Goes
  <2>4. ~Builds(m)'
    <3>1. CASE m = p
      BY <1>1, <2>1, <2>2, <3>1 DEF Plain, InBox, Builds, Excused
    <3>2. CASE m # p
      BY <1>6, <2>2, <3>2
    <3> QED  BY <3>1, <3>2
  <2> QED  BY <2>3, <2>4
<1>9. \/ But(Excuses)'
      \/ \A n \in Names : Within(n, Moving) => Within(n, Moving)'
  <2> SUFFICES ASSUME ~But(Excuses)', NEW n \in Names, NEW q \in Procs, proc[q].n = n,
                      proc[q].pc \in Moving
               PROVE  proc'[q].n = n /\ proc'[q].pc \in Moving
    BY DEF Within
  <2> QED  BY <1>1 DEF Plain, Goes, Excused, Moving, Late
<1>10. NewestInv'
  BY <1>1, <1>2, <1>9 DEF ImagesInv, NewestInv
<1>11. PruneInv'
  BY <1>1, <1>2 DEF ImagesInv, PruneInv, Plain, Prunes, Excused
<1>12. \/ But(Excuses \cup {"unrecorded"})'
       \/ \A n \in Names : Within(n, Late) => Within(n, Late)'
  <2> SUFFICES ASSUME ~But(Excuses \cup {"unrecorded"})', NEW n \in Names, NEW q \in Procs,
                      proc[q].n = n, proc[q].pc \in Late
               PROVE  proc'[q].n = n /\ proc'[q].pc \in Late
    BY DEF Within
  <2> QED  BY <1>1 DEF Plain, Goes, Excused
<1>13. MetaInv'
  <2>1. \A n \in Names : meta[n] <= now /\ \A q \in Procs : proc'[q].snap[n] <= now
    <3>1. \A n \in Names : NoMeta[n] = 0 /\ 0 <= now
      BY DEF NoMeta, ImagesInv, Typed
    <3> QED  BY <1>1, <3>1 DEF ImagesInv, MetaInv, Plain, Goes
  <2>2. But(Overlap)' \/ \A q \in Procs : proc'[q].pc = "write" => proc'[q].snap = meta
    BY <1>1, <1>2 DEF ImagesInv, MetaInv, Plain, Goes
  <2>3. \/ But(Excuses \cup {"unrecorded"})'
        \/ \A n \in Names : main[n] # 0 => meta[n] # 0 \/ Within(n, Late)'
    BY <1>2, <1>12 DEF ImagesInv, MetaInv
  <2> QED  BY <1>1, <2>1, <2>2, <2>3 DEF MetaInv
<1>14. ChildInv'
  <2> SUFFICES ASSUME ~But(Excuses)', NEW q \in Procs, proc'[q].n = "child"
               PROVE  /\ Builds(q)' => box'.on = main["base"]
                      /\ proc'[q].pc \in Late => imgs[proc'[q].new].on = main["base"]
    BY <1>1 DEF ChildInv
  <2>1. ChildInv /\ ~But({"shared"})' /\ ~But(Excuses)
    BY <1>1 DEF ImagesInv, But, Overlap, Excuses
  <2>2. CASE q = p
    BY <1>1, <2>1, <2>2 DEF ChildInv, Plain, Goes, InBox, Builds
  <2>3. CASE q # p
    BY <1>1, <1>6, <2>1, <2>3 DEF ChildInv
  <2> QED  BY <2>2, <2>3
<1>15. StaleTold'
  <2>1. \/ But(Excuses \cup {"unrecorded"})'
        \/ (\A n \in Names : ~Within(n, Late)') => \A n \in Names : ~Within(n, Late)
    BY <1>12
  <2>2. Reported' <=> Reported
    BY <1>1 DEF Reported
  <2> QED  BY <1>1, <1>2, <2>1, <2>2 DEF ImagesInv, StaleTold, Excuses
<1> QED  BY <1>3, <1>4, <1>5, <1>7, <1>8, <1>10, <1>11, <1>13, <1>14, <1>15, <1>16 DEF ImagesInv

-----------------------------------------------------------------------------
(* A version is published.                                                  *)

\* The new version is the last one, and no other build is under way.
LEMMA PublishKeeps ==
  ASSUME ImagesInv, NEW p \in Procs, Publish(p)
  PROVE  ImagesInv'
<1>1. PICK x \in Process : x = proc[p] /\ x.pc = "publish" /\ x.n \in Names
  BY DEF Publish, At, ImagesInv, Typed
<1>2. PICK l \in Nat : l = Len(imgs) /\ DOMAIN imgs = 1..l
  BY DEF ImagesInv, Typed
<1> DEFINE v == [of |-> x.n, on |-> box.on, gone |-> FALSE,
                 whole |-> box.began = {x.n} /\ box.ran = {x.n}]
           r == [x EXCEPT !.pc = "clean", !.new = l + 1]
<1>3. /\ v \in Version /\ v.of = x.n /\ v.on = box.on /\ ~v.gone
      /\ v.whole <=> box.began = {x.n} /\ box.ran = {x.n}
  BY <1>1 DEF ImagesInv, Typed, Crate, Version
<1>4. /\ imgs' \in Seq(Version) /\ DOMAIN imgs' = 1..(l + 1) /\ Len(imgs') = l + 1
      /\ imgs'[l + 1] = v /\ \A i \in 1..l : imgs'[i] = imgs[i]
  BY <1>1, <1>2, <1>3 DEF Publish, ImagesInv, Typed
<1>5. /\ r \in Process /\ r.pc = "clean" /\ r.new = l + 1 /\ r.n = x.n /\ r.snap = x.snap
  <2>1. l + 1 \in Nat /\ "clean" \in Moving
    BY <1>2 DEF Moving
  <2>2. r \in Process
    BY <1>1, <2>1 DEF Process
  <2> QED  BY <1>1, <2>1, <2>2 DEF Process
<1>6. /\ proc'[p] = r /\ \A q \in Procs \ {p} : proc'[q] = proc[q]
      /\ main' = main /\ meta' = meta /\ now' = now /\ box' = box
      /\ waived \subseteq waived' /\ box # NoBox /\ (box.by = p \/ But({"shared"})')
  BY <1>1, <1>2 DEF Publish, ImagesInv, Typed, Shared, But
<1>7. \A reasons : But(reasons) => But(reasons)'
  BY <1>6, ExcuseStays DEF Excused
<1> HIDE DEF r, v
<1>8. Typed'
  BY <1>1, <1>4, <1>5, <1>6 DEF ImagesInv, Typed, Publish
<1>9. But(Overlap)' \/ (Builds(p) /\ \A q \in Procs \ {p} : proc[q].pc \notin Late)
  <2>1. But(Overlap)' \/ Builds(p)
    BY <1>1, <1>6 DEF Builds, Working, But, Overlap
  <2> QED  BY <1>1, <1>7, <2>1 DEF ImagesInv, SoloInv, Late
<1>10. VersionInv'
  <2>1. v.on < l + 1
    <3>1. v.on \in Nat /\ v.on <= l
      BY <1>2, <1>3 DEF ImagesInv, BoxInv, Version
    <3> QED  BY <3>1
  <2>2. But({"shared"})' \/ (v.whole /\ (v.of = "child" <=> v.on # 0))
    <3>1. ASSUME ~But({"shared"})' PROVE RanAt(x)
      BY <1>1, <1>6, <1>7, <3>1 DEF ImagesInv, BoxInv, Builds, Working
    <3> QED  BY <1>1, <1>3, <3>1 DEF RanAt
  <2> QED  BY <1>2, <1>4, <1>7, <2>1, <2>2 DEF ImagesInv, VersionInv
<1>11. AliasInv'
  BY <1>2, <1>4, <1>6 DEF ImagesInv, AliasInv
<1>12. LateInv'
  <2> SUFFICES ASSUME NEW q \in Procs, proc'[q].pc \in Late
               PROVE  /\ proc'[q].new \in 1..(l + 1) /\ imgs'[proc'[q].new].of = proc'[q].n
                      /\ But(Overlap)' \/ proc'[q].new = l + 1
    BY <1>4 DEF LateInv
  <2>1. CASE q = p
    BY <1>3, <1>4, <1>5, <1>6, <2>1
  <2>2. CASE q # p
    BY <1>2, <1>4, <1>6, <1>9, <2>2 DEF ImagesInv, LateInv
  <2> QED  BY <2>1, <2>2
<1>22. PointInv'
  <2> SUFFICES ASSUME ~But(Excuses)', NEW q \in Procs, proc'[q].pc \in {"load", "write"}
               PROVE  main[proc'[q].n] = proc'[q].new
    BY <1>6 DEF PointInv
  <2> QED  BY <1>5, <1>6, <1>7 DEF ImagesInv, PointInv
<1>13. ASSUME NEW q \in Procs, Builds(q)' PROVE q # p /\ Builds(q) /\ proc'[q] = proc[q]
  BY <1>5, <1>6, <1>13 DEF Builds, Working
<1>14. BoxInv'
  <2>1. box.on <= l + 1
    BY <1>2 DEF ImagesInv, BoxInv, Typed, Crate
  <2>2. ASSUME NEW q \in Procs, Builds(q)' PROVE But({"shared"})' \/ RanAt(proc[q])'
    <3>1. But({"shared"}) \/ RanAt(proc[q])
      BY <1>13, <2>2 DEF ImagesInv, BoxInv
    <3> QED  BY <1>6, <1>7, <1>13, <2>2, <3>1 DEF RanAt
  <2> QED  BY <1>4, <1>6, <2>1, <2>2 DEF BoxInv
<1>15. SoloInv'
  <2> SUFFICES ASSUME ~But(Overlap)', NEW q \in Procs, NEW m \in Procs, q # m, proc'[q].pc \in Late
               PROVE  proc'[m].pc \notin Late /\ ~Builds(m)'
    BY DEF SoloInv
  <2>1. q = p /\ Builds(p) /\ proc'[m].pc \notin Late
    BY <1>6, <1>9
  <2> QED  BY <1>6, <1>13, <2>1 DEF Builds
<1>16. Within(x.n, Moving)' /\ \A n \in Names : Within(n, Moving) => Within(n, Moving)'
  BY <1>1, <1>5, <1>6 DEF Within, Moving
<1>17. NewestInv'
  <2> SUFFICES ASSUME ~But(Excuses)', NEW n \in Names, ~Within(n, Moving)', NEW j \in 1..(l + 1),
                      imgs'[j].of = n
               PROVE  main[n] # 0 /\ (~imgs'[j].gone => j <= main[n])
    BY <1>4, <1>6 DEF NewestInv
  <2>1. j \in 1..l /\ n # x.n
    BY <1>2, <1>3, <1>4, <1>16
  <2> QED  BY <1>2, <1>4, <1>7, <1>16, <2>1 DEF ImagesInv, NewestInv
<1>18. PruneInv'
  <2> SUFFICES ASSUME NEW q \in Procs, proc'[q].pc = "prune"
               PROVE  /\ proc[q].todo # <<>>
                      /\ \A k \in DOMAIN proc[q].todo : proc[q].todo[k] \in 1..(l + 1)
                      /\ But(Excuses)' \/ \A k \in DOMAIN proc[q].todo : \E j \in 1..(l + 1) :
                           j > proc[q].todo[k] /\ ~imgs'[j].gone
                           /\ imgs'[j].of = imgs'[proc[q].todo[k]].of
    BY <1>4, <1>5, <1>6 DEF PruneInv
  <2>1. proc[q].pc = "prune"
    BY <1>5, <1>6
  <2>2. \A k \in DOMAIN proc[q].todo : proc[q].todo[k] \in 1..l
    BY <1>2, <2>1 DEF ImagesInv, PruneInv
  <2>3. But(Excuses)' \/ \A k \in DOMAIN proc[q].todo : \E j \in 1..l :
          j > proc[q].todo[k] /\ ~imgs[j].gone /\ imgs[j].of = imgs[proc[q].todo[k]].of
    BY <1>2, <1>7, <2>1 DEF ImagesInv, PruneInv
  <2>4. \A j \in 1..l : j \in 1..(l + 1)
    BY <1>2
  <2>5. proc[q].todo # <<>>
    BY <2>1 DEF ImagesInv, PruneInv
  <2> QED  BY <1>4, <2>2, <2>3, <2>4, <2>5
<1>19. MetaInv'
  <2>1. \A q \in Procs : proc'[q].snap = proc[q].snap /\ (proc'[q].pc = "write" => proc[q].pc = "write")
    BY <1>1, <1>5, <1>6
  <2>2. \A n \in Names : Within(n, Late) => Within(n, Late)'
    BY <1>1, <1>5, <1>6 DEF Within, Late
  <2>3. \A n \in Names : meta[n] <= now /\ \A q \in Procs : proc'[q].snap[n] <= now
    BY <2>1 DEF ImagesInv, MetaInv
  <2>4. But(Overlap)' \/ \A q \in Procs : proc'[q].pc = "write" => proc'[q].snap = meta
    BY <1>7, <2>1 DEF ImagesInv, MetaInv
  <2>5. \/ But(Excuses \cup {"unrecorded"})'
        \/ \A n \in Names : main[n] # 0 => meta[n] # 0 \/ Within(n, Late)'
    BY <1>7, <2>2 DEF ImagesInv, MetaInv
  <2> QED  BY <1>6, <2>3, <2>4, <2>5 DEF MetaInv
<1>20. ChildInv'
  <2> SUFFICES ASSUME ~But(Excuses)', NEW q \in Procs, proc'[q].n = "child"
               PROVE  /\ Builds(q)' => box.on = main["base"]
                      /\ proc'[q].pc \in Late => imgs'[proc'[q].new].on = main["base"]
    BY <1>6 DEF ChildInv
  <2>1. ChildInv /\ ~But(Overlap)' /\ ~But(Excuses)
    BY <1>6 DEF ImagesInv, But, Overlap, Excuses
  <2>2. CASE q = p
    BY <1>1, <1>3, <1>4, <1>5, <1>6, <1>9, <1>13, <2>1, <2>2 DEF ChildInv
  <2>3. CASE q # p
    BY <1>6, <1>9, <1>13, <2>1, <2>3 DEF ChildInv
  <2> QED  BY <2>2, <2>3
<1>21. StaleTold'
  <2>1. Within(x.n, Late)'
    BY <1>5, <1>6 DEF Within, Late
  <2> QED  BY <1>1, <2>1 DEF StaleTold
<1> QED  BY <1>8, <1>10, <1>11, <1>12, <1>14, <1>15, <1>17, <1>18, <1>19, <1>20, <1>21, <1>22 DEF ImagesInv

-----------------------------------------------------------------------------
(* The alias is moved: Drop and Point.                                      *)

\* The alias of x's name is freed, or set to the version that x published.
Aims(p, x, r, k) ==
  /\ x = proc[p] /\ x \in Process /\ r \in Process /\ x.n \in Names
  /\ proc' = [proc EXCEPT ![p] = r] /\ main' = [main EXCEPT ![x.n] = k]
  /\ r.n = x.n /\ r.new = x.new /\ r.snap = x.snap
  /\ x.pc \in Moving /\ r.pc \in {"point", "load"} /\ k \in {0, x.new}
  /\ k # 0 => There(k)
  /\ r.pc = "load" => k # 0
  /\ UNCHANGED <<imgs, box, meta, now, waived>>

LEMMA AimKeeps ==
  ASSUME ImagesInv, NEW p \in Procs, NEW x, NEW r, NEW k, Aims(p, x, r, k)
  PROVE  ImagesInv'
<1>1. /\ proc'[p] = r /\ x = proc[p] /\ \A q \in Procs \ {p} : proc'[q] = proc[q]
      /\ imgs' = imgs /\ box' = box /\ meta' = meta /\ now' = now /\ waived' = waived
      /\ main'[x.n] = k /\ \A n \in Names \ {x.n} : main'[n] = main[n]
      /\ x \in Process /\ r \in Process /\ k \in Nat /\ main' \in [Names -> Nat]
  BY DEF ImagesInv, Typed, Aims, Process
<1>2. \A reasons : But(reasons) <=> But(reasons)'
  BY <1>1 DEF But
<1>3. Typed'
  BY <1>1 DEF ImagesInv, Typed, Aims
<1>4. VersionInv'
  BY <1>1, <1>2 DEF ImagesInv, VersionInv
<1>5. x.pc \in Late /\ r.pc \in Late /\ r.pc \notin Working /\ x.pc \notin Working
  BY DEF Aims, Moving, Late, Working
<1>6. /\ x.new \in DOMAIN imgs /\ imgs[x.new].of = x.n
      /\ But(Overlap) \/ x.new = Len(imgs)
  BY <1>1, <1>5 DEF ImagesInv, LateInv
<1>7. AliasInv'
  BY <1>1, <1>6 DEF ImagesInv, AliasInv, Aims, There
<1>8. LateInv'
  BY <1>1, <1>2, <1>5 DEF ImagesInv, LateInv, Aims
<1>9. But(Overlap) \/ \A q \in Procs \ {p} : proc[q].pc \notin Late /\ ~Builds(q)
  BY <1>1, <1>5 DEF ImagesInv, SoloInv
<1>10. PointInv'
  <2> SUFFICES ASSUME ~But(Excuses)', NEW q \in Procs, proc'[q].pc \in {"load", "write"}
               PROVE  main'[proc'[q].n] = proc'[q].new
    BY DEF PointInv
  <2>1. q = p
    BY <1>1, <1>2, <1>9 DEF But, Excuses, Late
  <2> QED  BY <1>1, <2>1 DEF Aims
<1>11. \A q \in Procs : Builds(q)' => Builds(q) /\ q # p
  BY <1>1, <1>5 DEF Builds
<1>12. BoxInv'
  <2>1. ASSUME NEW q \in Procs, Builds(q)' PROVE But({"shared"})' \/ RanAt(proc[q])'
    <3>1. But({"shared"}) \/ RanAt(proc[q])
      BY <1>11, <2>1 DEF ImagesInv, BoxInv
    <3> QED  BY <1>1, <1>2, <1>11, <2>1, <3>1 DEF RanAt
  <2> QED  BY <1>1, <2>1 DEF ImagesInv, BoxInv
<1>13. SoloInv'
  BY <1>1, <1>2, <1>5, <1>11 DEF ImagesInv, SoloInv
<1>14. \A n \in Names \ {x.n} : Within(n, Moving) => Within(n, Moving)'
  BY <1>1 DEF Within
<1>15. NewestInv'
  <2> SUFFICES ASSUME ~But(Excuses)', NEW n \in Names, ~Within(n, Moving)', NEW j \in DOMAIN imgs,
                      imgs[j].of = n
               PROVE  main'[n] # 0 /\ (~imgs[j].gone => j <= main'[n])
    BY <1>1 DEF NewestInv
  <2>1. CASE n = x.n
    <3>1. r.pc = "load"
      BY <1>1, <2>1 DEF Aims, Within, Moving
    <3>2. k = x.new /\ x.new = Len(imgs)
      BY <1>2, <1>6, <3>1 DEF Aims, But, Excuses
    <3> QED  BY <1>1, <1>6, <2>1, <3>1, <3>2 DEF ImagesInv, Typed, Aims
  <2>2. CASE n # x.n
    BY <1>1, <1>2, <1>14, <2>2 DEF ImagesInv, NewestInv
  <2> QED  BY <2>1, <2>2
<1>16. PruneInv'
  BY <1>1, <1>2 DEF ImagesInv, PruneInv, Aims
<1>17. Within(x.n, Late)' /\ \A n \in Names \ {x.n} : Within(n, Late) => Within(n, Late)'
  BY <1>1, <1>5 DEF Within, Aims
<1>18. MetaInv'
  <2>1. \A q \in Procs : proc'[q].snap = proc[q].snap /\ (proc'[q].pc = "write" => proc[q].pc = "write")
    BY <1>1 DEF Aims
  <2>2. \A n \in Names : meta[n] <= now /\ \A q \in Procs : proc'[q].snap[n] <= now
    BY <2>1 DEF ImagesInv, MetaInv
  <2>3. But(Overlap)' \/ \A q \in Procs : proc'[q].pc = "write" => proc'[q].snap = meta
    BY <1>2, <2>1 DEF ImagesInv, MetaInv
  <2>4. \/ But(Excuses \cup {"unrecorded"})'
        \/ \A n \in Names : main'[n] # 0 => meta[n] # 0 \/ Within(n, Late)'
    BY <1>1, <1>2, <1>17 DEF ImagesInv, MetaInv
  <2> QED  BY <1>1, <2>2, <2>3, <2>4 DEF MetaInv
<1>19. ChildInv'
  <2> SUFFICES ASSUME ~But(Excuses)', NEW q \in Procs, proc'[q].n = "child"
               PROVE  /\ Builds(q)' => box.on = main'["base"]
                      /\ proc'[q].pc \in Late => imgs[proc'[q].new].on = main'["base"]
    BY <1>1 DEF ChildInv
  <2>1. ChildInv /\ ~But(Overlap) /\ ~But(Excuses)
    BY <1>2 DEF ImagesInv, But, Overlap, Excuses
  <2>2. CASE q = p
    <3>1. main'["base"] = main["base"] /\ x.n = "child"
      BY <1>1, <2>2 DEF Aims, Names
    <3> QED  BY <1>1, <1>5, <1>11, <2>1, <2>2, <3>1 DEF ChildInv, Aims
  <2>3. CASE q # p
    BY <1>1, <1>9, <1>11, <2>1, <2>3
  <2> QED  BY <2>2, <2>3
<1>20. StaleTold'
  BY <1>17 DEF StaleTold, Aims
<1> QED  BY <1>3, <1>4, <1>7, <1>8, <1>10, <1>12, <1>13, <1>15, <1>16, <1>18, <1>19, <1>20 DEF ImagesInv

-----------------------------------------------------------------------------
(* The build is recorded.                                                   *)

\* Done, as a record.
AfterDone(x) == IF x.next = <<>> THEN NoProc ELSE Turn(x.forced, x.next)

LEMMA DoneGoes ==
  ASSUME Typed, NEW p \in Procs, NEW x, x = proc[p]
  PROVE  /\ Done(p) => proc' = [proc EXCEPT ![p] = AfterDone(x)]
         /\ NoProc \in Process /\ NoProc.pc = "idle" /\ NoProc.snap = NoMeta
         /\ AfterDone(x) \in Process /\ AfterDone(x).snap = NoMeta
         /\ AfterDone(x).pc \in {"idle", "check"} /\ (AfterDone(x).pc # "idle" => AfterDone(x).n \in Names)
<1>1. x \in Process
  BY DEF Typed
<1>2. NoProc \in Process /\ NoProc.pc = "idle" /\ NoProc.snap = NoMeta
  BY DEF NoProc, NoMeta, Process
<1>3. CASE x.next = <<>>
  BY <1>2, <1>3 DEF AfterDone, Done
<1>4. CASE x.next # <<>>
  <2>1. x.next \in Seq(Names) /\ Head(x.next) \in Names /\ Tail(x.next) \in Seq(Names)
    BY <1>1, <1>4 DEF Process
  <2>2. PICK y : y = Turn(x.forced, x.next)
    OBVIOUS
  <2>3. y \in Process /\ y.snap = NoMeta /\ y.pc = "check" /\ y.n \in Names
    BY <1>1, <1>2, <2>1, <2>2 DEF Turn, Process
  <2>4. AfterDone(x) = y
    BY <1>4, <2>2 DEF AfterDone
  <2> QED  BY <1>2, <1>4, <2>3, <2>4 DEF AfterDone, Done
<1> QED  BY <1>3, <1>4

\* The times in the record tell the order of what the aliases name.
LEMMA WriteKeeps ==
  ASSUME ImagesInv, NEW p \in Procs, Write(p)
  PROVE  ImagesInv'
<1>1. PICK x \in Process : x = proc[p] /\ x.pc = "write" /\ x.n \in Names
  BY DEF Write, At, ImagesInv, Typed
<1>2. PICK r \in Process : /\ proc' = [proc EXCEPT ![p] = r] /\ r.snap = NoMeta
                           /\ r.pc \in {"idle", "check"} /\ (r.pc # "idle" => r.n \in Names)
  BY <1>1, DoneGoes DEF Write, ImagesInv
<1>3. /\ proc'[p] = r /\ \A q \in Procs \ {p} : proc'[q] = proc[q]
      /\ imgs' = imgs /\ box' = box /\ main' = main /\ now' = now + 1 /\ now \in Nat
      /\ waived \subseteq waived'
  BY <1>2 DEF ImagesInv, Typed, Write
<1>4. \/ meta' = [x.snap EXCEPT ![x.n] = now + 1]
      \/ meta' \in {meta, NoMeta} /\ But({"unrecorded"})'
  BY <1>1 DEF Write, But
<1>5. \A reasons : But(reasons) => But(reasons)'
  BY <1>3, ExcuseStays DEF Excused
<1>6. meta' \in [Names -> Nat] /\ \A n \in Names : meta'[n] <= now'
  <2>1. \A n \in Names : NoMeta[n] = 0 /\ meta[n] <= now /\ x.snap[n] <= now
    BY <1>1 DEF ImagesInv, MetaInv, NoMeta
  <2>2. x.snap \in [Names -> Nat] /\ meta \in [Names -> Nat] /\ NoMeta \in [Names -> Nat]
    BY <1>1 DEF Process, ImagesInv, Typed, NoMeta
  <2>3. CASE meta' = [x.snap EXCEPT ![x.n] = now + 1]
    BY <1>1, <1>3, <2>1, <2>2, <2>3
  <2>4. CASE meta' \in {meta, NoMeta}
    BY <1>3, <2>1, <2>2, <2>4
  <2> QED  BY <1>4, <2>3, <2>4
<1>7. Typed'
  BY <1>1, <1>2, <1>3, <1>6 DEF ImagesInv, Typed
<1>8. VersionInv' /\ AliasInv'
  BY <1>3, <1>5 DEF ImagesInv, VersionInv, AliasInv
<1>9. r.pc \notin Late /\ r.pc \notin Working /\ r.pc \notin Moving /\ x.pc \notin Moving
      /\ x.pc \in Late /\ r.pc \notin {"load", "write", "prune"} /\ x.pc \notin Working
  BY <1>1, <1>2 DEF Late, Working, Moving
<1>10. LateInv' /\ PointInv'
  BY <1>3, <1>5, <1>9 DEF ImagesInv, LateInv, PointInv
<1>11. \A q \in Procs : Builds(q)' => Builds(q) /\ q # p
  BY <1>3, <1>9 DEF Builds
<1>12. BoxInv'
  <2>1. ASSUME NEW q \in Procs, Builds(q)' PROVE But({"shared"})' \/ RanAt(proc[q])'
    <3>1. But({"shared"}) \/ RanAt(proc[q])
      BY <1>11, <2>1 DEF ImagesInv, BoxInv
    <3> QED  BY <1>3, <1>5, <1>11, <2>1, <3>1 DEF RanAt
  <2> QED  BY <1>3, <2>1 DEF ImagesInv, BoxInv
<1>13. SoloInv'
  BY <1>3, <1>5, <1>9, <1>11 DEF ImagesInv, SoloInv
<1>14. NewestInv'
  <2>1. \A n \in Names : Within(n, Moving) => Within(n, Moving)'
    BY <1>1, <1>3, <1>9 DEF Within
  <2> QED  BY <1>3, <1>5, <2>1 DEF ImagesInv, NewestInv
<1>15. PruneInv'
  BY <1>3, <1>5, <1>9 DEF ImagesInv, PruneInv
<1>16. But(Overlap) \/ \A q \in Procs \ {p} : proc[q].pc \notin Late
  BY <1>1, <1>9 DEF ImagesInv, SoloInv
<1>17. \A n \in Names \ {x.n} : Within(n, Late) => Within(n, Late)'
  BY <1>1, <1>3 DEF Within
<1>18. But(Excuses \cup {"unrecorded"})' \/
         /\ meta' = [meta EXCEPT ![x.n] = now + 1] /\ meta \in [Names -> Nat]
         /\ ~But(Overlap) /\ ~But(Excuses) /\ ~But(Excuses \cup {"unrecorded"})
         /\ \A n \in Names : meta[n] <= now
  BY <1>1, <1>3, <1>4 DEF ImagesInv, MetaInv, Typed, But, Overlap, Excuses
<1>19. MetaInv'
  <2>1. \A n \in Names : \A q \in Procs : proc'[q].snap[n] <= now'
    <3>1. \A n \in Names : NoMeta[n] = 0
      BY DEF NoMeta
    <3>2. ASSUME NEW n \in Names, NEW q \in Procs PROVE proc[q].snap[n] <= now + 1
      <4>1. proc[q].snap[n] \in Nat /\ proc[q].snap[n] <= now
        BY DEF ImagesInv, MetaInv, Typed, Process
      <4> QED  BY <1>3, <4>1
    <3> QED  BY <1>2, <1>3, <3>1, <3>2
  <2>2. But(Overlap)' \/ \A q \in Procs : proc'[q].pc # "write"
    BY <1>3, <1>5, <1>9, <1>16 DEF Late
  <2>3. \/ But(Excuses \cup {"unrecorded"})'
        \/ \A n \in Names : main[n] # 0 => meta'[n] # 0 \/ Within(n, Late)'
    <3>1. CASE But(Excuses \cup {"unrecorded"})'
      BY <3>1
    <3>2. ASSUME ~But(Excuses \cup {"unrecorded"})', NEW n \in Names, main[n] # 0
          PROVE  meta'[n] # 0 \/ Within(n, Late)'
      <4>1. CASE n = x.n
        BY <1>3, <1>18, <3>2, <4>1
      <4>2. CASE n # x.n
        BY <1>17, <1>18, <3>2, <4>2 DEF ImagesInv, MetaInv
      <4> QED  BY <4>1, <4>2
    <3> QED  BY <3>1, <3>2
  <2> QED  BY <1>3, <1>6, <2>1, <2>2, <2>3 DEF MetaInv
<1>20. ChildInv'
  BY <1>3, <1>5, <1>9, <1>11 DEF ImagesInv, ChildInv
<1>21. StaleTold'
  <2> SUFFICES ASSUME main["child"] # 0, main["base"] # 0, ~But(Excuses \cup {"unrecorded"})'
               PROVE  Reported' <=> imgs[main["child"]].on # main["base"]
    BY <1>3 DEF StaleTold, Excuses
  <2>1. main[x.n] = x.new /\ (x.n = "child" => imgs[x.new].on = main["base"]) /\ x.new = Len(imgs)
    BY <1>1, <1>9, <1>18 DEF ImagesInv, PointInv, ChildInv, LateInv
  <2>2. \A n \in Names \ {x.n} : ~Within(n, Late)
    BY <1>1, <1>16, <1>18 DEF Within
  <2>3. \A n \in Names \ {x.n} : main[n] # 0 => meta[n] # 0
    BY <1>18, <2>2 DEF ImagesInv, MetaInv
  <2>4. \A n \in Names : meta[n] \in Nat /\ meta[n] <= now
    BY <1>18
  <2>5. CASE x.n = "child"
    <3>1. meta'["child"] = now + 1 /\ meta'["base"] = meta["base"]
      BY <1>18, <2>5 DEF Names
    <3>2. meta["base"] \in Nat /\ meta["base"] <= now
      BY <2>4 DEF Names
    <3>3. ~(meta'["base"] > meta'["child"])
      BY <1>3, <3>1, <3>2
    <3> QED  BY <2>1, <2>5, <3>3 DEF Reported
  <2>6. CASE x.n = "base"
    <3>1. meta'["base"] = now + 1 /\ meta'["child"] = meta["child"] /\ meta["child"] # 0
      BY <1>18, <2>3, <2>6 DEF Names
    <3>2. meta["child"] \in Nat /\ meta["child"] <= now
      BY <2>4 DEF Names
    <3>3. Reported'
      BY <1>3, <3>1, <3>2 DEF Reported
    <3>4. main["child"] \in DOMAIN imgs /\ imgs[main["child"]].on < main["child"] /\ imgs \in Seq(Version)
      BY DEF ImagesInv, AliasInv, VersionInv, Names, Typed
    <3>5. imgs[main["child"]].on \in Nat /\ main["child"] <= Len(imgs)
      <4>1. imgs[main["child"]] \in Version /\ main["child"] \in 1..Len(imgs)
        BY <3>4
      <4> QED  BY <4>1 DEF Version
    <3>6. imgs[main["child"]].on # Len(imgs)
      BY <3>4, <3>5
    <3> QED  BY <2>1, <2>6, <3>3, <3>6
  <2> QED  BY <1>1, <2>5, <2>6 DEF Names
<1> QED  BY <1>7, <1>8, <1>10, <1>12, <1>13, <1>14, <1>15, <1>19, <1>20, <1>21 DEF ImagesInv

-----------------------------------------------------------------------------
(* An image is deleted: Delete and Prune.                                   *)

\* A later version than i of the same name is there.
Later(i) == \E j \in DOMAIN imgs : j > i /\ ~imgs[j].gone /\ imgs[j].of = imgs[i].of
\* Version i goes, excused or with a later one there, in a deletion by the user
\* or in a cleanup, which goes on with what it had left.
Removes(i) ==
  /\ i \in DOMAIN imgs /\ RemoveImage(i)
  /\ UNCHANGED <<box, meta, now>> /\ waived \subseteq waived'
  /\ Excused(Excuses) \/ Later(i)
  /\ proc' \in [Procs -> Process] /\ \A p \in Procs : proc'[p].pc # "idle" => proc'[p].n \in Names
  /\ \A p \in Procs :
       \/ proc'[p] = proc[p]
       \/ /\ proc[p].pc = "prune" /\ proc'[p].pc \in {"idle", "prune"}
          /\ proc'[p].snap \in {proc[p].snap, NoMeta}
          /\ proc'[p].pc = "prune" =>
               /\ proc'[p].todo # <<>>
               /\ \A k \in DOMAIN proc'[p].todo : \E h \in DOMAIN proc[p].todo :
                    proc'[p].todo[k] = proc[p].todo[h]

LEMMA RemoveKeeps ==
  ASSUME ImagesInv, NEW i, Removes(i)
  PROVE  ImagesInv'
<1>1. /\ DOMAIN imgs' = DOMAIN imgs /\ Len(imgs') = Len(imgs) /\ imgs' \in Seq(Version)
      /\ i \in DOMAIN imgs /\ imgs'[i].gone
      /\ \A j \in DOMAIN imgs : /\ imgs'[j].of = imgs[j].of /\ imgs'[j].on = imgs[j].on
                                /\ imgs'[j].whole = imgs[j].whole
                                /\ j # i => imgs'[j] = imgs[j]
  <2>1. imgs \in Seq(Version) /\ i \in DOMAIN imgs /\ imgs' = [imgs EXCEPT ![i].gone = TRUE]
    BY DEF ImagesInv, Typed, Removes, RemoveImage
  <2>2. PICK v \in Version : v = imgs[i]
    BY <2>1
  <2>3. PICK w : w = [v EXCEPT !.gone = TRUE]
    OBVIOUS
  <2>4. w \in Version /\ w.gone /\ w.of = v.of /\ w.on = v.on /\ w.whole = v.whole
    BY <2>3 DEF Version
  <2>5. imgs' = [imgs EXCEPT ![i] = w]
    BY <2>1, <2>2, <2>3
  <2>6. DOMAIN imgs' = DOMAIN imgs /\ Len(imgs') = Len(imgs) /\ imgs' \in Seq(Version)
    <3>1. PICK l \in Nat : l = Len(imgs) /\ imgs \in [1..l -> Version]
      BY <2>1
    <3>2. imgs' \in [1..l -> Version]
      BY <2>4, <2>5, <3>1
    <3> QED  BY <3>1, <3>2
  <2>7. imgs'[i] = w /\ \A j \in DOMAIN imgs \ {i} : imgs'[j] = imgs[j]
    BY <2>1, <2>5
  <2> QED  BY <2>1, <2>2, <2>4, <2>6, <2>7
<1>2. /\ box' = box /\ meta' = meta /\ now' = now /\ waived \subseteq waived'
      /\ main' \in [Names -> Nat]
      /\ \A n \in Names : main'[n] = IF main[n] = i THEN 0 ELSE main[n]
  BY DEF ImagesInv, Typed, Removes, RemoveImage
<1>3. \A reasons : But(reasons) => But(reasons)'
  BY <1>2, ExcuseStays DEF Excused
<1>4. \A p \in Procs : \/ proc'[p] = proc[p]
                       \/ /\ proc[p].pc = "prune" /\ proc'[p].pc \in {"idle", "prune"}
                          /\ proc'[p].snap \in {proc[p].snap, NoMeta}
  BY DEF Removes
<1>5. \A p \in Procs : proc'[p].pc \in Late \cup Working => proc'[p] = proc[p]
  BY <1>4 DEF Late, Working
<1>6. \A n \in Names : /\ Within(n, Moving) => Within(n, Moving)'
                       /\ Within(n, Late) => Within(n, Late)'
  BY <1>4 DEF Within, Late, Moving
<1>7. Typed'
  BY <1>1, <1>2 DEF ImagesInv, Typed, Removes
<1>8. VersionInv' /\ AliasInv'
  BY <1>1, <1>2, <1>3 DEF ImagesInv, VersionInv, AliasInv
<1>9. LateInv'
  BY <1>1, <1>3, <1>5 DEF ImagesInv, LateInv
<1>10. But(Excuses)' \/ \A n \in Names : Within(n, Moving) \/ main'[n] = main[n]
  <2> SUFFICES ASSUME ~But(Excuses)', NEW n \in Names, ~Within(n, Moving), main[n] = i
               PROVE  main'[n] = main[n]
    BY <1>2
  <2>1. PICK j \in DOMAIN imgs : j > i /\ ~imgs[j].gone /\ imgs[j].of = imgs[i].of
    BY DEF Removes, Later, Excused
  <2>2. imgs[i].of = n \/ i = 0
    BY <1>1 DEF ImagesInv, AliasInv
  <2>3. i # 0 /\ i \in Nat /\ j \in Nat
    BY <1>1 DEF ImagesInv, Typed
  <2>4. j <= i
    BY <1>3, <2>1, <2>2, <2>3 DEF ImagesInv, NewestInv
  <2> QED  BY <2>1, <2>3, <2>4
<1>11. \A q \in Procs : Builds(q)' => Builds(q) /\ proc'[q] = proc[q]
  BY <1>2, <1>5 DEF Builds
<1>12. But(Excuses)' \/
       \A p, q \in Procs : p # q /\ proc[p].pc \in Late => proc[q].pc \notin Late /\ ~Builds(q)
  BY <1>2 DEF ImagesInv, SoloInv, But, Excuses, Overlap
<1>13. PointInv'
  <2> SUFFICES ASSUME ~But(Excuses)', NEW q \in Procs, proc'[q].pc \in {"load", "write"}
               PROVE  main'[proc'[q].n] = proc'[q].new
    BY DEF PointInv
  <2>1. proc'[q] = proc[q] /\ proc[q].n \in Names
    BY <1>5 DEF Late, ImagesInv, Typed
  <2>2. ~Within(proc[q].n, Moving)
    BY <1>12, <2>1 DEF Within, Late, Moving
  <2> QED  BY <1>3, <1>10, <2>1, <2>2 DEF ImagesInv, PointInv
<1>14. BoxInv'
  <2>1. ASSUME NEW q \in Procs, Builds(q)' PROVE But({"shared"})' \/ RanAt(proc[q])'
    <3>1. But({"shared"}) \/ RanAt(proc[q])
      BY <1>11, <2>1 DEF ImagesInv, BoxInv
    <3> QED  BY <1>2, <1>3, <1>11, <2>1, <3>1 DEF RanAt
  <2> QED  BY <1>1, <1>2, <2>1 DEF ImagesInv, BoxInv
<1>15. SoloInv'
  BY <1>3, <1>5, <1>11 DEF ImagesInv, SoloInv
<1>16. NewestInv'
  <2> SUFFICES ASSUME ~But(Excuses)', NEW n \in Names, ~Within(n, Moving)', NEW j \in DOMAIN imgs,
                      imgs'[j].of = n
               PROVE  main'[n] # 0 /\ (~imgs'[j].gone => j <= main'[n])
    BY <1>1 DEF NewestInv
  <2>1. ~Within(n, Moving) /\ main'[n] = main[n] /\ imgs[j].of = n /\ (~imgs'[j].gone => ~imgs[j].gone)
    BY <1>1, <1>6, <1>10
  <2> QED  BY <1>3, <2>1 DEF ImagesInv, NewestInv
<1>17. PruneInv'
  <2> SUFFICES ASSUME NEW q \in Procs, proc'[q].pc = "prune"
               PROVE  /\ proc'[q].todo # <<>>
                      /\ \A k \in DOMAIN proc'[q].todo :
                           /\ proc'[q].todo[k] \in DOMAIN imgs
                           /\ But(Excuses)' \/ \E j \in DOMAIN imgs :
                                j > proc'[q].todo[k] /\ ~imgs'[j].gone
                                /\ imgs'[j].of = imgs'[proc'[q].todo[k]].of
    BY <1>1 DEF PruneInv
  <2>1. proc[q].pc = "prune" /\ proc'[q].todo # <<>>
    BY <1>4 DEF Removes, ImagesInv, PruneInv
  <2> SUFFICES ASSUME NEW k \in DOMAIN proc'[q].todo
               PROVE  /\ proc'[q].todo[k] \in DOMAIN imgs
                      /\ But(Excuses)' \/ \E j \in DOMAIN imgs :
                           j > proc'[q].todo[k] /\ ~imgs'[j].gone
                           /\ imgs'[j].of = imgs'[proc'[q].todo[k]].of
    BY <2>1
  <2>2. PICK h \in DOMAIN proc[q].todo : proc'[q].todo[k] = proc[q].todo[h]
    BY DEF Removes
  <2>3. PICK t : t = proc[q].todo[h]
    OBVIOUS
  <2>4. t \in DOMAIN imgs /\ (But(Excuses) \/ Later(t))
    BY <2>1, <2>2, <2>3 DEF ImagesInv, PruneInv, Later
  <2>5. ASSUME ~But(Excuses)'
        PROVE  \E j \in DOMAIN imgs : j > t /\ ~imgs'[j].gone /\ imgs'[j].of = imgs'[t].of
    <3>1. PICK j \in DOMAIN imgs : j > t /\ ~imgs[j].gone /\ imgs[j].of = imgs[t].of
      BY <1>3, <2>4, <2>5 DEF Later
    <3>2. CASE j # i
      BY <1>1, <2>4, <3>1, <3>2
    <3>3. CASE j = i
      <4>1. PICK m \in DOMAIN imgs : m > i /\ ~imgs[m].gone /\ imgs[m].of = imgs[i].of
        BY <2>5 DEF Removes, Later, Excused
      <4>2. m # i /\ m > t
        <5>1. m \in Nat /\ i \in Nat /\ t \in Nat
          BY <1>1, <2>4 DEF ImagesInv, Typed
        <5> QED  BY <3>1, <3>3, <4>1, <5>1
      <4> QED  BY <1>1, <2>4, <3>1, <3>3, <4>1, <4>2
    <3> QED  BY <3>2, <3>3
  <2> QED  BY <2>2, <2>3, <2>4, <2>5
<1>18. MetaInv'
  <2>1. \A n \in Names : meta[n] <= now /\ \A q \in Procs : proc'[q].snap[n] <= now
    <3>1. \A n \in Names : NoMeta[n] = 0 /\ 0 <= now
      BY DEF NoMeta, ImagesInv, Typed
    <3> QED  BY <1>4, <3>1 DEF ImagesInv, MetaInv
  <2>2. But(Overlap)' \/ \A q \in Procs : proc'[q].pc = "write" => proc'[q].snap = meta
    BY <1>3, <1>5 DEF ImagesInv, MetaInv, Late
  <2>3. \/ But(Excuses \cup {"unrecorded"})'
        \/ \A n \in Names : main'[n] # 0 => meta[n] # 0 \/ Within(n, Late)'
    BY <1>2, <1>3, <1>6 DEF ImagesInv, MetaInv
  <2> QED  BY <1>2, <2>1, <2>2, <2>3 DEF MetaInv
<1>19. ChildInv'
  <2> SUFFICES ASSUME ~But(Excuses)', NEW q \in Procs, proc'[q].n = "child"
               PROVE  /\ Builds(q)' => box.on = main'["base"]
                      /\ proc'[q].pc \in Late => imgs'[proc'[q].new].on = main'["base"]
    BY <1>2 DEF ChildInv
  <2>1. ASSUME Builds(q) \/ proc[q].pc \in Late, proc'[q] = proc[q] PROVE main'["base"] = main["base"]
    <3>1. ~Within("base", Moving)
      BY <1>12, <2>1 DEF Within, Late, Moving
    <3> QED  BY <1>10, <3>1 DEF Names
  <2>2. ASSUME Builds(q)' PROVE box.on = main'["base"]
    BY <1>3, <1>11, <2>1, <2>2 DEF ImagesInv, ChildInv
  <2>3. ASSUME proc'[q].pc \in Late PROVE imgs'[proc'[q].new].on = main'["base"]
    <3>1. proc'[q] = proc[q] /\ proc[q].new \in DOMAIN imgs
      BY <1>5, <2>3 DEF ImagesInv, LateInv
    <3> QED  BY <1>1, <1>3, <2>1, <2>3, <3>1 DEF ImagesInv, ChildInv
  <2> QED  BY <2>2, <2>3
<1>20. StaleTold'
  <2> SUFFICES ASSUME main'["child"] # 0, main'["base"] # 0, \A n \in Names : ~Within(n, Late)',
                      ~But(Excuses \cup {"unrecorded"})'
               PROVE  Reported' <=> imgs'[main'["child"]].on # main'["base"]
    BY DEF StaleTold, Excuses
  <2>1. main'["child"] = main["child"] /\ main'["base"] = main["base"]
    BY <1>2 DEF Names
  <2>2. main["child"] \in DOMAIN imgs
    BY <2>1 DEF ImagesInv, AliasInv, Names
  <2>3. (Reported' <=> Reported) /\ \A n \in Names : ~Within(n, Late)
    BY <1>2, <1>6 DEF Reported
  <2> QED  BY <1>1, <1>3, <2>1, <2>2, <2>3 DEF ImagesInv, StaleTold, Excuses
<1> QED  BY <1>7, <1>8, <1>9, <1>13, <1>14, <1>15, <1>16, <1>17, <1>18, <1>19, <1>20 DEF ImagesInv

-----------------------------------------------------------------------------
(* The steps, one by one.                                                   *)

\* What is known of the record of a command, and what it keeps when it moves on.
LEMMA Knowing ==
  ASSUME ImagesInv, NEW p \in Procs
  PROVE  \E x \in Process : x = proc[p] /\ (x.pc # "idle" => x.n \in Names)
                            /\ AfterDone(x) \in Process /\ NoProc \in Process
  BY DoneGoes DEF ImagesInv, Typed

LEMMA GotoMoves ==
  ASSUME ImagesInv, NEW p \in Procs, NEW pc, Goto(p, pc),
         pc \in {"fetch", "import", "launch", "undo"} \cup Working \cup Late,
         proc[p].pc # "idle"
  PROVE  \E x \in Process : \E r \in Process :
           /\ x = proc[p] /\ x.n \in Names /\ proc' = [proc EXCEPT ![p] = r]
           /\ r.pc = pc /\ r.n = x.n /\ r.new = x.new /\ r.snap = x.snap
<1>1. PICK x \in Process : x = proc[p] /\ x.n \in Names
  BY Knowing
<1> DEFINE r == [x EXCEPT !.pc = pc]
<1>2. r \in Process
  BY <1>1 DEF Process, Late, Moving
<1>3. r.pc = pc /\ r.n = x.n /\ r.new = x.new /\ r.snap = x.snap
  BY DEF Process
<1>4. proc' = [proc EXCEPT ![p] = r]
  BY <1>1 DEF Goto
<1> QED  BY <1>1, <1>2, <1>3, <1>4

\* A build that ends at pc, where nothing of it can be used, or another's.
LEMMA Ends ==
  ASSUME ImagesInv, NEW p \in Procs, NEW x, x = proc[p], x.pc # "idle", NEW r,
         r \in {NoProc, AfterDone(x)}, proc' = [proc EXCEPT ![p] = r],
         UNCHANGED <<imgs, main, meta, now>>, waived \subseteq waived', box' \in {box, NoBox},
         x.pc \in Moving => Excused(Excuses),
         x.pc \in Late => Excused(Excuses \cup {"unrecorded"})
  PROVE  ImagesInv'
<1>1. /\ r \in Process /\ r.pc \in {"idle", "check"} /\ (r.pc # "idle" => r.n \in Names)
      /\ r.snap = NoMeta
  BY DoneGoes DEF ImagesInv
<1>2. NoBox \in Crate /\ NoBox.on = 0
  BY DEF NoBox, Crate
<1>3. Goes(p, x, r)
  BY <1>1, <1>2 DEF Goes, Late, ImagesInv, Typed
<1>4. InBox(p, x, r) /\ Prunes(r)
  BY <1>1, <1>2 DEF InBox, Prunes, Working, ImagesInv, Typed, BoxInv
<1> QED  BY <1>3, <1>4, PlainKeeps DEF Plain

LEMMA BeginKeeps ==
  ASSUME ImagesInv, NEW p \in Procs, BuildCommand(p) \/ BuildAll(p) \/ AutoBuild(p)
  PROVE  ImagesInv'
<1>1. PICK forced \in BOOLEAN, names \in Seq(Names) : names # <<>> /\ Begins(p, forced, names)
  <2>1. <<"base", "child">> \in Seq(Names) /\ \A n \in Names : <<n>> \in Seq(Names) /\ <<n>> # <<>>
    BY DEF Names
  <2> QED  BY <2>1 DEF BuildCommand, BuildAll, AutoBuild
<1>2. PICK x \in Process : x = proc[p] /\ x.pc = "idle"
  BY <1>1, Knowing DEF Begins
<1>3. PICK r : r = Turn(forced, names)
  OBVIOUS
<1>4. Head(names) \in Names /\ Tail(names) \in Seq(Names)
  BY <1>1
<1>5. r \in Process /\ r.pc = "check" /\ r.n \in Names /\ r.snap = NoMeta
  <2>1. NoProc \in Process /\ NoProc.snap = NoMeta
    BY <1>2, DoneGoes DEF ImagesInv
  <2> QED  BY <1>3, <1>4, <2>1 DEF Turn, Process
<1>6. Goes(p, x, r)
  BY <1>1, <1>2, <1>3, <1>5 DEF Goes, Begins, Late, Moving, ImagesInv, Typed
<1>7. InBox(p, x, r) /\ Prunes(r)
  BY <1>1, <1>5 DEF InBox, Prunes, Begins, Working, ImagesInv, BoxInv
<1> QED  BY <1>1, <1>6, <1>7, PlainKeeps DEF Plain, Begins

\* A step that only moves p on, and leaves the container or removes it.
LEMMA OnKeeps ==
  ASSUME ImagesInv, NEW p \in Procs, NEW pc, Goto(p, pc), proc[p].pc # "idle",
         pc \in {"fetch", "import", "launch", "undo"} \cup (Late \ {"write"}),
         pc \in Late => proc[p].pc \in Late,
         pc \in {"load", "write"} => proc[p].pc \in {"load", "write"},
         proc[p].pc \in Moving => pc \in Moving,
         proc[p].pc \in Late => pc \in Late,
         UNCHANGED <<imgs, main, meta, now>>, waived \subseteq waived',
         \/ box' \in {box, NoBox}
         \/ box' \in Crate /\ box'.by = p /\ box'.on <= Len(imgs)
  PROVE  ImagesInv'
<1>1. PICK x \in Process, r \in Process :
           /\ x = proc[p] /\ x.n \in Names /\ proc' = [proc EXCEPT ![p] = r]
           /\ r.pc = pc /\ r.n = x.n /\ r.new = x.new /\ r.snap = x.snap
  BY GotoMoves
<1>2. NoBox \in Crate /\ NoBox.on = 0
  BY DEF NoBox, Crate
<1>3. Goes(p, x, r)
  BY <1>1, <1>2 DEF Goes, Late, ImagesInv, Typed
<1>4. InBox(p, x, r) /\ Prunes(r)
  BY <1>1, <1>2 DEF InBox, Prunes, Working, Late, ImagesInv, Typed, BoxInv
<1> QED  BY <1>3, <1>4, PlainKeeps DEF Plain

LEMMA CheckKeeps ==
  ASSUME ImagesInv, NEW p \in Procs, Check(p) \/ Cached(p) \/ Download(p) \/ Import(p)
  PROVE  ImagesInv'
<1>1. CASE Check(p)
  <2>1. /\ proc[p].pc = "check" /\ UNCHANGED <<imgs, main, meta, now, box, waived>>
        /\ Goto(p, "fetch") \/ Goto(p, "launch") \/ Done(p)
    BY <1>1 DEF Check, At
  <2>2. CASE Goto(p, "fetch")
    BY <2>1, <2>2, OnKeeps DEF Late, Moving
  <2>3. CASE Goto(p, "launch")
    BY <2>1, <2>3, OnKeeps DEF Late, Moving
  <2>4. CASE Done(p)
    BY <2>1, <2>4, Ends, DoneGoes DEF Late, Moving, ImagesInv
  <2> QED  BY <2>1, <2>2, <2>3, <2>4
<1>2. CASE Cached(p) \/ Download(p) \/ Import(p)
  <2>1. /\ proc[p].pc \in {"fetch", "import"} /\ UNCHANGED <<imgs, main, meta, now, box, waived>>
        /\ Goto(p, "launch") \/ Goto(p, "import")
    BY <1>2 DEF Cached, Download, Import, At
  <2>2. CASE Goto(p, "import")
    BY <2>1, <2>2, OnKeeps DEF Late, Moving
  <2>3. CASE Goto(p, "launch")
    BY <2>1, <2>3, OnKeeps DEF Late, Moving
  <2> QED  BY <2>1, <2>2, <2>3
<1> QED  BY <1>1, <1>2

LEMMA LaunchKeeps ==
  ASSUME ImagesInv, NEW p \in Procs, Launch(p)
  PROVE  ImagesInv'
<1>1. PICK x \in Process, r \in Process :
           /\ x = proc[p] /\ x.n \in Names /\ proc' = [proc EXCEPT ![p] = r]
           /\ r.pc = "network" /\ r.n = x.n /\ r.new = x.new /\ r.snap = x.snap
  <2>1. "network" \in Working /\ proc[p].pc # "idle" /\ Goto(p, "network")
    BY DEF Working, Launch, At
  <2> QED  BY <2>1, GotoMoves
<1>2. /\ x.pc = "launch" /\ Launchable(x.n) /\ UNCHANGED <<imgs, main, meta, now>>
      /\ box = NoBox /\ waived \subseteq waived'
      /\ But({"crossed"})' \/ \A q \in Procs : proc[q].pc \notin Late
  BY <1>1 DEF Launch, At, But
<1>3. PICK k : k = Parent(x.n) /\ box' = [NoBox EXCEPT !.by = p, !.on = k, !.up = TRUE]
  BY <1>1 DEF Launch
<1>4. /\ k \in Nat /\ k <= Len(imgs) /\ (x.n = "child" <=> k # 0)
      /\ x.n = "child" => k = main["base"]
  <2>1. main["base"] \in Nat /\ main["base"] <= Len(imgs) /\ 0 <= Len(imgs)
    <3>1. main["base"] \in Nat /\ imgs \in Seq(Version)
      BY DEF ImagesInv, Typed, Names
    <3>2. main["base"] # 0 => main["base"] \in DOMAIN imgs
      BY DEF ImagesInv, AliasInv, Names
    <3> QED  BY <3>1, <3>2
  <2>2. CASE x.n = "base"
    BY <1>3, <2>1, <2>2 DEF Parent
  <2>3. CASE x.n = "child"
    BY <1>2, <1>3, <2>1, <2>3 DEF Parent, Launchable
  <2> QED  BY <1>1, <2>2, <2>3 DEF Names
<1>5. /\ box' \in Crate /\ box'.by = p /\ box'.on = k /\ box'.began = {} /\ box'.ran = {}
  BY <1>4, <1>3 DEF NoBox, Crate
<1>6. x.pc \notin Late /\ r.pc \notin Late /\ x.pc \notin Moving
  BY <1>1, <1>2 DEF Late, Moving
<1>7. Goes(p, x, r)
  BY <1>1, <1>2, <1>5, <1>6 DEF Goes, Late
<1>8. InBox(p, x, r)
  <2>1. RanAt(r)'
    BY <1>1, <1>4, <1>5 DEF RanAt
  <2>2. Excused(Overlap) \/ \A q \in Procs : proc[q].pc \notin Late
    BY <1>2 DEF Excused, But, Overlap
  <2> QED  BY <1>1, <1>4, <1>5, <2>1, <2>2 DEF InBox
<1>9. Prunes(r)
  BY <1>1 DEF Prunes
<1> QED  BY <1>2, <1>7, <1>8, <1>9, PlainKeeps DEF Plain

LEMMA ScriptKeeps ==
  ASSUME ImagesInv, NEW p \in Procs, Network(p) \/ ScriptBegins(p) \/ ScriptEnds(p) \/ Stop(p)
  PROVE  ImagesInv'
<1>1. PICK pc \in {"script", "running", "stop", "publish"} :
        /\ Goto(p, pc) /\ box.up /\ UNCHANGED <<imgs, main, meta, now>>
        /\ waived' = waived \cup Shared(p)
        /\ \/ proc[p].pc = "network" /\ pc = "script" /\ box' = box
           \/ proc[p].pc = "script" /\ pc = "running" /\ box' = [box EXCEPT !.began = @ \cup {proc[p].n}]
           \/ proc[p].pc = "running" /\ pc = "stop" /\ box' = [box EXCEPT !.ran = @ \cup {proc[p].n}]
           \/ proc[p].pc = "stop" /\ pc = "publish" /\ box' = [box EXCEPT !.up = FALSE]
  BY DEF Network, ScriptBegins, ScriptEnds, Stop, At
<1>2. PICK x \in Process, r \in Process :
           /\ x = proc[p] /\ x.n \in Names /\ proc' = [proc EXCEPT ![p] = r]
           /\ r.pc = pc /\ r.n = x.n /\ r.new = x.new /\ r.snap = x.snap
  BY <1>1, GotoMoves DEF Working
<1>3. PICK b \in Crate : b = box /\ b.up /\ box # NoBox /\ b.on <= Len(imgs)
  <2>1. ~NoBox.up
    BY DEF NoBox
  <2> QED  BY <1>1, <2>1 DEF ImagesInv, Typed, BoxInv
<1>4. box' \in Crate /\ box'.by = b.by /\ box'.on = b.on
  <2>1. PICK n \in Names : n = proc[p].n
    BY <1>2
  <2>2. \/ box' = b \/ box' = [b EXCEPT !.began = @ \cup {n}]
        \/ box' = [b EXCEPT !.ran = @ \cup {n}] \/ box' = [b EXCEPT !.up = FALSE]
    BY <1>1, <1>3, <2>1
  <2>3. CASE box' = [b EXCEPT !.began = @ \cup {n}]
    BY <2>3 DEF Crate
  <2>4. CASE box' = [b EXCEPT !.ran = @ \cup {n}]
    BY <2>4 DEF Crate
  <2>5. CASE box' = [b EXCEPT !.up = FALSE]
    BY <2>5 DEF Crate
  <2> QED  BY <2>2, <2>3, <2>4, <2>5
<1>5. x.pc \in Working /\ r.pc \in Working /\ x.pc \notin Late /\ r.pc \notin Late
  BY <1>1, <1>2 DEF Working, Late
<1>6. Goes(p, x, r)
  BY <1>1, <1>2, <1>4, <1>5 DEF Goes, Late, Moving
<1>7. But({"shared"})' \/ (box.by = p /\ ~But({"shared"}) /\ Builds(p))
  BY <1>1, <1>2, <1>3, <1>5 DEF Shared, But, Builds
<1>8. But({"shared"})' \/ RanAt(r)'
  <2>1. ASSUME ~But({"shared"})' PROVE RanAt(x)
    BY <1>2, <1>7, <2>1 DEF ImagesInv, BoxInv
  <2>2. ASSUME RanAt(x) PROVE RanAt(r)'
    BY <1>1, <1>2, <1>3, <1>4, <2>2 DEF RanAt, Crate
  <2> QED  BY <2>1, <2>2
<1>9. InBox(p, x, r)
  <2>1. But({"shared"})' => Excused({"shared"}) /\ Excused(Overlap)
    BY DEF Excused, But, Overlap
  <2>2. CASE But({"shared"})'
    BY <1>2, <1>3, <1>4, <1>5, <2>1, <2>2 DEF InBox, Builds
  <2>3. CASE ~But({"shared"})'
    BY <1>2, <1>3, <1>4, <1>7, <1>8, <2>3 DEF InBox
  <2> QED  BY <2>2, <2>3
<1> QED  BY <1>1, <1>2, <1>6, <1>9, PlainKeeps DEF Plain, Prunes

LEMMA CleanKeeps ==
  ASSUME ImagesInv, NEW p \in Procs, Clean(p) \/ CleanFails(p) \/ Fails(p) \/ Undo(p)
  PROVE  ImagesInv'
<1>1. CASE Clean(p) \/ CleanFails(p)
  <2>1. /\ proc[p].pc = "clean" /\ Goto(p, "find") /\ UNCHANGED <<imgs, main, meta, now, waived>>
        /\ box' \in {box, NoBox}
    BY <1>1 DEF Clean, CleanFails, At
  <2> QED  BY <2>1, OnKeeps DEF Late, Moving
<1>2. CASE Fails(p)
  <2>1. /\ Goto(p, "undo") /\ UNCHANGED <<imgs, main, meta, now, waived>>
        /\ proc[p].pc \in {"fetch", "import", "launch"} \cup Working
    BY <1>2 DEF Fails, Refused, Working
  <2>2. proc[p].pc # "idle" /\ proc[p].pc \notin Late /\ proc[p].pc \notin Moving
    BY <2>1 DEF Late, Moving, Working
  <2>3. CASE box' = box
    BY <2>1, <2>2, <2>3, OnKeeps DEF Late
  <2>4. CASE Launchable(proc[p].n) /\ box' = [NoBox EXCEPT !.by = p, !.on = Parent(proc[p].n)]
    <3>1. PICK k : k = Parent(proc[p].n) /\ box' = [NoBox EXCEPT !.by = p, !.on = k]
      BY <2>4
    <3>2. k \in Nat /\ k <= Len(imgs)
      <4>1. imgs \in Seq(Version) /\ main["base"] \in Nat
            /\ (main["base"] # 0 => main["base"] \in DOMAIN imgs)
        BY DEF ImagesInv, Typed, AliasInv, Names
      <4> QED  BY <3>1, <4>1 DEF Parent
    <3>3. box' \in Crate /\ box'.by = p /\ box'.on = k
      BY <3>1, <3>2 DEF NoBox, Crate
    <3> QED  BY <2>1, <2>2, <3>2, <3>3, OnKeeps DEF Late
  <2> QED  BY <1>2, <2>3, <2>4 DEF Fails
<1>3. CASE Undo(p)
  <2>1. /\ proc[p].pc = "undo" /\ Done(p) /\ UNCHANGED <<imgs, main, meta, now, waived>>
        /\ box' \in {box, NoBox}
    BY <1>3 DEF Undo, At
  <2> QED  BY <2>1, Ends, DoneGoes DEF Late, Moving, ImagesInv
<1> QED  BY <1>1, <1>2, <1>3

LEMMA AliasKeeps ==
  ASSUME ImagesInv, NEW p \in Procs, Find(p) \/ Drop(p) \/ Point(p) \/ PointFails(p)
  PROVE  ImagesInv'
<1>1. CASE Find(p)
  <2>1. /\ proc[p].pc = "find" /\ UNCHANGED <<imgs, main, meta, now, box>> /\ waived \subseteq waived'
        /\ Goto(p, "drop") \/ (Done(p) /\ Excused(Excuses) /\ Excused(Excuses \cup {"unrecorded"}))
    BY <1>1 DEF Find, At, Excused, But, Excuses, Broken
  <2>2. CASE Goto(p, "drop")
    BY <2>1, <2>2, OnKeeps DEF Late, Moving
  <2>3. CASE Done(p) /\ Excused(Excuses) /\ Excused(Excuses \cup {"unrecorded"})
    BY <2>1, <2>3, Ends, DoneGoes DEF ImagesInv
  <2> QED  BY <2>1, <2>2, <2>3
<1>2. CASE PointFails(p)
  <2>1. /\ proc[p].pc = "point" /\ UNCHANGED <<imgs, main, meta, now, box>> /\ waived \subseteq waived'
        /\ Done(p) /\ Excused(Excuses) /\ Excused(Excuses \cup {"unrecorded"})
    BY <1>2 DEF PointFails, At, Excused, But, Excuses, Broken
  <2> QED  BY <2>1, Ends, DoneGoes DEF ImagesInv
<1>3. CASE Drop(p) \/ Point(p)
  <2>1. PICK pc \in {"point", "load"} :
          /\ Goto(p, pc) /\ UNCHANGED <<imgs, box, meta, now, waived>>
          /\ \/ /\ proc[p].pc = "drop" /\ pc = "point"
                /\ main' = main \/ main' = [main EXCEPT ![proc[p].n] = 0]
             \/ /\ proc[p].pc = "point" /\ pc = "load" /\ There(proc[p].new)
                /\ main' = [main EXCEPT ![proc[p].n] = proc[p].new]
    BY <1>3 DEF Drop, Point, At
  <2>2. PICK x \in Process, r \in Process :
             /\ x = proc[p] /\ x.n \in Names /\ proc' = [proc EXCEPT ![p] = r]
             /\ r.pc = pc /\ r.n = x.n /\ r.new = x.new /\ r.snap = x.snap
    BY <2>1, GotoMoves DEF Late
  <2>3. CASE main' = main /\ pc = "point"
    BY <2>1, <2>3, OnKeeps DEF Late, Moving
  <2>4. CASE pc = "point" /\ main' = [main EXCEPT ![proc[p].n] = 0]
    <3>1. Aims(p, x, r, 0)
      BY <2>1, <2>2, <2>4 DEF Aims, Moving
    <3> QED  BY <3>1, AimKeeps
  <2>5. CASE pc = "load"
    <3>1. Aims(p, x, r, x.new)
      BY <2>1, <2>2, <2>5 DEF Aims, Moving, There
    <3> QED  BY <3>1, AimKeeps
  <2> QED  BY <2>1, <2>3, <2>4, <2>5
<1> QED  BY <1>1, <1>2, <1>3

LEMMA LoadKeeps ==
  ASSUME ImagesInv, NEW p \in Procs, Load(p)
  PROVE  ImagesInv'
<1>1. PICK x \in Process : x = proc[p] /\ x.pc = "load" /\ x.n \in Names
  BY Knowing DEF Load, At
<1> DEFINE r == [x EXCEPT !.pc = "write", !.snap = meta]
<1>2. meta \in [Names -> Nat]
  BY DEF ImagesInv, Typed
<1>3. /\ r \in Process /\ r.pc = "write" /\ r.n = x.n /\ r.new = x.new /\ r.snap = meta
      /\ proc' = [proc EXCEPT ![p] = r]
  BY <1>1, <1>2 DEF Load, Process
<1>4. UNCHANGED <<imgs, main, meta, now, box, waived>>
  BY DEF Load
<1> HIDE DEF r
<1>5. Goes(p, x, r)
  BY <1>1, <1>3, <1>4 DEF Goes, Late, Moving, ImagesInv, Typed
<1>6. InBox(p, x, r) /\ Prunes(r)
  BY <1>3, <1>4 DEF InBox, Prunes, Working, ImagesInv, BoxInv
<1> QED  BY <1>4, <1>5, <1>6, PlainKeeps DEF Plain

LEMMA KillKeeps ==
  ASSUME ImagesInv, NEW p \in Procs, Kill(p)
  PROVE  ImagesInv'
<1>1. PICK x : x = proc[p]
  OBVIOUS
<1>2. /\ x.pc # "idle" /\ proc' = [proc EXCEPT ![p] = NoProc]
      /\ UNCHANGED <<imgs, main, meta, now, box>> /\ waived \subseteq waived'
  BY <1>1 DEF Kill, Idle
<1>3. /\ x.pc \in Moving => Excused(Excuses)
      /\ x.pc \in Late => Excused(Excuses \cup {"unrecorded"})
  BY <1>1 DEF Kill, Excused, But, Excuses, Broken, Moving, Late
<1> QED  BY <1>1, <1>2, <1>3, Ends

LEMMA PruneKeeps ==
  ASSUME ImagesInv, NEW p \in Procs, Prune(p)
  PROVE  ImagesInv'
<1>1. PICK x \in Process : x = proc[p] /\ x.pc = "prune" /\ x.n \in Names
  BY Knowing DEF Prune, At
<1>2. PICK i : i = Head(x.todo)
  OBVIOUS
<1>3. /\ x.todo \in Seq(Nat) /\ x.todo # <<>> /\ i = x.todo[1] /\ 1 \in DOMAIN x.todo
      /\ i \in DOMAIN imgs /\ (But(Excuses) \/ Later(i))
  <2>1. x.todo \in Seq(Nat) /\ x.todo # <<>>
    BY <1>1 DEF Process, ImagesInv, PruneInv
  <2>2. i = x.todo[1] /\ 1 \in DOMAIN x.todo
    BY <1>2, <2>1
  <2> QED  BY <1>1, <2>1, <2>2 DEF ImagesInv, PruneInv, Later
<1>4. UNCHANGED <<box, meta, now, waived>>
  BY DEF Prune
<1>5. CASE Idle(p) /\ UNCHANGED <<imgs, main>>
  BY <1>1, <1>4, <1>5, Ends DEF Idle, Moving, Late
<1>6. CASE There(i) /\ RemoveImage(i) /\ (IF Len(x.todo) = 1 THEN Idle(p)
                                         ELSE proc' = [proc EXCEPT ![p].todo = Tail(@)])
  <2>1. PICK r \in Process : /\ proc' = [proc EXCEPT ![p] = r]
                             /\ r.pc # "idle" => r.n \in Names
                             /\ r.pc \in {"idle", "prune"} /\ r.snap \in {x.snap, NoMeta}
                             /\ r.pc = "prune" => r.todo = Tail(x.todo) /\ Len(x.todo) > 1
    <3>1. CASE Len(x.todo) = 1
      BY <1>6, <3>1, DoneGoes DEF Idle, ImagesInv
    <3>2. CASE Len(x.todo) # 1
      <4> DEFINE r == [x EXCEPT !.todo = Tail(x.todo)]
      <4>1. Tail(x.todo) \in Seq(Nat) /\ Len(x.todo) > 1
        <5>1. PICK l \in Nat : l = Len(x.todo) /\ l # 0
          BY <1>3
        <5>2. l # 1
          BY <3>2, <5>1
        <5>3. \A m \in Nat : m # 0 /\ m # 1 => m > 1
          OBVIOUS
        <5>4. l \in Nat /\ l # 0
          BY <5>1
        <5>5. l > 1
          BY <5>2, <5>3, <5>4
        <5> QED  BY <1>3, <5>1, <5>5
      <4>2. r \in Process /\ r.pc = "prune" /\ r.n = x.n /\ r.snap = x.snap /\ r.todo = Tail(x.todo)
        BY <1>1, <4>1 DEF Process
      <4>3. proc' = [proc EXCEPT ![p] = r]
        BY <1>1, <1>6, <3>2
      <4> QED  BY <1>1, <4>1, <4>2, <4>3
    <3> QED  BY <3>1, <3>2
  <2>2. r.pc = "prune" =>
          /\ r.todo # <<>>
          /\ \A k \in DOMAIN r.todo : \E h \in DOMAIN x.todo : r.todo[k] = x.todo[h]
    <3> SUFFICES ASSUME r.pc = "prune"
                 PROVE  /\ r.todo # <<>>
                        /\ \A k \in DOMAIN r.todo : k + 1 \in DOMAIN x.todo /\ r.todo[k] = x.todo[k + 1]
      OBVIOUS
    <3>1. PICK l \in Nat : l = Len(x.todo) /\ l > 1
      BY <1>3, <2>1
    <3>2. DOMAIN Tail(x.todo) = 1..(l - 1) /\ DOMAIN x.todo = 1..l
          /\ \A k \in 1..(l - 1) : Tail(x.todo)[k] = x.todo[k + 1]
      BY <1>3, <3>1
    <3>3. 1 \in 1..(l - 1) /\ \A k \in 1..(l - 1) : k + 1 \in 1..l
      BY <3>1
    <3>4. Tail(x.todo) # <<>>
      <4>1. Tail(x.todo) = <<>> => DOMAIN Tail(x.todo) = {}
        OBVIOUS
      <4> QED  BY <3>2, <3>3, <4>1
    <3> QED  BY <2>1, <3>2, <3>3, <3>4
  <2>3. Removes(i)
    <3>1. proc' \in [Procs -> Process] /\ \A q \in Procs : proc'[q].pc # "idle" => proc'[q].n \in Names
      BY <2>1 DEF ImagesInv, Typed
    <3>2. proc'[p] = r /\ \A q \in Procs \ {p} : proc'[q] = proc[q]
      BY <2>1 DEF ImagesInv, Typed
    <3> QED  BY <1>1, <1>3, <1>4, <1>6, <2>1, <2>2, <3>1, <3>2 DEF Removes, Excused, But
  <2> QED  BY <2>3, RemoveKeeps
<1> QED  BY <1>1, <1>2, <1>5, <1>6 DEF Prune

LEMMA DeleteKeeps ==
  ASSUME ImagesInv, Delete
  PROVE  ImagesInv'
<1>1. PICK n \in Names : main[n] # 0 /\ RemoveImage(main[n])
  BY DEF Delete
<1>2. main[n] \in DOMAIN imgs /\ Excused(Excuses) /\ waived \subseteq waived'
      /\ UNCHANGED <<box, meta, now, proc>>
  BY <1>1 DEF ImagesInv, AliasInv, Excused, But, Excuses, Removed, Delete
<1>3. Removes(main[n])
  BY <1>1, <1>2 DEF Removes, ImagesInv, Typed
<1> QED  BY <1>3, RemoveKeeps

-----------------------------------------------------------------------------
(* The listing of a cleanup.                                                *)

\* What is picked of the numbers 1 to l are the numbers asked for, in order.
LEMMA PickNumbers ==
  ASSUME NEW l \in Nat, NEW ids \in Seq(1..l), DOMAIN ids = 1..l, \A i \in 1..l : ids[i] = i,
         NEW P \in SUBSET (1..l)
  PROVE  /\ Pick(ids, P) \in Seq(1..l) /\ \A n \in DOMAIN Pick(ids, P) : Pick(ids, P)[n] \in P
         /\ \A n, m \in DOMAIN Pick(ids, P) : n < m => Pick(ids, P)[n] < Pick(ids, P)[m]
<1>1. PICK T : T = 1..l
  OBVIOUS
<1>2. ids \in Seq(T) /\ P \in SUBSET DOMAIN ids
  BY <1>1
<1>3. /\ Pick(ids, P) \in Seq(T)
      /\ \A n \in DOMAIN Pick(ids, P) : \E i \in P : Pick(ids, P)[n] = ids[i]
  BY <1>2, PickHolds
<1>4. \A i \in P : ids[i] = i
  OBVIOUS
<1>5. PICK R : R = {t \in (1..l) \X (1..l) : t[1] < t[2]}
  OBVIOUS
<1>6. \A i, j \in DOMAIN ids : i < j => <<ids[i], ids[j]>> \in R
  BY <1>1, <1>5
<1>7. \A n, m \in DOMAIN Pick(ids, P) : n < m => <<Pick(ids, P)[n], Pick(ids, P)[m]>> \in R
  BY <1>2, <1>6, PickKeepsOrder
<1>8. \A a, b : <<a, b>> \in R => a < b
  BY <1>5
<1>9. \A n \in DOMAIN Pick(ids, P) : Pick(ids, P)[n] \in P
  BY <1>3, <1>4
<1>10. \A n, m \in DOMAIN Pick(ids, P) : n < m => Pick(ids, P)[n] < Pick(ids, P)[m]
  BY <1>7, <1>8
<1>11. Pick(ids, P) \in Seq(1..l)
  BY <1>1, <1>3
<1> QED  BY <1>9, <1>10, <1>11

\* What ByAge and Old leave: versions, and but for a first alias without a time
\* none is the latest.
LEMMA OldHolds ==
  ASSUME NEW l \in Nat, imgs \in Seq(Version), l = Len(imgs), NEW set \in SUBSET (1..l),
         NEW bare \in Nat, NEW keep \in {1, 2}, NEW found, found = ByAge(set, bare),
         Len(found) > keep
  PROVE  /\ Old(found, keep) \in Seq(Nat) /\ Old(found, keep) # <<>>
         /\ \A k \in DOMAIN Old(found, keep) :
              /\ Old(found, keep)[k] \in set
              /\ bare \notin set => \E j \in set : j > Old(found, keep)[k]
<1> DEFINE ids == [i \in DOMAIN imgs |-> i]
           first == Pick(ids, set \cap {bare})
           rest == Pick(ids, set \ {bare})
<1>1. /\ DOMAIN imgs = 1..l /\ ids \in Seq(1..l) /\ DOMAIN ids = 1..l
      /\ \A i \in 1..l : ids[i] = i
  <2>1. DOMAIN imgs = 1..l
    OBVIOUS
  <2>2. ids = [i \in 1..l |-> i]
    BY <2>1
  <2> QED  BY <2>1, <2>2
<1> HIDE DEF ids
<1>2. found = first \o rest
  BY <1>1 DEF ByAge, ids
<1>3. /\ first \in Seq(1..l) /\ \A n \in DOMAIN first : first[n] \in set
      /\ bare \notin set => first = <<>>
  <2>1. first \in Seq(1..l) /\ \A n \in DOMAIN first : first[n] \in set \cap {bare}
    BY <1>1, PickNumbers
  <2>2. \A n \in DOMAIN first : first[n] \in set /\ first[n] = bare
    BY <2>1
  <2>3. first # <<>> => 1 \in DOMAIN first
    <3> HIDE DEF first
    <3> QED  BY <2>1
  <2> HIDE DEF first
  <2> QED  BY <2>1, <2>2, <2>3
<1>4. /\ rest \in Seq(1..l) /\ \A n \in DOMAIN rest : rest[n] \in set
      /\ \A n, m \in DOMAIN rest : n < m => rest[n] < rest[m]
  <2>1. /\ rest \in Seq(1..l) /\ \A n \in DOMAIN rest : rest[n] \in set \ {bare}
        /\ \A n, m \in DOMAIN rest : n < m => rest[n] < rest[m]
    BY <1>1, PickNumbers
  <2> HIDE DEF rest
  <2> QED  BY <2>1
<1> HIDE DEF first, rest
<1>5. PICK a \in Nat, b \in Nat : a = Len(first) /\ b = Len(rest)
  BY <1>3, <1>4
<1>6. /\ found \in Seq(1..l) /\ Len(found) = a + b
      /\ \A k \in 1..(a + b) : found[k] \in set
  <2>1. found \in Seq(1..l) /\ Len(found) = a + b
    BY <1>2, <1>3, <1>4, <1>5
  <2>2. \A k \in 1..(a + b) : found[k] = IF k <= a THEN first[k] ELSE rest[k - a]
    BY <1>2, <1>3, <1>4, <1>5
  <2>3. ASSUME NEW k \in 1..(a + b) PROVE found[k] \in set
    <3>1. k <= a => k \in DOMAIN first
      BY <1>3, <1>5
    <3>2. ~(k <= a) => k - a \in DOMAIN rest
      BY <1>4, <1>5
    <3> QED  BY <1>3, <1>4, <2>2, <3>1, <3>2
  <2> QED  BY <2>1, <2>3
<1> DEFINE old == Old(found, keep)
<1>7. PICK c \in Nat : c = a + b - keep /\ c > 0
  BY <1>6
<1>8. /\ old = [k \in 1..c |-> found[k]] /\ \A k \in 1..c : k \in 1..(a + b) /\ k < a + b
  <2>1. old = SubSeq(found, 1, c)
    BY <1>6, <1>7 DEF Old
  <2>2. SubSeq(found, 1, c) = [k \in 1..c |-> found[k]]
    BY <1>6, <1>7
  <2>3. \A k \in 1..c : k \in 1..(a + b) /\ k < a + b
    BY <1>7
  <2> QED  BY <2>1, <2>2, <2>3
<1> HIDE DEF old
<1>9. old \in Seq(Nat) /\ old # <<>> /\ DOMAIN old = 1..c /\ \A k \in 1..c : old[k] = found[k]
  <2>1. \A k \in 1..c : found[k] \in Nat
    <3>1. \A k \in 1..c : k \in 1..(a + b)
      BY <1>8
    <3>2. \A k \in 1..(a + b) : found[k] \in 1..l
      BY <1>6
    <3> QED  BY <3>1, <3>2
  <2>2. DOMAIN old = 1..c /\ \A k \in 1..c : old[k] = found[k]
    BY <1>8
  <2>3. old \in Seq(Nat)
    BY <1>7, <1>8, <2>1
  <2>4. 1 \in DOMAIN old
    BY <1>7, <2>2
  <2> QED  BY <2>2, <2>3, <2>4
<1>10. ASSUME NEW k \in 1..c, bare \notin set PROVE \E j \in set : j > found[k]
  <2>1. a = 0 /\ found = rest
    BY <1>2, <1>3, <1>4, <1>5, <1>10
  <2>2. k \in DOMAIN rest /\ b \in DOMAIN rest /\ k < b /\ k \in Nat
    BY <1>4, <1>5, <1>8, <2>1
  <2>3. rest[k] < rest[b] /\ rest[b] \in set /\ rest[k] \in Nat /\ rest[b] \in Nat
    BY <1>4, <2>2
  <2> QED  BY <2>1, <2>3
<1> QED  BY <1>6, <1>8, <1>9, <1>10 DEF old

LEMMA ListKeeps ==
  ASSUME ImagesInv, NEW p \in Procs, List(p)
  PROVE  ImagesInv'
<1>1. PICK x \in Process : x = proc[p] /\ x.pc = "idle"
  BY Knowing DEF List
<1>2. PICK l \in Nat : imgs \in Seq(Version) /\ l = Len(imgs) /\ DOMAIN imgs = 1..l
  BY DEF ImagesInv, Typed
<1>3. PICK n \in Names, keep \in {1, 2}, bare \in Nat :
        /\ bare \in {0, main[n]} /\ Len(ByAge(Versions(n), bare)) > keep
        /\ proc' = [proc EXCEPT ![p] = [NoProc EXCEPT !.pc = "prune", !.n = n,
                      !.todo = Old(ByAge(Versions(n), bare), keep)]]
        /\ waived' = waived \cup (IF bare = 0 THEN {} ELSE {"bare"})
  <2>1. PICK n \in Names, dash \in BOOLEAN, keep \in {1, 2} :
          \E bare \in (IF dash THEN {0} ELSE {0, main[n]}) :
            LET found == ByAge(Versions(n), bare) IN
            /\ Len(found) > keep
            /\ proc' = [proc EXCEPT ![p] = [NoProc EXCEPT !.pc = "prune", !.n = n,
                          !.todo = Old(found, keep)]]
            /\ waived' = waived \cup (IF bare = 0 THEN {} ELSE {"bare"})
    BY DEF List
  <2>2. PICK bare \in (IF dash THEN {0} ELSE {0, main[n]}) :
          /\ Len(ByAge(Versions(n), bare)) > keep
          /\ proc' = [proc EXCEPT ![p] = [NoProc EXCEPT !.pc = "prune", !.n = n,
                        !.todo = Old(ByAge(Versions(n), bare), keep)]]
          /\ waived' = waived \cup (IF bare = 0 THEN {} ELSE {"bare"})
    BY <2>1
  <2>3. bare \in {0, main[n]} /\ bare \in Nat
    BY DEF ImagesInv, Typed
  <2> QED  BY <2>1, <2>2, <2>3
<1>4. PICK set \in SUBSET (1..l) : set = Versions(n) /\ 0 \notin set /\ set \subseteq DOMAIN imgs
                                   /\ \A i \in set : imgs[i].of = n /\ ~imgs[i].gone
  <2>1. \A i \in Versions(n) : i \in 1..l /\ i # 0 /\ imgs[i].of = n /\ ~imgs[i].gone
    BY <1>2 DEF Versions, There
  <2> QED  BY <1>2, <2>1
<1>5. PICK found, old : found = ByAge(set, bare) /\ old = Old(found, keep) /\ Len(found) > keep
  BY <1>3, <1>4
<1>6. /\ old \in Seq(Nat) /\ old # <<>>
      /\ \A k \in DOMAIN old : /\ old[k] \in set
                               /\ bare \notin set => \E j \in set : j > old[k]
  <2>1. l \in Nat /\ imgs \in Seq(Version) /\ l = Len(imgs) /\ set \in SUBSET (1..l)
        /\ bare \in Nat /\ keep \in {1, 2} /\ found = ByAge(set, bare) /\ Len(found) > keep
    BY <1>2, <1>3, <1>4, <1>5
  <2>2. /\ Old(found, keep) \in Seq(Nat) /\ Old(found, keep) # <<>>
        /\ \A k \in DOMAIN Old(found, keep) :
             /\ Old(found, keep)[k] \in set
             /\ bare \notin set => \E j \in set : j > Old(found, keep)[k]
    BY <2>1, OldHolds
  <2> QED  BY <1>5, <2>2
<1>7. PICK r : r = [NoProc EXCEPT !.pc = "prune", !.n = n, !.todo = old]
  OBVIOUS
<1>8. /\ proc' = [proc EXCEPT ![p] = r] /\ r \in Process /\ r.pc = "prune" /\ r.n = n
      /\ r.todo = old /\ r.snap = NoMeta
  <2>1. NoProc \in Process /\ NoProc.snap = NoMeta
    BY <1>1, DoneGoes DEF ImagesInv
  <2> QED  BY <1>3, <1>4, <1>5, <1>6, <1>7, <2>1 DEF Process
<1>9. /\ waived \subseteq waived' /\ UNCHANGED <<imgs, main, meta, now, box>>
      /\ Excused(Excuses) \/ bare = 0
  BY <1>3 DEF List, Excused, But, Excuses, Removed
<1>10. Goes(p, x, r)
  BY <1>1, <1>3, <1>8, <1>9 DEF Goes, Late, Moving, ImagesInv, Typed
<1>11. InBox(p, x, r)
  BY <1>8, <1>9 DEF InBox, Working, ImagesInv, BoxInv
<1>12. Prunes(r)
  BY <1>4, <1>6, <1>8, <1>9 DEF Prunes
<1> QED  BY <1>9, <1>10, <1>11, <1>12, PlainKeeps DEF Plain

-----------------------------------------------------------------------------
\* Every step keeps the invariant: those of a command, one by one, and Delete.
LEMMA ImagesStep == ImagesInv /\ [Next]_vars => ImagesInv'
<1> SUFFICES ASSUME ImagesInv, [Next]_vars PROVE ImagesInv'
  OBVIOUS
<1>1. ASSUME NEW p \in Procs,
             \/ BuildCommand(p) \/ BuildAll(p) \/ AutoBuild(p) \/ Check(p) \/ Cached(p)
             \/ Download(p) \/ Import(p) \/ Launch(p) \/ Network(p) \/ ScriptBegins(p)
             \/ ScriptEnds(p) \/ Stop(p) \/ Publish(p) \/ Clean(p) \/ CleanFails(p) \/ Fails(p)
             \/ Undo(p) \/ Find(p) \/ Drop(p) \/ Point(p) \/ PointFails(p)
             \/ Load(p) \/ Write(p) \/ Kill(p) \/ List(p) \/ Prune(p)
      PROVE  ImagesInv'
  BY <1>1, BeginKeeps, CheckKeeps, LaunchKeeps, ScriptKeeps, PublishKeeps, CleanKeeps,
     AliasKeeps, LoadKeeps, WriteKeeps, KillKeeps, ListKeeps, PruneKeeps
<1>2. CASE Delete
  BY <1>2, DeleteKeeps
<1>3. CASE UNCHANGED vars
  <2>1. UNCHANGED <<imgs, main, box, meta, now, proc, waived>>
    BY <1>3 DEF vars
  <2>2. Typed' /\ VersionInv' /\ AliasInv' /\ LateInv' /\ PointInv' /\ BoxInv' /\ SoloInv'
    BY <2>1 DEF ImagesInv, Typed, VersionInv, AliasInv, LateInv, PointInv, BoxInv, SoloInv, But,
       Builds, RanAt
  <2>3. NewestInv' /\ PruneInv' /\ MetaInv' /\ ChildInv' /\ StaleTold'
    BY <2>1 DEF ImagesInv, NewestInv, PruneInv, MetaInv, ChildInv, StaleTold, But, Within,
       Builds, Reported
  <2> QED  BY <2>2, <2>3 DEF ImagesInv
<1> QED  BY <1>1, <1>2, <1>3 DEF Next

LEMMA ImagesAlways == Spec => []ImagesInv
  BY ImagesInit, ImagesStep, PTL DEF Spec

\* createImage and updateAlias: what an alias names is there, has the alias's
\* name, and comes from one whole run of that name's script on its own base,
\* unless a build worked in the container of another.
THEOREM AliasAlwaysWhole == Spec => []AliasWhole
<1>1. ImagesInv => AliasWhole
  BY DEF ImagesInv, AliasInv, VersionInv, AliasWhole, There
<1> QED  BY <1>1, ImagesAlways, PTL

\* updateAlias and coi image cleanup: the alias of a name that was ever built
\* is missing only while it is moved, unless builds overlapped, one ended
\* after its publication, or the user deleted the image.
THEOREM ImageStaysUsable == Spec => []StaysUsable
<1>1. ImagesInv => StaysUsable
  BY DEF ImagesInv, NewestInv, StaysUsable, Within, Moving, Late, Excuses
<1> QED  BY <1>1, ImagesAlways, PTL

\* RecordBuild and CheckStaleBase: the times in image-meta.json tell whether the
\* child was built on the base that its alias names now.
THEOREM StaleAlwaysTold == Spec => []StaleTold
<1>1. ImagesInv => StaleTold
  BY DEF ImagesInv
<1> QED  BY <1>1, ImagesAlways, PTL

=============================================================================
