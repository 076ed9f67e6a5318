--------------------------------- MODULE Ports ---------------------------------
(***************************************************************************)
(* The host ports a session publishes (session/ports.go, called from       *)
(* session/setup.go and cli/phases_run.go): the devices of an earlier      *)
(* session are removed, every port is looked for among the free ones of    *)
(* the host, and each is published and announced to the session.  Two      *)
(* workspaces whose blocks of ports coincide; another shell may enter a    *)
(* container that runs, and other processes of the host take ports.        *)
(***************************************************************************)
EXTENDS Naturals, Sequences, FiniteSets

CONSTANTS Shells, Boxes,
          Numbers,        \* the ports of a slot, in order
          Wishes,       \* what a configuration may ask for
          MaxLaunches,
          MaxChanges    \* failing calls, and changes of the world

VARIABLES box,     \* the containers
          shell,   \* the commands
          taken,   \* ports of other processes
          wish,    \* container -> the [ports] of its workspace
          launches, changes

rvars == <<box, shell, taken, wish, launches, changes>>

\* A wish: ports of the pool, one entry without and one with a port of its own
\* (0: none).  A device: its name and the port it listens on.
Wish == [pool : 0..1, auto : BOOLEAN, pin : Nat]
ASSUME PortsAssumption == Numbers \in Seq(Nat) /\ Wishes \subseteq Wish

NoBox == [st |-> "none", devs |-> {}]
\* env: what was announced; stuck: devices that could not be removed; missed:
\* a port was not published; shaken: something changed that the numbers depend
\* on; outdated: another command looked for the ports of the container after
\* that, or took them off and ended before it could publish them.
NoShell == [pc |-> "idle", b |-> "none", way |-> "none", plan |-> <<>>, env |-> {},
            stuck |-> {}, missed |-> FALSE, shaken |-> FALSE, outdated |-> FALSE]

RInit ==
  /\ box = [b \in Boxes |-> NoBox]
  /\ shell = [p \in Shells |-> NoShell]
  /\ taken = {} /\ wish \in [Boxes -> Wishes]
  /\ launches = 0 /\ changes = 0

Hosts(devs) == {d.host : d \in devs}
Held(b) == IF box[b].st = "running" THEN Hosts(box[b].devs) ELSE {}
Bound == taken \cup UNION {Held(b) : b \in Boxes}

-----------------------------------------------------------------------------
Is(p, pc) == shell[p].pc = pc /\ UNCHANGED <<taken, wish, launches>>
Fair == UNCHANGED changes
Change == changes < MaxChanges /\ changes' = changes + 1
Put(p, r) == shell' = [shell EXCEPT ![p] = r]
Shake(r, bs) == [q \in Shells |-> [r[q] EXCEPT !.shaken = @ \/ r[q].b \in bs]]
Outdate(r, b) == [q \in Shells |-> [r[q] EXCEPT !.outdated = @ \/ (r[q].b = b /\ r[q].shaken)]]

InSetup(b) == \E q \in Shells : shell[q].b = b /\ shell[q].pc \notin {"idle", "on"}

\* A shell enters a container that runs.  A run leaves it alone, and is refused
\* by it later, unless it could not be told whether the container runs.
Come(p) ==
  /\ shell[p].pc = "idle" /\ launches < MaxLaunches /\ launches' = launches + 1
  /\ UNCHANGED <<box, taken, wish>>
  /\ \E b \in Boxes, way \in {"shell", "run"} :
       /\ ~InSetup(b) /\ (IF way = "run" /\ box[b].st = "running" THEN Change ELSE Fair)
       /\ Put(p, [NoShell EXCEPT !.b = b, !.way = way,
                                 !.pc = IF box[b].st = "none" THEN "resolve" ELSE "strip"])

\* As if only a container that is stopped were stripped, as cli/phases_run.go does.
StrippedAtRest(b, stuck) == IF box[b].st = "running" THEN box[b].devs ELSE box[b].devs \cap stuck
\* RemoveStalePortDevices: what cannot be listed or removed stays.
Remaining(b, stuck) == box[b].devs \cap stuck

\* A shell starts a container that is stopped before it looks for ports.
StripsPorts(p, stuck) ==
  LET b == shell[p].b
      given == IF box[b].st = "running" /\ Remaining(b, stuck) # box[b].devs THEN Boxes \ {b} ELSE {}
      failed == IF stuck = {} THEN {} ELSE {b}
      r == [shell[p] EXCEPT !.stuck = stuck,
              !.pc = IF box[b].st = "stopped" /\ shell[p].way = "shell" THEN "start" ELSE "resolve"]
  IN /\ Is(p, "strip")
     /\ box' = [box EXCEPT ![b].devs = Remaining(b, stuck)]
     /\ shell' = Shake([shell EXCEPT ![p] = r], given \cup failed)
StripAll(p) == StripsPorts(p, {}) /\ Fair
StripSome(p) == /\ shell[p].pc = "strip" /\ Change
                /\ \E d \in box[shell[p].b].devs : StripsPorts(p, {d}) \/ StripsPorts(p, box[shell[p].b].devs)

-----------------------------------------------------------------------------
(* ResolvePorts: the pool first, then the entries, over the free ports.     *)

FreeIn(i, bound) == {j \in i..Len(Numbers) : Numbers[j] \notin bound}
First(S) == CHOOSE j \in S : \A k \in S : j <= k

\* The indices for the pool and for the entry without a port; 0 if there is none.
PoolAt(w, bound) == IF w.pool = 0 \/ FreeIn(1, bound) = {} THEN 0 ELSE First(FreeIn(1, bound))
AutoAt(w, bound) ==
  LET free == FreeIn(PoolAt(w, bound) + 1, bound) IN IF ~w.auto \/ free = {} THEN 0 ELSE First(free)

Possible(w, bound) == /\ w.pool = 1 => PoolAt(w, bound) # 0
                      /\ w.auto => AutoAt(w, bound) # 0
                      /\ w.pin # 0 => w.pin \notin bound
PlanOf(w, bound) ==
  (IF w.pool = 1 THEN <<[name |-> "pool", host |-> Numbers[PoolAt(w, bound)]]>> ELSE <<>>)
  \o (IF w.auto THEN <<[name |-> "auto", host |-> Numbers[AutoAt(w, bound)]]>> ELSE <<>>)
  \o (IF w.pin # 0 THEN <<[name |-> "pin", host |-> w.pin]>> ELSE <<>>)

\* A run starts its container, and looks once more whether it runs.
Ready(p) == IF box[shell[p].b].st = "running" THEN "publish" ELSE "start"
Resolve(p) ==
  LET w == wish[shell[p].b] IN
  /\ Is(p, "resolve") /\ Possible(w, Bound) /\ UNCHANGED box
  /\ IF shell[p].way = "run" /\ box[shell[p].b].st = "running" THEN Change ELSE Fair
  /\ Put(p, [shell[p] EXCEPT !.plan = PlanOf(w, Bound), !.pc = Ready(p)])

\* The command ends; what it removed from a container that runs is gone.
BreaksOff(p) ==
  LET b == shell[p].b IN
  /\ UNCHANGED <<box, taken, wish, launches>>
  /\ shell' = Outdate(Shake([shell EXCEPT ![p] = NoShell], {b}), b)
Refuse(p) == /\ shell[p].pc = "resolve" /\ BreaksOff(p) /\ Fair
             /\ ~Possible(wish[shell[p].b], Bound)
                \/ (shell[p].way = "run" /\ box[shell[p].b].st = "running")
\* A step between looking for the ports and publishing them fails, such as
\* WaitForReady, or the command is killed.
Dies(p) == shell[p].pc \in {"resolve", "start", "publish"} /\ BreaksOff(p) /\ Change

\* A device whose port is taken keeps the container from starting.
CanStart(b) == Hosts(box[b].devs) \cap Bound = {}
StartBox(p) ==
  LET b == shell[p].b IN
  /\ Is(p, "start") /\ CanStart(b) /\ Fair
  /\ box' = [box EXCEPT ![b].st = "running"]
  /\ shell' = Shake([shell EXCEPT ![p].pc = IF box[b].st = "none" \/ shell[p].way = "run"
                                            THEN "publish" ELSE "resolve"],
                    IF box[b].devs = {} THEN {} ELSE Boxes \ {b})
StartBoxFails(p) == Is(p, "start") /\ ~CanStart(shell[p].b) /\ Fair /\ Put(p, NoShell) /\ UNCHANGED box

-----------------------------------------------------------------------------
(* PublishResolvedPorts: a port that cannot be published is not announced.  *)

\* As if the plan were announced, whatever became of it.
AsPlanned(p, done) == shell[p].env \cup {Head(shell[p].plan)}
Announced(p, done) == shell[p].env \cup (IF done THEN {Head(shell[p].plan)} ELSE {})

Publishes(p, done) ==
  LET b == shell[p].b
      d == Head(shell[p].plan)
      r == [shell[p] EXCEPT !.plan = Tail(@), !.env = Announced(p, done), !.missed = @ \/ ~done]
  IN /\ Is(p, "publish")
     /\ box' = [box EXCEPT ![b].devs = IF done THEN @ \cup {d} ELSE @]
     /\ shell' = [Shake(shell, IF done THEN Boxes \ {b} ELSE {b}) EXCEPT ![p] = r]
Addable(p) == /\ \A d \in box[shell[p].b].devs : d.name # Head(shell[p].plan).name
              /\ Head(shell[p].plan).host \notin Bound
Publish(p) == shell[p].plan # <<>> /\ Publishes(p, Addable(p)) /\ Fair
PublishFails(p) == shell[p].plan # <<>> /\ Publishes(p, FALSE) /\ Change
Attach(p) == /\ Is(p, "publish") /\ shell[p].plan = <<>> /\ Fair /\ UNCHANGED box
             /\ shell' = [Outdate(shell, shell[p].b) EXCEPT ![p] = [shell[p] EXCEPT !.pc = "on"]]

-----------------------------------------------------------------------------
(* The end of a session, and the world.                                     *)

\* The container is stopped or deleted, and all in it end.
Ends(b) ==
  \E after \in {"stopped", "none"} :
    /\ box' = [box EXCEPT ![b] = IF after = "none" THEN NoBox ELSE [@ EXCEPT !.st = after]]
    /\ shell' = Shake([q \in Shells |-> IF shell[q].b = b THEN NoShell ELSE shell[q]], Boxes)

\* The container goes on when a shell is only left.
Leave(p) ==
  LET b == shell[p].b IN
  /\ Is(p, "on") /\ Fair /\ ~InSetup(b)
  /\ Ends(b) \/ (UNCHANGED box /\ Put(p, NoShell))
\* A run whose container came up cleans up when a later step fails.
CleansUp(p) == Is(p, "publish") /\ shell[p].way = "run" /\ Change /\ Ends(shell[p].b)

\* coi container start, with the devices that are there.
StartByHand(b) == /\ box[b].st = "stopped" /\ ~InSetup(b) /\ CanStart(b) /\ Change
                  /\ box' = [box EXCEPT ![b].st = "running"]
                  /\ shell' = Shake(shell, Boxes) /\ UNCHANGED <<taken, wish, launches>>
Grab(n) == /\ n \notin Bound /\ Change /\ taken' = taken \cup {n}
           /\ shell' = Shake(shell, Boxes) /\ UNCHANGED <<box, wish, launches>>
Release(n) == /\ n \in taken /\ Change /\ taken' = taken \ {n}
              /\ shell' = Shake(shell, Boxes) /\ UNCHANGED <<box, wish, launches>>
\* The configuration, or the trust in it, changes.
Configure(b) == /\ Change /\ \E w \in Wishes \ {wish[b]} : wish' = [wish EXCEPT ![b] = w]
                /\ shell' = Shake(shell, {b}) /\ UNCHANGED <<box, taken, launches>>

RNext == \/ \E p \in Shells : \/ Come(p) \/ StripAll(p) \/ StripSome(p) \/ Resolve(p) \/ Refuse(p)
                              \/ Dies(p) \/ CleansUp(p) \/ StartBox(p) \/ StartBoxFails(p)
                              \/ Publish(p) \/ PublishFails(p) \/ Attach(p) \/ Leave(p)
         \/ \E b \in Boxes : StartByHand(b) \/ Configure(b)
         \/ \E n \in {Numbers[i] : i \in DOMAIN Numbers} : Grab(n) \/ Release(n)

RSpec == RInit /\ [][RNext]_rvars

-----------------------------------------------------------------------------
(* What a session was told about its ports is what its container publishes, *)
(* no less and no more (but for a device that could not be removed, or one  *)
(* a later session published where this one had to do without), for as long *)
(* as it is on.  It stays true when another shell enters the container,     *)
(* whose devices it removes and publishes anew, unless a port was taken or  *)
(* given up, the configuration changed or a call failed before that, or the *)
(* other shell ended between the two: then nobody publishes them again      *)
(* (PublishResolvedPorts: env and context stay truthful).                   *)
Truthful ==
  \A p \in Shells :
    shell[p].pc = "on" /\ ~shell[p].outdated /\ ~InSetup(shell[p].b) =>
      /\ shell[p].env \subseteq box[shell[p].b].devs
      /\ ~shell[p].missed => box[shell[p].b].devs \subseteq shell[p].env \cup shell[p].stuck

=============================================================================
