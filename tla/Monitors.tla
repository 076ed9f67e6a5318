------------------------------- MODULE Monitors -------------------------------
(***************************************************************************)
(* The watchers of one session and its end: the monitoring daemon and the  *)
(* nft daemon (internal/monitor, internal/nftmonitor), each with a         *)
(* Responder of its own that pauses or kills the container; the runtime    *)
(* limit (internal/limits/timer.go); coi unfreeze; and the teardown that   *)
(* stops them while they are at work.                                      *)
(*                                                                         *)
(* They run concurrently and share nothing but the container, the firewall *)
(* rules of its address and the context the teardown cancels.              *)
(***************************************************************************)
EXTENDS Naturals, FiniteSets

CONSTANTS
  Confs,    \* the configurations: the command, persistent, max_duration set,
            \* stop_graceful, whether the monitoring daemon pauses and kills;
            \* and a bound: the threats the watchers find
  Levels,   \* the levels of the threats the watchers find
  Troubles  \* what may go wrong: "audit", "incus", "address"

Daemons == {"mon", "nft"}

ASSUME MonitorsAssumption ==
  /\ Confs \subseteq [mode: {"shell", "run"}, keep: BOOLEAN, limited: BOOLEAN,
                      graceful: BOOLEAN, reacts: BOOLEAN, threats: Nat]
  /\ Levels \subseteq {"warning", "high", "critical"}
  /\ Troubles \subseteq {"audit", "incus", "address"}

VARIABLES
  conf,     \* the configuration of the session
  trouble,  \* bound: the one kind of trouble this behaviour has met
  box,      \* the container, as Incus has it
  fenced,   \* the firewall rules of its address are there
  logged,   \* and so are the LOG rules of the nft daemon
  inbox,    \* the threats waiting for each daemon; the channel holds one
  given,    \* bound: threats found so far
  daemon,   \* each daemon: what it is doing, and its Responder
  cancelled,\* the contexts that are cancelled
  timer,    \* the TimeoutMonitor
  user,     \* coi unfreeze
  life,     \* the session
  stops     \* daemons whose Stop has not returned

vars == <<conf, trouble, box, fenced, logged, inbox, given, daemon, cancelled,
          timer, user, life, stops>>

\* ip: the address of the container is known; seen: the threats of recentThreats that are younger than dedupeWindow.
Idle == [pc |-> "wait", threat |-> "none", ip |-> FALSE,
         paused |-> FALSE, killed |-> FALSE, seen |-> {}]

Init ==
  /\ conf \in Confs
  /\ trouble = "none"
  /\ box = "running"
  /\ fenced = TRUE /\ logged = TRUE
  /\ inbox = [d \in Daemons |-> {}]
  /\ given = 0
  /\ daemon = [d \in Daemons |-> Idle]
  /\ cancelled = {}
  /\ timer = (IF conf.limited THEN "armed" ELSE "off")
  /\ user = "none"
  /\ life = "up"
  /\ stops = {}

\* Bound: a behaviour meets one kind of trouble.
Trouble(kind) == kind \in Troubles /\ trouble \in {"none", kind} /\ trouble' = kind
NoTrouble == UNCHANGED trouble

Alive == box \in {"running", "frozen"}

-----------------------------------------------------------------------------
(* The daemons *)

At(d, pc) == daemon[d].pc = pc
Goto(d, pc) == daemon' = [daemon EXCEPT ![d].pc = pc]

\* A daemon returns to its loop.
Back(d, changed) ==
  daemon' = [daemon EXCEPT ![d] = [changed EXCEPT !.pc = "wait", !.threat = "none",
                                                  !.ip = FALSE]]

\* AutoPauseOnHigh and AutoKillOnCritical: the nft daemon has them always.
Reacts(d) == d = "nft" \/ conf.reacts

\* The goroutines end with the process.
Rest == life # "over" /\ UNCHANGED <<conf, user, life, stops, timer, cancelled>>

\* A watcher finds a threat; with a full channel it is dropped.
Detect(d, level) ==
  /\ box = "running" /\ d \notin cancelled /\ given < conf.threats
  /\ given' = given + 1
  /\ inbox' = [inbox EXCEPT ![d] = IF @ = {} THEN {level} ELSE @]
  /\ UNCHANGED <<trouble, box, fenced, logged, daemon>> /\ Rest

\* The loops of Daemon.run and processEvents.  With the context cancelled and
\* a threat waiting, select takes either.
Leave(d) ==
  /\ At(d, "wait") /\ d \in cancelled
  /\ Goto(d, "off")
  /\ UNCHANGED <<trouble, box, fenced, logged, inbox, given>> /\ Rest

\* Handle up to the audit log: nothing after a kill; a threat seen within the
\* window is only logged; any other is remembered before it is acted upon.
Take(d) ==
  /\ At(d, "wait")
  /\ \E level \in inbox[d] :
       IF daemon[d].killed
         THEN UNCHANGED daemon
         ELSE daemon' = [daemon EXCEPT ![d].pc =
                           IF level \in daemon[d].seen THEN "duplicate" ELSE "audit",
                           ![d].threat = level, ![d].seen = @ \union {level}]
  /\ inbox' = [inbox EXCEPT ![d] = {}]
  /\ UNCHANGED <<trouble, box, fenced, logged, given>> /\ Rest

\* dedupeWindow passes.
Forget(d) ==
  /\ At(d, "wait") /\ daemon[d].seen # {}
  /\ daemon' = [daemon EXCEPT ![d].seen = {}]
  /\ UNCHANGED <<trouble, box, fenced, logged, inbox, given>> /\ Rest

\* Mutant: an alreadyPaused container is left as it is.
ReactionUnlessPaused(d) ==
  LET r == daemon[d] IN
  IF ~Reacts(d) \/ r.pc = "duplicate" \/ r.paused \/ r.threat = "warning" THEN "wait"
  ELSE IF r.threat = "high" THEN "pause" ELSE "kill"

\* What is done about the threat once it is logged.
Reaction(d) ==
  LET r == daemon[d] IN
  IF ~Reacts(d) \/ r.pc = "duplicate" THEN "wait"
  ELSE IF r.threat = "high" /\ ~r.paused THEN "pause"
  ELSE IF r.threat = "critical" THEN "kill" ELSE "wait"

React(d) ==
  IF Reaction(d) = "wait" THEN Back(d, daemon[d])
  ELSE daemon' = [daemon EXCEPT ![d].pc = Reaction(d)]

\* logThreat.  When the log cannot be written Handle returns: no reaction.
Audit(d) ==
  /\ At(d, "audit") \/ At(d, "duplicate")
  /\ \/ React(d) /\ NoTrouble
     \/ Back(d, daemon[d]) /\ Trouble("audit")
  /\ UNCHANGED <<box, fenced, logged, inbox, given>> /\ Rest

\* A command cannot be started under a cancelled context; one in flight when
\* the context is cancelled is killed, and Incus may have obeyed it or not.
Start(d, command, knowing) ==
  IF d \in cancelled THEN Back(d, knowing)
  ELSE daemon' = [daemon EXCEPT ![d] = [knowing EXCEPT !.pc = command]]

\* Mutant: the container counts as paused when the command has been sent.
PauseAtOnce(d) ==
  /\ At(d, "pause")
  /\ daemon' = [daemon EXCEPT ![d].pc = "pausing", ![d].paused = TRUE]
  /\ UNCHANGED <<trouble, box, fenced, logged, inbox, given>> /\ Rest

PauseSend(d) ==
  /\ At(d, "pause")
  /\ Start(d, "pausing", daemon[d])
  /\ UNCHANGED <<trouble, box, fenced, logged, inbox, given>> /\ Rest

\* pauseContainer: "already frozen" is as good; a stopped container cannot be
\* paused.
PauseAnswer(d) ==
  /\ At(d, "pausing")
  /\ \/ /\ Alive
        /\ box' = "frozen"
        /\ Back(d, [daemon[d] EXCEPT !.paused = TRUE])
        /\ NoTrouble
     \/ ~Alive /\ Back(d, daemon[d]) /\ UNCHANGED box /\ NoTrouble
     \/ /\ IF d \in cancelled THEN NoTrouble ELSE Trouble("incus")
        /\ Back(d, daemon[d])
        /\ box' \in {box} \union (IF Alive /\ d \in cancelled THEN {"frozen"} ELSE {})
  /\ UNCHANGED <<fenced, logged, inbox, given>> /\ Rest

\* killContainer asks for the address, then sends stop --force; a failure to
\* learn the address is passed over, and then no rule is removed.
KillSend(d) ==
  /\ At(d, "kill")
  /\ \/ Start(d, "stopping", [daemon[d] EXCEPT !.ip = Alive]) /\ NoTrouble
     \/ Trouble("address") /\ Start(d, "stopping", daemon[d])
  /\ UNCHANGED <<box, fenced, logged, inbox, given>> /\ Rest

\* Mutant: the rules are removed although the container did not stop.
StopAnswerIgnored(d) ==
  /\ At(d, "stopping")
  /\ \/ Alive /\ box' = "stopped" /\ NoTrouble
     \/ UNCHANGED box /\ (IF ~Alive \/ d \in cancelled THEN NoTrouble ELSE Trouble("incus"))
  /\ Goto(d, "rules")
  /\ UNCHANGED <<fenced, logged, inbox, given>> /\ Rest

\* stop --force.  An error ends the kill: a container that is stopped already
\* is one, too.
StopAnswer(d) ==
  /\ At(d, "stopping")
  /\ \/ /\ Alive
        /\ box' = "stopped"
        /\ Goto(d, "rules")
        /\ NoTrouble
     \/ ~Alive /\ Back(d, daemon[d]) /\ UNCHANGED box /\ NoTrouble
     \/ /\ IF d \in cancelled THEN NoTrouble ELSE Trouble("incus")
        /\ Back(d, daemon[d])
        /\ box' \in {box} \union (IF Alive /\ d \in cancelled THEN {"stopped"} ELSE {})
  /\ UNCHANGED <<fenced, logged, inbox, given>> /\ Rest

\* cleanupNftRules and cleanupNFTRules, then the delete is sent: the rules go
\* while the container is stopped and not yet deleted.
KillRules(d) ==
  /\ At(d, "rules")
  /\ fenced' = (fenced /\ ~daemon[d].ip) /\ logged' = (logged /\ ~daemon[d].ip)
  /\ Start(d, "deleting", daemon[d])
  /\ UNCHANGED <<trouble, box, inbox, given>> /\ Rest

\* incus delete, without --force: it fails when the container runs (again).
DeleteAnswer(d) ==
  /\ At(d, "deleting")
  /\ \/ /\ box = "stopped"
        /\ box' = "gone"
        /\ Back(d, [daemon[d] EXCEPT !.killed = TRUE])
        /\ NoTrouble
     \/ box # "stopped" /\ Back(d, daemon[d]) /\ UNCHANGED box /\ NoTrouble
     \/ /\ IF d \in cancelled THEN NoTrouble ELSE Trouble("incus")
        /\ Back(d, daemon[d])
        /\ box' \in {box} \union (IF box = "stopped" /\ d \in cancelled THEN {"gone"} ELSE {})
  /\ UNCHANGED <<fenced, logged, inbox, given>> /\ Rest

DaemonStep(d) ==
  \/ Leave(d) \/ Take(d) \/ Audit(d)
  \/ PauseSend(d) \/ PauseAnswer(d)
  \/ KillSend(d) \/ StopAnswer(d) \/ KillRules(d) \/ DeleteAnswer(d)

-----------------------------------------------------------------------------
(* The runtime limit: TimeoutMonitor.  Its commands have a context of their *)
(* own; "incus" is an Incus that answers nothing.                           *)

TimerRest ==
  /\ life # "over"
  /\ UNCHANGED <<conf, fenced, logged, inbox, given, daemon, cancelled, user, life, stops>>
TimerTo(pc) == timer' = pc /\ TimerRest

TimerFires ==
  /\ timer = "armed"
  /\ TimerTo(IF conf.graceful THEN "ask" ELSE "force")
  /\ UNCHANGED <<box, trouble>>

\* Mutant: the monitor waits for its timer only.
TimerDeaf == FALSE /\ UNCHANGED vars

TimerCancelled ==
  /\ timer = "armed" /\ "timer" \in cancelled
  /\ TimerTo("off")
  /\ UNCHANGED <<box, trouble>>

\* incus stop, of a guest that can still shut down.
AskStop ==
  /\ timer = "ask"
  /\ \/ box = "running" /\ box' = "stopped" /\ TimerTo("verify") /\ NoTrouble
     \/ box # "running" /\ TimerTo("insist") /\ UNCHANGED <<box, trouble>>
     \/ Trouble("incus") /\ TimerTo("insist") /\ UNCHANGED box

\* stop --force, and what follows it.
ForceStop(at, ok, failed) ==
  /\ timer = at
  /\ \/ Alive /\ box' = "stopped" /\ TimerTo(ok) /\ NoTrouble
     \/ ~Alive /\ TimerTo(failed) /\ UNCHANGED <<box, trouble>>
     \/ Trouble("incus") /\ TimerTo(failed) /\ UNCHANGED box

\* Mutant: a graceful stop that failed is left to the verification.
NoInsist == timer = "insist" /\ TimerTo("verify") /\ UNCHANGED <<box, trouble>>

Insist == ForceStop("insist", "verify", "verify")

\* Five seconds later: force again when it runs, or when that is not known.
\* A frozen container is not "Running".
Verify ==
  /\ timer = "verify"
  /\ \/ TimerTo(IF box = "running" THEN "again" ELSE "check") /\ NoTrouble
     \/ Trouble("incus") /\ TimerTo("again")
  /\ UNCHANGED box

ForceAgain == ForceStop("again", "check", "check")

\* StopGraceful = false: an error is the end of it.
ForceAtOnce == ForceStop("force", "check", "failed")

\* The log claims the stop unless the container is known to run.
Check ==
  /\ timer = "check"
  /\ \/ TimerTo(IF box = "running" THEN "failed" ELSE "claimed") /\ NoTrouble
     \/ Trouble("incus") /\ TimerTo("claimed")
  /\ UNCHANGED box

TimerStep == \/ TimerCancelled \/ AskStop \/ Insist \/ Verify
             \/ ForceAgain \/ ForceAtOnce \/ Check
TimerOver == timer \in {"off", "failed", "claimed"}

-----------------------------------------------------------------------------
(* The user, outside the session, and the guest *)

UserRest == UNCHANGED <<conf, trouble, fenced, logged, inbox, given, daemon, cancelled,
                        timer, life, stops>>

\* unfreezeContainer: the state is read first, then the container is started,
\* whatever has become of it.
UnfreezeLook ==
  /\ user = "none" /\ box = "frozen"
  /\ user' = "seen" /\ UNCHANGED box /\ UserRest

UnfreezeStart ==
  /\ user = "seen"
  /\ \/ box = "frozen" /\ box' = "running" /\ user' = "unfrozen"
     \/ box = "stopped" /\ box' = "running" /\ user' = "revived"
     \/ box \in {"running", "gone"} /\ UNCHANGED box /\ user' = "done"
  /\ UserRest

PowerOff ==
  /\ box = "running" /\ life = "up"
  /\ box' = "stopped"
  /\ UNCHANGED user /\ UserRest

-----------------------------------------------------------------------------
(* The end of the session: the teardowns of its phases, last phase first *)

LifeRest == UNCHANGED <<conf, inbox, given, daemon, timer, user>>
LifeTo(step) == life' = step /\ LifeRest

\* The steps of the two commands, in the order of their teardowns.
After(step) ==
  CASE step = "up"       -> IF conf.mode = "shell" THEN "monitors" ELSE "timer"
    [] step = "monitors" -> IF conf.mode = "shell" THEN "timer" ELSE "network"
    [] step = "timer"    -> IF conf.mode = "shell" THEN "look" ELSE "monitors"
    [] step = "network"  -> "remove"

\* What reaching a step does at once: it cancels, before it waits.
Cancels(step) ==
  CASE step = "monitors" -> Daemons [] step = "timer" -> {"timer"} [] OTHER -> {}

Proceed(alsoCancelled) ==
  /\ LifeTo(After(life))
  /\ cancelled' = cancelled \union Cancels(After(life)) \union alsoCancelled
  /\ stops' = IF After(life) = "monitors" THEN Daemons ELSE stops
  /\ UNCHANGED <<box, logged>>

\* The tool or the command ends, whatever the reason; a signal cancels every
\* context at once.
SessionEnds ==
  /\ life = "up"
  /\ \E all \in {{}, Daemons \union {"timer"}} : Proceed(all)
  /\ UNCHANGED <<fenced, trouble>>

\* Daemon.Stop of the monitoring daemon gives up after five seconds.
MonStopped ==
  /\ life = "monitors" /\ "mon" \in stops
  /\ stops' = stops \ {"mon"}
  /\ LifeTo(life) /\ UNCHANGED <<box, cancelled, fenced, logged, trouble>>

\* That of the nft daemon waits for both goroutines, then removes its rules.
NFTStopped ==
  /\ life = "monitors" /\ "nft" \in stops /\ At("nft", "off")
  /\ stops' = stops \ {"nft"}
  /\ logged' = FALSE
  /\ LifeTo(life) /\ UNCHANGED <<box, cancelled, fenced, trouble>>

\* Both Stops run concurrently; the teardown waits for both.
MonitorsStopped ==
  /\ life = "monitors" /\ stops = {}
  /\ Proceed({}) /\ UNCHANGED <<fenced, trouble>>

\* TimeoutMonitor.Stop waits for the handler, however long.
TimerStopped ==
  /\ life = "timer" /\ TimerOver
  /\ Proceed({}) /\ UNCHANGED <<fenced, trouble>>

LifeStep(at, to) ==
  /\ life = at /\ LifeTo(to)
  /\ UNCHANGED <<cancelled, stops, logged>>

\* Cleanup: a container that is gone leaves its rules to be removed; a running
\* one is kept with its rules; one that is not is removed unless persistent.
\* When Incus does not say whether it exists, it counts as gone; when it does
\* not say whether it runs, nothing is done.
Look ==
  /\ \/ LifeStep("look", CASE box = "gone" -> "rules-only"
                           [] box = "running" -> "over"
                           [] OTHER -> IF conf.keep THEN "over" ELSE "network")
        /\ NoTrouble
     \/ Trouble("incus") /\ \/ LifeStep("look", "over")
                            \/ LifeStep("look", "rules-only")
  /\ UNCHANGED <<box, fenced>>

RulesOnly ==
  /\ LifeStep("rules-only", "over")
  /\ fenced' = FALSE
  /\ UNCHANGED <<box, trouble>>

\* The network teardown comes before the removal in both commands.
TeardownNetwork ==
  /\ LifeStep("network", "remove")
  /\ fenced' = FALSE
  /\ UNCHANGED <<box, trouble>>

\* Delete(true); coi run only stops a persistent container, if it runs.
Remove ==
  /\ LifeStep("remove", "over")
  /\ \/ box' = (CASE conf.mode = "shell" \/ ~conf.keep -> "gone"
                 [] box = "running" -> "stopped"
                 [] OTHER -> box)
        /\ NoTrouble
     \/ Trouble("incus") /\ UNCHANGED box
  /\ UNCHANGED fenced

TeardownStep == \/ MonStopped \/ NFTStopped \/ MonitorsStopped \/ TimerStopped
                \/ Look \/ RulesOnly \/ TeardownNetwork \/ Remove

-----------------------------------------------------------------------------

Next ==
  \/ \E d \in Daemons : \/ \E level \in Levels : Detect(d, level)
                        \/ DaemonStep(d) \/ Forget(d)
  \/ TimerFires \/ TimerStep
  \/ UnfreezeLook \/ UnfreezeStart \/ PowerOff
  \/ SessionEnds \/ TeardownStep

\* The goroutines and commands go on; nobody promises a threat, the passing
\* of the limit or the end of a session.
Fairness ==
  /\ \A d \in Daemons : WF_vars(DaemonStep(d))
  /\ WF_vars(TimerStep)
  /\ WF_vars(TeardownStep)

Spec == Init /\ [][Next]_vars
FairSpec == Spec /\ Fairness

-----------------------------------------------------------------------------
(* Properties *)

TypeOK ==
  /\ conf \in Confs
  /\ trouble \in {"none", "audit", "incus", "address"}
  /\ box \in {"running", "frozen", "stopped", "gone"}
  /\ fenced \in BOOLEAN /\ logged \in BOOLEAN
  /\ inbox \in [Daemons -> SUBSET Levels]
  /\ \A d \in Daemons : Cardinality(inbox[d]) <= 1
  /\ given \in 0..conf.threats
  /\ daemon \in [Daemons ->
       [pc: {"wait", "audit", "duplicate", "pause", "pausing", "kill",
             "stopping", "rules", "deleting", "off"},
        threat: Levels \union {"none"}, ip: BOOLEAN,
        paused: BOOLEAN, killed: BOOLEAN, seen: SUBSET Levels]]
  /\ cancelled \subseteq Daemons \union {"timer"}
  /\ timer \in {"armed", "ask", "insist", "verify", "again", "force", "check",
                "off", "failed", "claimed"}
  /\ user \in {"none", "seen", "unfrozen", "revived", "done"}
  /\ life \in {"up", "monitors", "timer", "look", "network", "rules-only",
               "remove", "over"}
  /\ stops \subseteq Daemons

\* Up to the network teardown a container that runs has its firewall rules:
\* killContainer removes them, but only of a container that it has stopped,
\* whatever the other daemon, the runtime limit and the teardown do meanwhile.
\* Out of it is coi unfreeze starting a container that was killed since it
\* looked.
RunningIsFenced ==
  box = "running" /\ user # "revived" /\ life \notin {"remove", "over"} => fenced

\* What a responder believes it paused does not run until somebody unfreezes
\* it, nor does what it believes it killed exist: it takes no further threat
\* seriously.
BeliefsHold ==
  \A d \in Daemons :
    /\ daemon[d].paused /\ user \notin {"unfrozen", "revived"} => box # "running"
    /\ daemon[d].killed => box = "gone"

\* A CRITICAL threat that is taken up is the end of the container, also of a
\* frozen one, one the other daemon is about to kill or the user unfreezes.
CriticalKills ==
  \A d \in Daemons :
    (At(d, "audit") /\ daemon[d].threat = "critical" /\ Reacts(d))
      ~> (box \in {"stopped", "gone"} \/ trouble # "none" \/ cancelled # {})

\* The limit, once it has passed, ends the container: a stop that the guest
\* does not obey is forced, also when the container is frozen.
LimitEnforced ==
  (timer \in {"ask", "force"})
    ~> (box \in {"stopped", "gone"} \/ trouble # "none")

\* A session that began to end ends: the teardown waits for the nft daemon
\* and for the runtime limit's handler, without a deadline.
TeardownEnds == (life # "up") ~> (life = "over")
=============================================================================
