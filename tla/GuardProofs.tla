----------------------------- MODULE GuardProofs -----------------------------
(***************************************************************************)
(* What guards a running session.  The monitors: RunningIsFenced and       *)
(* BeliefsHold for every configuration, any number of threats and every    *)
(* combination of troubles.  The allowlist's names: what the hosts file    *)
(* and the firewall say of them, for any names and addresses.  Egress: what *)
(* the chains let through, for every network configuration, any host       *)
(* entries and callers of coi hosts, and whatever nft call fails.          *)
(***************************************************************************)
EXTENDS Monitors, NameSync, Egress, PickingProofs

-----------------------------------------------------------------------------
(* The monitors.                                                            *)

Boxes == {"running", "frozen", "stopped", "gone"}
Record == [pc: {"wait", "audit", "duplicate", "pause", "pausing", "kill",
                "stopping", "rules", "deleting", "off"},
           threat: Levels \union {"none"}, ip: BOOLEAN,
           paused: BOOLEAN, killed: BOOLEAN, seen: SUBSET Levels]

\* What the proofs need of the types.
Typed == /\ box \in Boxes /\ fenced \in BOOLEAN
         /\ inbox \in [Daemons -> SUBSET Levels]
         /\ daemon \in [Daemons -> Record]

Down == box \in {"stopped", "gone"}

\* A responder that has stopped the container is about to remove its rules or
\* to delete it; nobody but coi unfreeze starts it again.
KillInv == \A d \in Daemons : daemon[d].pc \in {"rules", "deleting"} =>
             Down \/ user = "revived"

\* The rules are missing only of a container that does not run, or is about
\* to be removed.
FenceInv == fenced \/ Down \/ user = "revived" \/ life \in {"remove", "over"}

IInv == Typed /\ KillInv /\ FenceInv /\ BeliefsHold

-----------------------------------------------------------------------------
(* Steps that are not a daemon's, as far as the invariant sees them.        *)

\* A container that is down stays down unless it is revived, one that is gone
\* stays gone, and one that is started again was unfrozen or revived.
BoxMoves ==
  /\ box' \in Boxes
  /\ user = "revived" => user' = "revived"
  /\ user = "unfrozen" => user' \in {"unfrozen", "revived"}
  /\ Down => Down' \/ user' = "revived"
  /\ box = "gone" => box' = "gone"
  /\ box' = "running" => box = "running" \/ user' \in {"unfrozen", "revived"}

FenceMoves == /\ life \in {"remove", "over"} => life' \in {"remove", "over"}
              /\ fenced' = fenced \/ (fenced' = FALSE /\ life' \in {"remove", "over"})

LEMMA OutsideKeeps ==
  ASSUME IInv, BoxMoves, FenceMoves, inbox' \in [Daemons -> SUBSET Levels], daemon' = daemon
  PROVE  IInv'
<1>1. Typed'
  BY DEF IInv, Typed, BoxMoves, FenceMoves
<1>2. KillInv' /\ FenceInv'
  BY DEF IInv, KillInv, FenceInv, BoxMoves, FenceMoves, Down
<1>3. BeliefsHold'
  BY DEF IInv, BeliefsHold, BoxMoves
<1> QED  BY <1>1, <1>2, <1>3 DEF IInv

(* The step of one daemon, whose record becomes r.                          *)

Becomes(d, r) ==
  /\ daemon' = [daemon EXCEPT ![d] = r]
  /\ r \in Record
  /\ r.pc \in {"rules", "deleting"} => daemon[d].pc \in {"rules", "deleting"} \/ box' = "stopped"
  /\ r.paused => daemon[d].paused \/ box' = "frozen"
  /\ r.killed => daemon[d].killed \/ box' = "gone"

DaemonFences(d) == fenced' = fenced \/ (fenced' = FALSE /\ daemon[d].pc = "rules")

LEMMA DaemonKeeps ==
  ASSUME IInv, NEW d \in Daemons, NEW r, Becomes(d, r), DaemonFences(d), BoxMoves,
         inbox' \in [Daemons -> SUBSET Levels], user' = user, life' = life
  PROVE  IInv'
<1>1. Typed'
  BY DEF IInv, Typed, BoxMoves, DaemonFences, Becomes
<1>2. \A e \in Daemons : daemon'[e] = IF e = d THEN r ELSE daemon[e]
  BY DEF IInv, Typed, Becomes
<1>3. KillInv'
  BY <1>2 DEF IInv, KillInv, BoxMoves, Down, Becomes
<1>4. FenceInv'
  BY DEF IInv, KillInv, FenceInv, DaemonFences, BoxMoves, Down
<1>5. BeliefsHold'
  BY <1>2 DEF IInv, BeliefsHold, BoxMoves, Becomes
<1> QED  BY <1>1, <1>3, <1>4, <1>5 DEF IInv

-----------------------------------------------------------------------------
(* The steps of a daemon *)

LEMMA InitInv == Init => IInv
  BY DEF Init, IInv, Typed, KillInv, FenceInv, BeliefsHold, Boxes, Record, Idle, Down

\* A record that goes back to its loop.
Backed(r) == [r EXCEPT !.pc = "wait", !.threat = "none", !.ip = FALSE]

LEMMA BackedRecord ==
  ASSUME NEW r \in Record
  PROVE  /\ Backed(r) \in Record /\ Backed(r).pc = "wait"
         /\ Backed(r).paused = r.paused /\ Backed(r).killed = r.killed
  BY DEF Backed, Record

LEMMA BackBecomes ==
  ASSUME IInv, NEW d \in Daemons, NEW r \in Record, Back(d, r)
  PROVE  /\ daemon' = [daemon EXCEPT ![d] = Backed(r)]
         /\ Backed(r) \in Record /\ Backed(r).pc = "wait"
         /\ Backed(r).paused = r.paused /\ Backed(r).killed = r.killed
<1>1. daemon' = [daemon EXCEPT ![d] = Backed(r)]
  BY DEF Back, Backed
<1> QED  BY <1>1, BackedRecord

LEMMA SameBox == ASSUME IInv, box' = box, user' = user PROVE BoxMoves
  BY DEF IInv, Typed, BoxMoves, Down

LEMMA QuietStep ==
  ASSUME IInv, NEW d \in Daemons, NEW r \in Record, daemon' = [daemon EXCEPT ![d] = r],
         r.paused = daemon[d].paused, r.killed = daemon[d].killed,
         r.pc \in {"rules", "deleting"} => daemon[d].pc \in {"rules", "deleting"},
         inbox' \in [Daemons -> SUBSET Levels], box' = box, DaemonFences(d),
         user' = user, life' = life
  PROVE  IInv'
  BY SameBox, DaemonKeeps DEF Becomes

LEMMA TakeInv == ASSUME IInv, NEW d \in Daemons, Take(d) PROVE IInv'
<1>1. PICK level \in inbox[d] :
        IF daemon[d].killed THEN UNCHANGED daemon
        ELSE daemon' = [daemon EXCEPT ![d].pc =
                          IF level \in daemon[d].seen THEN "duplicate" ELSE "audit",
                          ![d].threat = level, ![d].seen = @ \union {level}]
  BY DEF Take
<1>2. /\ inbox' \in [Daemons -> SUBSET Levels] /\ level \in Levels /\ daemon[d] \in Record
      /\ box' = box /\ fenced' = fenced /\ user' = user /\ life' = life
  BY DEF Take, Rest, IInv, Typed
<1>3. CASE daemon' = daemon
  BY <1>2, <1>3, SameBox, OutsideKeeps DEF FenceMoves
<1>4. CASE daemon' # daemon
  <2> DEFINE pc == IF level \in daemon[d].seen THEN "duplicate" ELSE "audit"
             r == [daemon[d] EXCEPT !.pc = pc, !.threat = level, !.seen = @ \union {level}]
  <2>1. r \in Record /\ r.paused = daemon[d].paused /\ r.killed = daemon[d].killed
        /\ r.pc \in {"duplicate", "audit"}
    BY <1>2 DEF Record
  <2>2. daemon' = [daemon EXCEPT ![d] = r]
    BY <1>1, <1>2, <1>4 DEF IInv, Typed
  <2> HIDE DEF r
  <2> QED  BY <1>2, <2>1, <2>2, QuietStep DEF DaemonFences
<1> QED  BY <1>3, <1>4

LEMMA LeaveForgetInv ==
  ASSUME IInv, NEW d \in Daemons, Leave(d) \/ Forget(d)
  PROVE  IInv'
<1>1. /\ daemon[d] \in Record /\ box' = box /\ fenced' = fenced /\ inbox' = inbox
      /\ user' = user /\ life' = life /\ inbox \in [Daemons -> SUBSET Levels]
  BY DEF Leave, Forget, Rest, IInv, Typed
<1>2. CASE Leave(d)
  <2> DEFINE r == [daemon[d] EXCEPT !.pc = "off"]
  <2>1. r \in Record /\ r.pc = "off" /\ r.paused = daemon[d].paused /\ r.killed = daemon[d].killed
    BY <1>1 DEF Record
  <2>2. daemon' = [daemon EXCEPT ![d] = r]
    BY <1>2 DEF Leave, Goto, IInv, Typed
  <2> HIDE DEF r
  <2> QED  BY <1>1, <2>1, <2>2, QuietStep DEF DaemonFences
<1>3. CASE Forget(d)
  <2> DEFINE r == [daemon[d] EXCEPT !.seen = {}]
  <2>1. r \in Record /\ r.paused = daemon[d].paused /\ r.killed = daemon[d].killed
        /\ r.pc = daemon[d].pc
    BY <1>1 DEF Record
  <2>2. daemon' = [daemon EXCEPT ![d] = r]
    BY <1>3 DEF Forget, IInv, Typed
  <2> HIDE DEF r
  <2> QED  BY <1>1, <2>1, <2>2, QuietStep DEF DaemonFences
<1> QED  BY <1>2, <1>3

LEMMA AuditInv == ASSUME IInv, NEW d \in Daemons, Audit(d) PROVE IInv'
<1>1. /\ daemon[d] \in Record /\ box' = box /\ fenced' = fenced /\ inbox' = inbox
      /\ user' = user /\ life' = life /\ inbox \in [Daemons -> SUBSET Levels]
  BY DEF Audit, Rest, IInv, Typed
<1>2. PICK pc \in {"pause", "kill"} :
        \/ daemon' = [daemon EXCEPT ![d] = Backed(daemon[d])]
        \/ daemon' = [daemon EXCEPT ![d] = [daemon[d] EXCEPT !.pc = pc]]
  <2>1. Back(d, daemon[d]) \/ (Reaction(d) # "wait" /\ daemon' = [daemon EXCEPT ![d].pc = Reaction(d)])
    BY DEF Audit, React
  <2>2. Reaction(d) \in {"wait", "pause", "kill"}
    BY DEF Reaction
  <2> QED  BY <2>1, <2>2 DEF Back, Backed
<1>3. CASE daemon' = [daemon EXCEPT ![d] = Backed(daemon[d])]
  BY <1>1, <1>3, BackedRecord, QuietStep DEF DaemonFences
<1>4. CASE daemon' = [daemon EXCEPT ![d] = [daemon[d] EXCEPT !.pc = pc]]
  <2> DEFINE r == [daemon[d] EXCEPT !.pc = pc]
  <2>1. /\ r \in Record /\ r.pc \notin {"rules", "deleting"}
        /\ r.paused = daemon[d].paused /\ r.killed = daemon[d].killed
    BY <1>1 DEF Record
  <2>2. daemon' = [daemon EXCEPT ![d] = r]
    BY <1>4
  <2> HIDE DEF r
  <2> QED  BY <1>1, <2>1, <2>2, QuietStep DEF DaemonFences
<1> QED  BY <1>2, <1>3, <1>4

\* A command that is started, or not under a cancelled context.
LEMMA StartMoves ==
  ASSUME IInv, NEW d \in Daemons, NEW known \in Record, NEW pc \in {"pausing", "stopping", "deleting"},
         Start(d, pc, known),
         known.paused = daemon[d].paused, known.killed = daemon[d].killed
  PROVE  \E r \in Record : /\ daemon' = [daemon EXCEPT ![d] = r]
                           /\ r.paused = daemon[d].paused /\ r.killed = daemon[d].killed
                           /\ r.pc \in {"wait", pc}
<1>1. CASE d \in cancelled
  BY <1>1, BackBecomes DEF Start
<1>2. CASE d \notin cancelled
  <2> DEFINE r == [known EXCEPT !.pc = pc]
  <2>1. r \in Record /\ r.pc = pc /\ r.paused = known.paused /\ r.killed = known.killed
    BY DEF Record
  <2>2. daemon' = [daemon EXCEPT ![d] = r]
    BY <1>2 DEF Start
  <2>3. r.paused = daemon[d].paused /\ r.killed = daemon[d].killed /\ r.pc \in {"wait", pc}
    BY <2>1
  <2> HIDE DEF r
  <2> QED  BY <2>1, <2>2, <2>3, Zenon
<1> QED  BY <1>1, <1>2

LEMMA SendInv ==
  ASSUME IInv, NEW d \in Daemons, PauseSend(d) \/ KillSend(d) \/ KillRules(d)
  PROVE  IInv'
<1>1. /\ daemon[d] \in Record /\ box' = box /\ inbox' = inbox
      /\ user' = user /\ life' = life /\ inbox \in [Daemons -> SUBSET Levels]
      /\ fenced \in BOOLEAN
  BY DEF PauseSend, KillSend, KillRules, Rest, IInv, Typed
<1>2. CASE PauseSend(d)
  <2>1. Start(d, "pausing", daemon[d]) /\ fenced' = fenced
    BY <1>2 DEF PauseSend
  <2> QED  BY <1>1, <2>1, StartMoves, QuietStep DEF DaemonFences
<1>3. CASE KillSend(d)
  <2>1. PICK known \in Record : /\ Start(d, "stopping", known) /\ fenced' = fenced
                                /\ known.paused = daemon[d].paused /\ known.killed = daemon[d].killed
    <3>1. /\ [daemon[d] EXCEPT !.ip = Alive] \in Record
          /\ [daemon[d] EXCEPT !.ip = Alive].paused = daemon[d].paused
          /\ [daemon[d] EXCEPT !.ip = Alive].killed = daemon[d].killed
      <4>1. Alive \in BOOLEAN
        BY DEF Alive
      <4> QED  BY <1>1, <4>1 DEF Record
    <3> QED  BY <1>1, <1>3, <3>1 DEF KillSend
  <2> QED  BY <1>1, <2>1, StartMoves, QuietStep DEF DaemonFences
<1>4. CASE KillRules(d)
  <2>1. Start(d, "deleting", daemon[d]) /\ daemon[d].pc = "rules"
    BY <1>4 DEF KillRules, At
  <2>2. DaemonFences(d)
    BY <1>1, <1>4, <2>1 DEF KillRules, DaemonFences, Record
  <2> QED  BY <1>1, <2>1, <2>2, StartMoves, QuietStep
<1> QED  BY <1>2, <1>3, <1>4

LEMMA AnswerInv ==
  ASSUME IInv, NEW d \in Daemons, PauseAnswer(d) \/ StopAnswer(d) \/ DeleteAnswer(d)
  PROVE  IInv'
<1>1. /\ daemon[d] \in Record /\ fenced' = fenced /\ inbox' = inbox
      /\ user' = user /\ life' = life /\ inbox \in [Daemons -> SUBSET Levels]
      /\ box \in Boxes
  BY DEF PauseAnswer, StopAnswer, DeleteAnswer, Rest, IInv, Typed
<1>2. BoxMoves
  BY <1>1 DEF PauseAnswer, StopAnswer, DeleteAnswer, BoxMoves, Alive, Boxes, Down
<1>3. PICK r : Becomes(d, r)
  <2>1. CASE PauseAnswer(d)
    <3>1. CASE Back(d, [daemon[d] EXCEPT !.paused = TRUE]) /\ box' = "frozen"
      <4> DEFINE known == [daemon[d] EXCEPT !.paused = TRUE]
      <4>1. known \in Record /\ known.killed = daemon[d].killed
        BY <1>1 DEF Record
      <4>2. Back(d, known)
        BY <3>1
      <4> HIDE DEF known
      <4>3. Becomes(d, Backed(known))
        BY <3>1, <4>1, <4>2, BackBecomes DEF Becomes
      <4> QED  BY <4>3
    <3>2. CASE Back(d, daemon[d])
      BY <1>1, <3>2, BackBecomes DEF Becomes
    <3> QED  BY <2>1, <3>1, <3>2 DEF PauseAnswer
  <2>2. CASE StopAnswer(d)
    <3>1. CASE Goto(d, "rules") /\ box' = "stopped"
      <4>1. daemon' = [daemon EXCEPT ![d] = [daemon[d] EXCEPT !.pc = "rules"]]
        BY <3>1 DEF Goto, IInv, Typed
      <4> DEFINE r == [daemon[d] EXCEPT !.pc = "rules"]
      <4>2. r \in Record /\ r.paused = daemon[d].paused /\ r.killed = daemon[d].killed
        BY <1>1 DEF Record
      <4>3. daemon' = [daemon EXCEPT ![d] = r]
        BY <4>1
      <4> HIDE DEF r
      <4>4. Becomes(d, r)
        BY <3>1, <4>2, <4>3 DEF Becomes
      <4> QED  BY <4>4
    <3>2. CASE Back(d, daemon[d])
      BY <1>1, <3>2, BackBecomes DEF Becomes
    <3> QED  BY <2>2, <3>1, <3>2 DEF StopAnswer
  <2>3. CASE DeleteAnswer(d)
    <3>1. CASE Back(d, [daemon[d] EXCEPT !.killed = TRUE]) /\ box' = "gone"
      <4> DEFINE known == [daemon[d] EXCEPT !.killed = TRUE]
      <4>1. known \in Record /\ known.paused = daemon[d].paused
        BY <1>1 DEF Record
      <4>2. Back(d, known)
        BY <3>1
      <4> HIDE DEF known
      <4>3. Becomes(d, Backed(known))
        BY <3>1, <4>1, <4>2, BackBecomes DEF Becomes
      <4> QED  BY <4>3
    <3>2. CASE Back(d, daemon[d])
      BY <1>1, <3>2, BackBecomes DEF Becomes
    <3> QED  BY <2>3, <3>1, <3>2 DEF DeleteAnswer
  <2> QED  BY <2>1, <2>2, <2>3
<1> QED  BY <1>1, <1>2, <1>3, DaemonKeeps DEF DaemonFences

LEMMA DaemonInv ==
  ASSUME IInv, NEW d \in Daemons, DaemonStep(d) \/ Forget(d) PROVE IInv'
  BY TakeInv, LeaveForgetInv, AuditInv, SendInv, AnswerInv DEF DaemonStep

-----------------------------------------------------------------------------
(* The other steps *)

LEMMA DetectInv == ASSUME IInv, NEW d \in Daemons, NEW level \in Levels, Detect(d, level) PROVE IInv'
<1>1. inbox' \in [Daemons -> SUBSET Levels]
  BY DEF Detect, IInv, Typed
<1> QED  BY <1>1, SameBox, OutsideKeeps DEF Detect, Rest, FenceMoves

LEMMA TimerInv == ASSUME IInv, TimerFires \/ TimerStep PROVE IInv'
<1>1. TimerRest
  BY DEF TimerFires, TimerStep, TimerTo, TimerCancelled, AskStop, Insist, Verify, ForceAgain,
         ForceAtOnce, Check, ForceStop
<1>2. box' = box \/ (Alive /\ box' = "stopped")
  BY DEF TimerFires, TimerStep, TimerCancelled, AskStop, Insist, Verify, ForceAgain,
         ForceAtOnce, Check, ForceStop, Alive
<1>3. BoxMoves /\ FenceMoves /\ daemon' = daemon /\ inbox' \in [Daemons -> SUBSET Levels]
  BY <1>1, <1>2 DEF TimerRest, IInv, Typed, Boxes, BoxMoves, FenceMoves, Alive, Down
<1> QED  BY <1>3, OutsideKeeps

LEMMA UserInv == ASSUME IInv, UnfreezeLook \/ UnfreezeStart \/ PowerOff PROVE IInv'
<1>1. BoxMoves
  BY DEF UnfreezeLook, UnfreezeStart, PowerOff, UserRest, IInv, Typed, Boxes, BoxMoves, Down
<1>2. FenceMoves /\ daemon' = daemon /\ inbox' \in [Daemons -> SUBSET Levels]
  BY DEF UnfreezeLook, UnfreezeStart, PowerOff, UserRest, IInv, Typed, FenceMoves
<1> QED  BY <1>1, <1>2, OutsideKeeps

LEMMA LifeInv == ASSUME IInv, SessionEnds \/ TeardownStep PROVE IInv'
<1>1. LifeRest
  BY DEF SessionEnds, TeardownStep, MonStopped, NFTStopped, MonitorsStopped, TimerStopped, Look,
         RulesOnly, TeardownNetwork, Remove, Proceed, LifeStep, LifeTo
<1>2. BoxMoves
  <2>1. CASE Remove
    BY <1>1, <2>1 DEF Remove, LifeRest, IInv, Typed, Boxes, BoxMoves, Down
  <2>2. CASE box' = box
    BY <1>1, <2>2, SameBox DEF LifeRest
  <2> QED  BY <2>1, <2>2 DEF SessionEnds, TeardownStep, MonStopped, NFTStopped, MonitorsStopped,
              TimerStopped, Look, RulesOnly, TeardownNetwork, Proceed
<1>3. FenceMoves
  <2>1. CASE RulesOnly \/ TeardownNetwork \/ Remove
    BY <2>1 DEF RulesOnly, TeardownNetwork, Remove, LifeStep, LifeTo, FenceMoves
  <2>2. CASE fenced' = fenced /\ life \notin {"remove", "over"}
    BY <2>2 DEF FenceMoves
  <2> QED  BY <2>1, <2>2 DEF SessionEnds, TeardownStep, MonStopped, NFTStopped, MonitorsStopped,
              TimerStopped, Look, Proceed, LifeStep
<1> QED  BY <1>1, <1>2, <1>3, OutsideKeeps DEF LifeRest, IInv, Typed

LEMMA StepInv == IInv /\ [Next]_vars => IInv'
<1> SUFFICES ASSUME IInv, [Next]_vars PROVE IInv'
  OBVIOUS
<1>1. CASE UNCHANGED vars
  BY <1>1 DEF vars, IInv, Typed, KillInv, FenceInv, BeliefsHold, Down
<1>2. CASE Next
  BY <1>2, DetectInv, DaemonInv, TimerInv, UserInv, LifeInv DEF Next
<1> QED  BY <1>1, <1>2

LEMMA Invariance == Spec => []IInv
  BY InitInv, StepInv, PTL DEF Spec

(* Up to the network teardown a container that runs has its firewall rules, *)
(* whichever of two responders, the runtime limit, the guest and the        *)
(* teardown act on it, unless coi unfreeze revived it after a kill.         *)
THEOREM FencedAlways == Spec => []RunningIsFenced
<1>1. IInv => RunningIsFenced
  BY DEF IInv, FenceInv, Down, RunningIsFenced
<1> QED  BY <1>1, Invariance, PTL

(* What a responder remembers as paused does not run until it is unfrozen,  *)
(* and what it remembers as killed is gone, whoever else acts on it.        *)
THEOREM BeliefsAlways == Spec => []BeliefsHold
<1>1. IInv => BeliefsHold
  BY DEF IInv
<1> QED  BY <1>1, Invariance, PTL

-----------------------------------------------------------------------------
(* NameSync, for any names, addresses and processes, at any time any number *)
(* of them side by side.  The argument follows one process: the one that    *)
(* emptied the sets last, whose record of what it installed is true.  What  *)
(* another wrote into the hosts block is what the properties except.        *)

Syncing == {"addrs", "pairs", "hosts"}
Synced == {"hosts", "save", "lift"}

\* Nothing was emptied since this process emptied the sets.
Fresh(s) == Active(s) /\ sess[s].pc # "purge" /\ s \notin outdated

\* The name's addresses and pairs are in the sets.
Installed(as, d) == as \subseteq addrs /\ PairsOf(as, d) \subseteq tuples

LastInv == \A s, t \in Sessions : Fresh(s) /\ Fresh(t) => s = t

\* A setup has nothing from before.
SetupInv ==
  \A s \in Sessions :
    /\ ~Active(s) => sess[s] = NoSession
    /\ sess[s].pc = "purge" => sess[s].seen = {} /\ sess[s].seenPairs = {}
    /\ sess[s].pc \in {"purge", "rules", "load", "lift"} => sess[s].task = "setup"
    /\ sess[s].pc = "idle" => sess[s].task = "refresh"

\* What a fresh process remembers is there.
SeenInv ==
  \A s \in Sessions :
    Fresh(s) => sess[s].seen \subseteq addrs /\ sess[s].seenPairs \subseteq tuples

\* What it has synced is there.
SyncInv ==
  \A s \in Sessions, d \in Names : Fresh(s) =>
    /\ sess[s].pc \in Syncing \cup Synced /\ d \notin sess[s].todo => Installed(sess[s].found[d], d)
    /\ sess[s].pc = "pairs" /\ d \in sess[s].name => sess[s].found[d] \subseteq addrs

\* What a process is about to write was synced; what it wrote is in the hosts
\* block, or another has written since, and then one that was overtaken.
WriteInv ==
  \A s \in Sessions :
    /\ sess[s].pc \in Synced => sess[s].todo = {}
    /\ sess[s].pc \in {"save", "lift"} /\ writer = {s} => file = sess[s].found
    /\ sess[s].pc = "lift" => sess[s].cache = sess[s].found
    /\ Fresh(s) /\ sess[s].pc \in {"save", "lift"} => writer = {s} \/ writer \cap outdated # {}

\* What a refresh can fall back on names whatever it put into the hosts block.
CacheInv ==
  \A s \in Sessions, d \in Names :
    sess[s].task = "refresh" /\ writer = {s} /\ file[d] # {} =>
      /\ sess[s].pc \in {"idle", "resolve"} \cup Syncing => sess[s].cache[d] # {}
      /\ sess[s].pc \in Syncing => sess[s].found[d] # {}

\* Lockstep, whether or not the container runs.
FileInv ==
  ~emptied /\ writer \cap outdated = {} => \A d \in Names : Installed(file[d], d)

SafeInv == LastInv /\ SetupInv /\ SeenInv /\ SyncInv /\ WriteInv /\ CacheInv /\ FileInv

NInv == NTypeOK /\ SafeInv

-----------------------------------------------------------------------------
\* The pairs of a name with allowed addresses are allowed pairs.
LEMMA PairsOfType ==
  ASSUME NEW d \in Names, NEW as \in SUBSET Addrs
  PROVE  PairsOf(as, d) \in SUBSET Pairs
BY DEF PairsOf, Pairs

\* No name has an address: an assignment like any other.
LEMMA NoAnswersType == NoAnswers \in Answers
BY DEF NoAnswers, Answers

\* A process that manages nothing is a process.
LEMMA NoSessionType == NoSession \in SessionType
BY NoAnswersType DEF NoSession, SessionType, Labels

\* Every variable keeps its type through every step.
LEMMA TypeStep == NTypeOK /\ [NNext]_nvars => NTypeOK'
<1> SUFFICES ASSUME NTypeOK, [NNext]_nvars PROVE NTypeOK'
  OBVIOUS
<1>1. ASSUME NEW s \in Sessions, SetupStep(s) PROVE NTypeOK'
  <2>1. CASE Create(s)
    <3>1. sess' \in [Sessions -> SessionType]
      BY <2>1 DEF NTypeOK, SessionType, Labels, Create, Boot, NGoto
    <3> QED BY <2>1, <3>1, NoAnswersType DEF NTypeOK, Create, Boot, NGoto, Empties
  <2>2. CASE Restart(s)
    <3>1. sess' \in [Sessions -> SessionType]
      BY <2>2 DEF NTypeOK, SessionType, Labels, Restart, Boot, NGoto
    <3> QED BY <2>2, <3>1 DEF NTypeOK, Restart, Boot, NGoto, Empties
  <2>3. CASE Reenter(s)
    <3>1. sess' \in [Sessions -> SessionType]
      BY <2>3 DEF NTypeOK, SessionType, Labels, Reenter, NGoto
    <3> QED BY <2>3, <3>1 DEF NTypeOK, Reenter, NGoto, histories
  <2>4. CASE PurgeRules(s)
    <3>1. sess' \in [Sessions -> SessionType]
      BY <2>4 DEF NTypeOK, SessionType, Labels, PurgeRules, NGoto
    <3> QED BY <2>4, <3>1 DEF NTypeOK, PurgeRules, NGoto, Empties
  <2>5. CASE ApplyAllowlist(s)
    <3>1. sess' \in [Sessions -> SessionType]
      BY <2>5 DEF NTypeOK, SessionType, Labels, ApplyAllowlist, NGoto, histories
    <3> QED BY <2>5, <3>1 DEF NTypeOK, ApplyAllowlist, NGoto, histories
  <2>6. CASE ApplyAllowlistFails(s)
    <3>1. sess' \in [Sessions -> SessionType]
      BY <2>6, NoSessionType DEF NTypeOK, SessionType, Labels, ApplyAllowlistFails, GiveUp, NGoto, histories
    <3> QED BY <2>6, <3>1 DEF NTypeOK, ApplyAllowlistFails, GiveUp, NGoto, histories
  <2>7. CASE LoadCache(s)
    <3>1. sess' \in [Sessions -> SessionType]
      <4>1. PICK cache \in Answers : sess' = [sess EXCEPT ![s].pc = "resolve", ![s].cache = cache]
        BY <2>7, NoAnswersType DEF LoadCache, NTypeOK
      <4> DEFINE new == [sess[s] EXCEPT !.pc = "resolve", !.cache = cache]
      <4>2. new \in SessionType
        BY DEF NTypeOK, SessionType, Labels
      <4>3. sess' = [sess EXCEPT ![s] = new]
        BY <4>1 DEF NTypeOK, SessionType
      <4> QED BY <4>2, <4>3 DEF NTypeOK
    <3> QED BY <2>7, <3>1 DEF NTypeOK, LoadCache, histories
  <2>8. CASE LiftBootBlock(s)
    <3>1. sess' \in [Sessions -> SessionType]
      <4> DEFINE new == [sess[s] EXCEPT !.pc = "idle", !.task = "refresh"]
      <4>1. new \in SessionType
        BY DEF NTypeOK, SessionType, Labels
      <4>2. sess' = [sess EXCEPT ![s] = new]
        BY <2>8 DEF NTypeOK, SessionType, LiftBootBlock
      <4> QED BY <4>1, <4>2 DEF NTypeOK
    <3> QED BY <2>8, <3>1 DEF NTypeOK, LiftBootBlock
  <2> QED BY <1>1, <2>1, <2>2, <2>3, <2>4, <2>5, <2>6, <2>7, <2>8 DEF SetupStep
<1>2. ASSUME NEW s \in Sessions, SyncStep(s) PROVE NTypeOK'
  <2>1. CASE Refresh(s)
    <3>1. sess' \in [Sessions -> SessionType]
      BY <2>1 DEF NTypeOK, SessionType, Labels, Refresh, NGoto
    <3> QED BY <2>1, <3>1 DEF NTypeOK, Refresh, NGoto, histories
  <2>2. CASE ResolveAll(s)
    <3>1. sess' \in [Sessions -> SessionType]
      <4>1. CASE GiveUp(s)
        BY <4>1, NoSessionType DEF NTypeOK, GiveUp, NGoto, SessionType, Labels
      <4>2. PICK answer \in Answers :
              LET found == [e \in Names |-> IF answer[e] # {} THEN answer[e] ELSE sess[s].cache[e]]
              IN  IF found = NoAnswers
                    THEN GiveUp(s)
                    ELSE sess' = [sess EXCEPT ![s].pc = "addrs", ![s].found = found,
                                              ![s].todo = {e \in Names : found[e] # {}}]
        BY <2>2 DEF ResolveAll
      <4> DEFINE found == [e \in Names |-> IF answer[e] # {} THEN answer[e] ELSE sess[s].cache[e]]
      <4> DEFINE todo == {e \in Names : found[e] # {}}
      <4>3. sess[s].cache \in Answers
        BY DEF NTypeOK, SessionType
      <4>4. found \in Answers
        BY <4>3 DEF Answers
      <4>5. todo \in SUBSET Names
        OBVIOUS
      <4>6. GiveUp(s) \/ sess' = [sess EXCEPT ![s].pc = "addrs", ![s].found = found, ![s].todo = todo]
        BY <4>2
      <4> HIDE DEF found, todo
      <4> QED BY <4>1, <4>4, <4>5, <4>6 DEF NTypeOK, SessionType, Labels
    <3> QED BY <2>2, <3>1 DEF NTypeOK, ResolveAll, GiveUp, NGoto, histories
  <2>3. ASSUME NEW d \in Names, AllowAddrs(s, d) PROVE NTypeOK'
    <3>1. sess' \in [Sessions -> SessionType]
      <4> DEFINE new == [sess[s] EXCEPT !.pc = "pairs", !.name = {d}, !.seen = @ \cup StaleAddrs(s, d)]
      <4>1. sess[s].seen \cup StaleAddrs(s, d) \in SUBSET Addrs
        BY DEF NTypeOK, SessionType, Answers, StaleAddrs
      <4>2. new \in SessionType
        BY <4>1 DEF NTypeOK, SessionType, Labels
      <4>3. sess' = [sess EXCEPT ![s] = new]
        BY <2>3 DEF NTypeOK, SessionType, AllowAddrs
      <4> QED BY <4>2, <4>3 DEF NTypeOK
    <3>2. StaleAddrs(s, d) \subseteq Addrs
      BY DEF NTypeOK, SessionType, Answers, StaleAddrs
    <3> QED BY <2>3, <3>1, <3>2 DEF NTypeOK, AllowAddrs, histories
  <2>4. ASSUME NEW d \in Names, AllowPairs(s, d) PROVE NTypeOK'
    <3>1. sess' \in [Sessions -> SessionType]
      <4> DEFINE label == IF sess[s].todo = {d} THEN "hosts" ELSE "addrs"
      <4> DEFINE new == [sess[s] EXCEPT !.pc = label, !.todo = @ \ {d}, !.name = {}, !.seenPairs = @ \cup StalePairs(s, d)]
      <4>1. sess[s].found[d] \in SUBSET Addrs
        BY DEF NTypeOK, SessionType, Answers
      <4>2. sess[s].seenPairs \cup StalePairs(s, d) \in SUBSET Pairs
        BY <4>1, PairsOfType DEF NTypeOK, SessionType, StalePairs
      <4>3. new \in SessionType
        BY <4>2 DEF NTypeOK, SessionType, Labels
      <4>4. sess' = [sess EXCEPT ![s] = new]
        BY <2>4 DEF NTypeOK, SessionType, AllowPairs
      <4> QED BY <4>3, <4>4 DEF NTypeOK
    <3>2. sess[s].found[d] \in SUBSET Addrs
      BY DEF NTypeOK, SessionType, Answers
    <3>3. StalePairs(s, d) \subseteq Pairs
      BY <3>2, PairsOfType DEF StalePairs
    <3> QED BY <2>4, <3>1, <3>3 DEF NTypeOK, AllowPairs, histories
  <2>5. ASSUME NEW d \in Names, AllowFails(s, d) PROVE NTypeOK'
    <3>1. sess' \in [Sessions -> SessionType]
      BY <2>5, NoSessionType DEF NTypeOK, SessionType, Labels, AllowFails, GiveUp, NGoto
    <3> QED BY <2>5, <3>1 DEF NTypeOK, AllowFails, GiveUp, NGoto, histories
  <2>6. CASE WriteHosts(s)
    <3>1. sess' \in [Sessions -> SessionType]
      BY <2>6 DEF NTypeOK, SessionType, Labels, WriteHosts, NGoto
    <3>2. sess[s].found \in Answers
      BY DEF NTypeOK, SessionType
    <3> QED BY <2>6, <3>1, <3>2 DEF NTypeOK, WriteHosts, NGoto
  <2>7. CASE WriteHostsFails(s)
    <3>1. sess' \in [Sessions -> SessionType]
      BY <2>7, NoSessionType DEF NTypeOK, SessionType, Labels, WriteHostsFails, GiveUp, NGoto, histories
    <3> QED BY <2>7, <3>1 DEF NTypeOK, WriteHostsFails, GiveUp, NGoto, histories
  <2>8. CASE SaveCache(s)
    <3>1. sess' \in [Sessions -> SessionType]
      BY <2>8 DEF NTypeOK, SessionType, Labels, SaveCache
    <3>2. sess[s].found \in Answers
      BY DEF NTypeOK, SessionType
    <3> QED BY <2>8, <3>1, <3>2 DEF NTypeOK, SaveCache, histories
  <2> QED BY <1>2, <2>1, <2>2, <2>3, <2>4, <2>5, <2>6, <2>7, <2>8 DEF SyncStep
<1>3. ASSUME NEW s \in Sessions, Cleanup(s) \/ Crash(s) PROVE NTypeOK'
  <2>1. sess' \in [Sessions -> SessionType]
    BY <1>3, NoSessionType DEF NTypeOK, Cleanup, Crash
  <2>2. CASE Crash(s)
    BY <2>1, <2>2 DEF NTypeOK, Crash, histories
  <2>3. CASE Cleanup(s)
    BY <2>1, <2>3, NoAnswersType DEF NTypeOK, Cleanup, Empties, histories
  <2> QED BY <1>3, <2>2, <2>3
<1>4. CASE NPowerOff
  BY <1>4 DEF NTypeOK, NPowerOff, histories
<1>5. CASE UNCHANGED nvars
  BY <1>5 DEF NTypeOK, nvars
<1> QED BY <1>1, <1>2, <1>3, <1>4, <1>5 DEF NNext

\* Every variable of NameSync always has its type, and sets that do not exist
\* have no elements, for any number of processes.
THEOREM NamesTypeCorrect == NSpec => []NTypeOK
<1>1. NInit => NTypeOK
  BY NoAnswersType, NoSessionType DEF NInit, NTypeOK
<1> QED BY <1>1, TypeStep, PTL DEF NSpec

-----------------------------------------------------------------------------
(* Lockstep and NamesKept *)

\* The effect of a step on the processes: s goes on at p ...
Moved(s, p) ==
  /\ \A t \in Sessions \ {s} : sess'[t] = sess[t]
  /\ sess'[s].pc = p /\ sess'[s].task = sess[s].task
  /\ sess'[s].cache = sess[s].cache /\ sess'[s].found = sess[s].found
  /\ sess'[s].seen = sess[s].seen /\ sess'[s].seenPairs = sess[s].seenPairs
  /\ sess'[s].todo = sess[s].todo /\ sess'[s].name = sess[s].name

\* ... or it ends.
Ended(s) ==
  /\ \A t \in Sessions \ {s} : sess'[t] = sess[t]
  /\ sess'[s] = NoSession

LEMMA MovedBy ==
  ASSUME NTypeOK, NEW s \in Sessions, NEW p, NGoto(s, p)
  PROVE  Moved(s, p)
BY DEF NTypeOK, SessionType, NGoto, Moved

LEMMA EndedBy ==
  ASSUME NTypeOK, NEW s \in Sessions, sess' = [sess EXCEPT ![s] = NoSession]
  PROVE  Ended(s)
BY DEF NTypeOK, Ended

\* A failing step ends a setup, and puts a refresh off.
LEMMA GivenUp ==
  ASSUME NTypeOK, NEW s \in Sessions, GiveUp(s)
  PROVE  IF sess[s].task = "setup" THEN Ended(s) ELSE Moved(s, "idle")
BY MovedBy, EndedBy DEF GiveUp

\* NoSession, field by field.
LEMMA NoSessionFields ==
  /\ NoSession.pc = "none" /\ NoSession.task = "setup"
  /\ NoSession.seen = {} /\ NoSession.seenPairs = {}
BY DEF NoSession

\* A step that ends a process and takes nothing away from the kernel or the
\* hosts file preserves the invariant.
LEMMA EndedStep ==
  ASSUME SafeInv, NEW s \in Sessions, Ended(s),
         UNCHANGED <<inst, open, sets, addrs, tuples, file, histories>>
  PROVE  SafeInv'
<1> USE NoSessionFields DEF SafeInv, Ended, Active, histories
<1>1. LastInv'
  BY DEF LastInv, Fresh
<1>2. SetupInv'
  BY DEF SetupInv
<1>3. SeenInv'
  BY DEF SeenInv, Fresh
<1>4. SyncInv'
  BY DEF SyncInv, Fresh, Installed, Syncing, Synced
<1>5. WriteInv'
  BY DEF WriteInv, Fresh, Synced
<1>6. CacheInv'
  BY DEF CacheInv, Syncing
<1>7. FileInv'
  BY DEF FileInv, Installed
<1> QED BY <1>1, <1>2, <1>3, <1>4, <1>5, <1>6, <1>7

\* Putting a refresh off, likewise.
LEMMA PutOffStep ==
  ASSUME SafeInv, NEW s \in Sessions, sess[s].task = "refresh", Active(s),
         sess[s].pc \in {"resolve"} \cup Syncing, Moved(s, "idle"),
         UNCHANGED <<inst, open, sets, addrs, tuples, file, histories>>
  PROVE  SafeInv'
<1> USE DEF SafeInv, Moved, Active, histories
<1>1. LastInv'
  BY DEF LastInv, Fresh, Syncing
<1>2. SetupInv'
  BY DEF SetupInv
<1>3. SeenInv'
  BY DEF SeenInv, Fresh, Syncing
<1>4. SyncInv'
  BY DEF SyncInv, Fresh, Installed, Syncing, Synced
<1>5. WriteInv'
  BY DEF WriteInv, Fresh, Synced
<1>6. CacheInv'
  BY DEF CacheInv, Syncing
<1>7. FileInv'
  BY DEF FileInv, Installed
<1> QED BY <1>1, <1>2, <1>3, <1>4, <1>5, <1>6, <1>7

\* Entering the container.
LEMMA BootStep ==
  ASSUME NInv, NEW s \in Sessions, Create(s) \/ Restart(s)
  PROVE  SafeInv'
<1> USE NoSessionFields DEF NInv, SafeInv, Active
<1>0. /\ Moved(s, "purge") /\ sess[s] = NoSession /\ emptied' = TRUE
      /\ \A t \in Sessions \ {s} : sess'[t].pc = "none" /\ sess'[t] = sess[t] /\ sess[t] = NoSession
  BY MovedBy DEF Create, Restart, Boot, Empties, SetupInv, Moved
<1>a. \A t \in Sessions : ~Fresh(t)'
  BY <1>0 DEF Fresh, Moved
<1> USE <1>0, <1>a DEF Moved
<1>1. LastInv'
  BY DEF LastInv, Fresh
<1>2. SetupInv'
  BY DEF SetupInv
<1>3. SeenInv'
  BY DEF SeenInv, Fresh
<1>4. SyncInv'
  BY DEF SyncInv, Fresh, Installed, Syncing, Synced
<1>5. WriteInv'
  BY DEF WriteInv, Fresh, Synced
<1>6. CacheInv'
  BY DEF CacheInv, Syncing
<1>7. FileInv'
  BY DEF FileInv, Installed
<1> QED BY <1>1, <1>2, <1>3, <1>4, <1>5, <1>6, <1>7

LEMMA ReenterStep ==
  ASSUME NInv, NEW s \in Sessions, Reenter(s)
  PROVE  SafeInv'
<1> USE NoSessionFields DEF NInv, SafeInv, Active, histories
<1>0. Moved(s, "purge") /\ sess[s] = NoSession
  BY MovedBy DEF Reenter, SetupInv
<1> USE <1>0 DEF Reenter, Moved
<1>1. LastInv'
  BY DEF LastInv, Fresh
<1>2. SetupInv'
  BY DEF SetupInv
<1>3. SeenInv'
  BY DEF SeenInv, Fresh
<1>4. SyncInv'
  BY DEF SyncInv, Fresh, Installed, Syncing, Synced
<1>5. WriteInv'
  BY DEF WriteInv, Fresh, Synced
<1>6. CacheInv'
  BY DEF CacheInv, Syncing
<1>7. FileInv'
  BY DEF FileInv, Installed
<1> QED BY <1>1, <1>2, <1>3, <1>4, <1>5, <1>6, <1>7

\* Emptying the sets: the others are overtaken, and this process, which
\* remembers nothing, is fresh.
LEMMA PurgeStep ==
  ASSUME NInv, NEW s \in Sessions, PurgeRules(s)
  PROVE  SafeInv'
<1> USE DEF NInv, SafeInv
<1>0. /\ Moved(s, "rules") /\ sess[s].pc = "purge"
      /\ emptied' = TRUE /\ outdated' = {t \in Sessions \ {s} : Active(t)}
      /\ UNCHANGED <<file, writer>>
  BY MovedBy DEF PurgeRules, Empties
<1>a. \A t \in Sessions \ {s} : ~Fresh(t)'
  BY <1>0 DEF Fresh, Moved, Active
<1>b. sess'[s].seen = {} /\ sess'[s].seenPairs = {}
  BY <1>0 DEF Moved, SetupInv
<1> USE <1>0, <1>a, <1>b DEF Moved
<1>1. LastInv'
  BY DEF LastInv
<1>2. SetupInv'
  BY DEF SetupInv, Active
<1>3. SeenInv'
  BY DEF SeenInv
<1>4. SyncInv'
  BY DEF SyncInv, Syncing, Synced
<1>5. WriteInv'
  BY DEF WriteInv, Synced
<1>6. CacheInv'
  BY DEF CacheInv, Syncing
<1>7. FileInv'
  BY DEF FileInv
<1> QED BY <1>1, <1>2, <1>3, <1>4, <1>5, <1>6, <1>7

LEMMA RulesStep ==
  ASSUME NInv, NEW s \in Sessions, ApplyAllowlist(s)
  PROVE  SafeInv'
<1> USE DEF NInv, SafeInv, Active, histories
<1>0. Moved(s, "load")
  BY MovedBy DEF ApplyAllowlist
<1> USE <1>0 DEF ApplyAllowlist, Moved
<1>1. LastInv'
  BY DEF LastInv, Fresh
<1>2. SetupInv'
  BY DEF SetupInv
<1>3. SeenInv'
  BY DEF SeenInv, Fresh
<1>4. SyncInv'
  BY DEF SyncInv, Fresh, Installed, Syncing, Synced
<1>5. WriteInv'
  BY DEF WriteInv, Fresh, Synced
<1>6. CacheInv'
  BY DEF CacheInv, Syncing
<1>7. FileInv'
  BY DEF FileInv, Installed
<1> QED BY <1>1, <1>2, <1>3, <1>4, <1>5, <1>6, <1>7

LEMMA LoadStep ==
  ASSUME NInv, NEW s \in Sessions, LoadCache(s)
  PROVE  SafeInv'
<1> USE DEF NInv, SafeInv, Active
<1>0. /\ \A t \in Sessions \ {s} : sess'[t] = sess[t]
      /\ sess'[s].pc = "resolve" /\ sess'[s].task = sess[s].task
      /\ sess'[s].seen = sess[s].seen /\ sess'[s].seenPairs = sess[s].seenPairs
      /\ UNCHANGED <<inst, open, sets, addrs, tuples, file, emptied, outdated, writer>>
  BY DEF LoadCache, NTypeOK, SessionType, histories
<1>a. sess[s].pc = "load" /\ sess[s].task = "setup"
  BY DEF LoadCache, SetupInv
<1> USE <1>0, <1>a
<1>1. LastInv'
  BY DEF LastInv, Fresh
<1>2. SetupInv'
  BY DEF SetupInv
<1>3. SeenInv'
  BY DEF SeenInv, Fresh
<1>4. SyncInv'
  BY DEF SyncInv, Fresh, Installed, Syncing, Synced
<1>5. WriteInv'
  BY DEF WriteInv, Fresh, Synced
<1>6. CacheInv'
  BY DEF CacheInv, Syncing
<1>7. FileInv'
  BY DEF FileInv, Installed
<1> QED BY <1>1, <1>2, <1>3, <1>4, <1>5, <1>6, <1>7

\* Lifting the boot block: what a fresh process wrote has been installed.
LEMMA LiftStep ==
  ASSUME NInv, NEW s \in Sessions, LiftBootBlock(s)
  PROVE  SafeInv'
<1> USE DEF NInv, SafeInv, Active
<1>0. /\ \A t \in Sessions \ {s} : sess'[t] = sess[t]
      /\ sess'[s].pc = "idle" /\ sess'[s].task = "refresh"
      /\ sess'[s].cache = sess[s].cache /\ sess'[s].found = sess[s].found
      /\ sess'[s].seen = sess[s].seen /\ sess'[s].seenPairs = sess[s].seenPairs
      /\ sess[s].pc = "lift" /\ emptied' = (emptied /\ s \in outdated)
      /\ UNCHANGED <<inst, sets, addrs, tuples, file, outdated, writer>>
  BY DEF LiftBootBlock, NTypeOK, SessionType
<1>a. writer = {s} => file = sess[s].found /\ sess[s].cache = file
  BY <1>0 DEF WriteInv
<1>b. s \notin outdated =>
        /\ writer = {s} \/ writer \cap outdated # {}
        /\ \A d \in Names : Installed(sess[s].found[d], d)
  BY <1>0 DEF WriteInv, SyncInv, Fresh, Synced
<1> USE <1>0
<1>1. LastInv'
  BY DEF LastInv, Fresh
<1>2. SetupInv'
  BY DEF SetupInv
<1>3. SeenInv'
  BY DEF SeenInv, Fresh
<1>4. SyncInv'
  BY DEF SyncInv, Fresh, Installed, Syncing, Synced
<1>5. WriteInv'
  BY DEF WriteInv, Fresh, Synced
<1>6. CacheInv'
  BY <1>a DEF CacheInv, Syncing
<1>7. FileInv'
  BY <1>a, <1>b DEF FileInv, Installed
<1> QED BY <1>1, <1>2, <1>3, <1>4, <1>5, <1>6, <1>7

LEMMA RefreshStep ==
  ASSUME NInv, NEW s \in Sessions, Refresh(s)
  PROVE  SafeInv'
<1> USE DEF NInv, SafeInv, Active, histories
<1>0. Moved(s, "resolve")
  BY MovedBy DEF Refresh
<1> USE <1>0 DEF Refresh, Moved
<1>1. LastInv'
  BY DEF LastInv, Fresh
<1>2. SetupInv'
  BY DEF SetupInv
<1>3. SeenInv'
  BY DEF SeenInv, Fresh
<1>4. SyncInv'
  BY DEF SyncInv, Fresh, Installed, Syncing, Synced
<1>5. WriteInv'
  BY DEF WriteInv, Fresh, Synced
<1>6. CacheInv'
  BY DEF CacheInv, Syncing
<1>7. FileInv'
  BY DEF FileInv, Installed
<1> QED BY <1>1, <1>2, <1>3, <1>4, <1>5, <1>6, <1>7

\* A lookup that failed falls back on the cache.
LEMMA ResolveStep ==
  ASSUME NInv, NEW s \in Sessions, ResolveAll(s)
  PROVE  SafeInv'
<1>1. sess[s].pc = "resolve" /\ UNCHANGED <<inst, open, sets, addrs, tuples, file, histories>>
  BY DEF ResolveAll
<1>2. CASE GiveUp(s)
  <2>1. CASE sess[s].task = "setup"
    BY <1>1, <1>2, <2>1, GivenUp, EndedStep DEF NInv
  <2>2. CASE sess[s].task # "setup"
    <3>1. sess[s].task = "refresh"
      BY <2>2 DEF NInv, NTypeOK, SessionType
    <3> QED BY <1>1, <1>2, <2>2, <3>1, GivenUp, PutOffStep DEF NInv, Active
  <2> QED BY <2>1, <2>2
<1>3. CASE ~GiveUp(s)
  <2>1. PICK answer \in Answers :
          LET found == [e \in Names |-> IF answer[e] # {} THEN answer[e] ELSE sess[s].cache[e]]
          IN  IF found = NoAnswers
                THEN GiveUp(s)
                ELSE sess' = [sess EXCEPT ![s].pc = "addrs", ![s].found = found,
                                          ![s].todo = {e \in Names : found[e] # {}}]
    BY DEF ResolveAll
  <2> DEFINE found == [e \in Names |-> IF answer[e] # {} THEN answer[e] ELSE sess[s].cache[e]]
  <2> DEFINE todo == {e \in Names : found[e] # {}}
  <2>2. \A e \in Names : found[e] = {} => sess[s].cache[e] = {}
    OBVIOUS
  <2>3. \A e \in Names : e \notin todo => Installed(found[e], e)
    BY DEF Installed, PairsOf
  <2>4. sess' = [sess EXCEPT ![s].pc = "addrs", ![s].found = found, ![s].todo = todo]
    BY <1>3, <2>1
  <2> HIDE DEF found, todo
  <2>5. /\ \A t \in Sessions \ {s} : sess'[t] = sess[t]
        /\ sess'[s].pc = "addrs" /\ sess'[s].task = sess[s].task
        /\ sess'[s].cache = sess[s].cache /\ sess'[s].found = found
        /\ sess'[s].seen = sess[s].seen /\ sess'[s].seenPairs = sess[s].seenPairs
        /\ sess'[s].todo = todo
    BY <2>4 DEF NInv, NTypeOK, SessionType
  <2> USE <1>1, <2>5 DEF NInv, SafeInv, Active, histories
  <2>11. LastInv'
    BY DEF LastInv, Fresh
  <2>12. SetupInv'
    BY DEF SetupInv
  <2>13. SeenInv'
    BY DEF SeenInv, Fresh
  <2>14. SyncInv'
    BY <2>3 DEF SyncInv, Fresh, Installed, Syncing, Synced
  <2>15. WriteInv'
    BY DEF WriteInv, Fresh, Synced
  <2>16. CacheInv'
    BY <2>2 DEF CacheInv, Syncing
  <2>17. FileInv'
    BY DEF FileInv, Installed
  <2> QED BY <2>11, <2>12, <2>13, <2>14, <2>15, <2>16, <2>17
<1> QED BY <1>2, <1>3

\* Installing the addresses of a name.
LEMMA AddrsStep ==
  ASSUME NInv, NEW s \in Sessions, NEW d \in Names, AllowAddrs(s, d)
  PROVE  SafeInv'
<1> USE DEF NInv, SafeInv, Active
<1>0. /\ \A t \in Sessions \ {s} : sess'[t] = sess[t]
      /\ sess'[s].pc = "pairs" /\ sess'[s].task = sess[s].task
      /\ sess'[s].cache = sess[s].cache /\ sess'[s].found = sess[s].found
      /\ sess'[s].seen = sess[s].seen \cup StaleAddrs(s, d)
      /\ sess'[s].seenPairs = sess[s].seenPairs
      /\ sess'[s].todo = sess[s].todo /\ sess'[s].name = {d}
      /\ sess[s].pc = "addrs" /\ addrs' = addrs \cup StaleAddrs(s, d)
      /\ UNCHANGED <<inst, open, sets, tuples, file, emptied, outdated, writer>>
  BY DEF AllowAddrs, histories, NTypeOK, SessionType
<1>a. Fresh(s) => sess[s].found[d] \subseteq addrs'
  BY <1>0 DEF StaleAddrs, SeenInv
<1> USE <1>0
<1>1. LastInv'
  BY DEF LastInv, Fresh
<1>2. SetupInv'
  BY DEF SetupInv
<1>3. SeenInv'
  BY DEF SeenInv, Fresh
<1>4. SyncInv'
  BY <1>a DEF SyncInv, Fresh, Installed, Syncing, Synced
<1>5. WriteInv'
  BY DEF WriteInv, Fresh, Synced
<1>6. CacheInv'
  BY DEF CacheInv, Syncing
<1>7. FileInv'
  BY DEF FileInv, Installed
<1> QED BY <1>1, <1>2, <1>3, <1>4, <1>5, <1>6, <1>7

\* Installing its pairs.
LEMMA PairsStep ==
  ASSUME NInv, NEW s \in Sessions, NEW d \in Names, AllowPairs(s, d)
  PROVE  SafeInv'
<1> USE DEF NInv, SafeInv, Active
<1>0. /\ \A t \in Sessions \ {s} : sess'[t] = sess[t]
      /\ sess'[s].pc = (IF sess[s].todo = {d} THEN "hosts" ELSE "addrs")
      /\ sess'[s].task = sess[s].task
      /\ sess'[s].cache = sess[s].cache /\ sess'[s].found = sess[s].found
      /\ sess'[s].seen = sess[s].seen
      /\ sess'[s].seenPairs = sess[s].seenPairs \cup StalePairs(s, d)
      /\ sess'[s].todo = sess[s].todo \ {d} /\ sess'[s].name = {}
      /\ sess[s].pc = "pairs" /\ sess[s].name = {d}
      /\ tuples' = tuples \cup StalePairs(s, d)
      /\ UNCHANGED <<inst, open, sets, addrs, file, emptied, outdated, writer>>
  BY DEF AllowPairs, histories, NTypeOK, SessionType
<1>a. Fresh(s) => PairsOf(sess[s].found[d], d) \subseteq tuples'
  BY <1>0 DEF StalePairs, SeenInv
<1>b. Fresh(s) => sess[s].found[d] \subseteq addrs
  BY <1>0 DEF SyncInv
<1> USE <1>0
<1>1. LastInv'
  BY DEF LastInv, Fresh
<1>2. SetupInv'
  BY DEF SetupInv
<1>3. SeenInv'
  BY DEF SeenInv, Fresh
<1>4. SyncInv'
  BY <1>a, <1>b DEF SyncInv, Fresh, Installed, Syncing, Synced
<1>5. WriteInv'
  BY DEF WriteInv, Fresh, Synced
<1>6. CacheInv'
  BY DEF CacheInv, Syncing
<1>7. FileInv'
  BY DEF FileInv, Installed
<1> QED BY <1>1, <1>2, <1>3, <1>4, <1>5, <1>6, <1>7

\* nft or the hosts write failing.
LEMMA FailStep ==
  ASSUME NInv, NEW s \in Sessions, GiveUp(s), sess[s].pc \in {"rules"} \cup Syncing,
         UNCHANGED <<inst, open, sets, addrs, tuples, file, histories>>
  PROVE  SafeInv'
<1>1. CASE sess[s].task = "setup"
  BY <1>1, GivenUp, EndedStep DEF NInv
<1>2. CASE sess[s].task # "setup"
  <2>1. sess[s].task = "refresh"
    BY <1>2 DEF NInv, NTypeOK, SessionType
  <2>2. sess[s].pc \in Syncing
    BY <1>2 DEF NInv, SafeInv, SetupInv
  <2> QED BY <1>2, <2>1, <2>2, GivenUp, PutOffStep DEF NInv, Active, Syncing
<1> QED BY <1>1, <1>2

\* Writing the hosts block: what a fresh process writes has been installed.
LEMMA HostsStep ==
  ASSUME NInv, NEW s \in Sessions, WriteHosts(s)
  PROVE  SafeInv'
<1> USE DEF NInv, SafeInv, Active
<1>0. /\ Moved(s, "save") /\ sess[s].pc = "hosts" /\ file' = sess[s].found /\ writer' = {s}
      /\ UNCHANGED <<inst, open, sets, addrs, tuples, emptied, outdated>>
  BY MovedBy DEF WriteHosts
<1>b. s \notin outdated => \A d \in Names : Installed(sess[s].found[d], d)
  BY <1>0 DEF SyncInv, WriteInv, Fresh, Syncing, Synced
<1>c. \A t \in Sessions \ {s} : Fresh(t) => ~Fresh(s)
  BY DEF LastInv
<1>d. ~Fresh(s) => s \in outdated
  BY <1>0 DEF Fresh
<1> USE <1>0 DEF Moved
<1>1. LastInv'
  BY DEF LastInv, Fresh
<1>2. SetupInv'
  BY DEF SetupInv
<1>3. SeenInv'
  BY DEF SeenInv, Fresh
<1>4. SyncInv'
  BY DEF SyncInv, Fresh, Installed, Syncing, Synced
<1>5. WriteInv'
  BY <1>c, <1>d DEF WriteInv, Fresh, Synced
<1>6. CacheInv'
  BY DEF CacheInv, Syncing
<1>7. FileInv'
  BY <1>b DEF FileInv, Installed
<1> QED BY <1>1, <1>2, <1>3, <1>4, <1>5, <1>6, <1>7

LEMMA SaveStep ==
  ASSUME NInv, NEW s \in Sessions, SaveCache(s)
  PROVE  SafeInv'
<1> USE DEF NInv, SafeInv, Active
<1>0. /\ \A t \in Sessions \ {s} : sess'[t] = sess[t]
      /\ sess'[s].pc = (IF sess[s].task = "setup" THEN "lift" ELSE "idle")
      /\ sess'[s].task = sess[s].task
      /\ sess'[s].cache = sess[s].found /\ sess'[s].found = sess[s].found
      /\ sess'[s].seen = sess[s].seen /\ sess'[s].seenPairs = sess[s].seenPairs
      /\ sess'[s].todo = sess[s].todo /\ sess[s].pc = "save"
      /\ UNCHANGED <<inst, open, sets, addrs, tuples, file, emptied, outdated, writer>>
  BY DEF SaveCache, histories, NTypeOK, SessionType
<1>b. sess[s].task \in {"setup", "refresh"}
  BY DEF NTypeOK, SessionType
<1>a. writer = {s} => file = sess[s].found
  BY <1>0 DEF WriteInv
<1> USE <1>0, <1>b
<1>1. LastInv'
  BY DEF LastInv, Fresh
<1>2. SetupInv'
  BY DEF SetupInv
<1>3. SeenInv'
  BY DEF SeenInv, Fresh
<1>4. SyncInv'
  BY DEF SyncInv, Fresh, Installed, Syncing, Synced
<1>5. WriteInv'
  BY DEF WriteInv, Fresh, Synced
<1>6. CacheInv'
  BY <1>a DEF CacheInv, Syncing
<1>7. FileInv'
  BY DEF FileInv, Installed
<1> QED BY <1>1, <1>2, <1>3, <1>4, <1>5, <1>6, <1>7

\* The end of a session, which may delete the container and its rules.
LEMMA CleanupStep ==
  ASSUME NInv, NEW s \in Sessions, Cleanup(s)
  PROVE  SafeInv'
<1>0. Ended(s) /\ UNCHANGED open
  BY EndedBy DEF Cleanup, NInv
<1>1. CASE UNCHANGED <<inst, sets, addrs, tuples, file, histories>>
  BY <1>0, <1>1, EndedStep DEF NInv
<1>2. CASE ~UNCHANGED <<inst, sets, addrs, tuples, file, histories>>
  <2> USE NoSessionFields DEF NInv, SafeInv
  <2>0. /\ emptied' = TRUE /\ outdated' = {t \in Sessions \ {s} : Active(t)} /\ writer' = {}
    BY <1>2 DEF Cleanup, Empties
  <2>a. \A t \in Sessions : ~Fresh(t)'
    BY <1>0, <2>0 DEF Fresh, Ended, Active
  <2>b. \A t \in Sessions : writer' # {t}
    BY <2>0
  <2>1. LastInv'
    BY <2>a DEF LastInv
  <2>2. SetupInv'
    BY <1>0 DEF SetupInv, Active, Ended
  <2>3. SeenInv'
    BY <2>a DEF SeenInv
  <2>4. SyncInv'
    BY <2>a DEF SyncInv
  <2>5. WriteInv'
    BY <1>0, <2>a, <2>b DEF WriteInv, Ended, Synced
  <2>6. CacheInv'
    BY <2>b DEF CacheInv
  <2>7. FileInv'
    BY <2>0 DEF FileInv
  <2> QED BY <2>1, <2>2, <2>3, <2>4, <2>5, <2>6, <2>7
<1> QED BY <1>1, <1>2

LEMMA PowerOffStep ==
  ASSUME NInv, NPowerOff
  PROVE  SafeInv'
<1> USE DEF NInv, SafeInv, Active, NPowerOff, histories
<1>1. LastInv'
  BY DEF LastInv, Fresh
<1>2. SetupInv'
  BY DEF SetupInv
<1>3. SeenInv'
  BY DEF SeenInv, Fresh
<1>4. SyncInv'
  BY DEF SyncInv, Fresh, Installed, Syncing, Synced
<1>5. WriteInv'
  BY DEF WriteInv, Fresh, Synced
<1>6. CacheInv'
  BY DEF CacheInv, Syncing
<1>7. FileInv'
  BY DEF FileInv, Installed
<1> QED BY <1>1, <1>2, <1>3, <1>4, <1>5, <1>6, <1>7

\* The invariant is inductive.
LEMMA SafeStep == NInv /\ [NNext]_nvars => SafeInv'
<1> SUFFICES ASSUME NInv, [NNext]_nvars PROVE SafeInv'
  OBVIOUS
<1>1. ASSUME NEW s \in Sessions, SetupStep(s) PROVE SafeInv'
  <2>1. CASE ApplyAllowlistFails(s)
    BY <2>1, FailStep DEF ApplyAllowlistFails
  <2> QED BY <1>1, <2>1, BootStep, ReenterStep, PurgeStep, RulesStep, LoadStep, LiftStep DEF SetupStep
<1>2. ASSUME NEW s \in Sessions, SyncStep(s) PROVE SafeInv'
  <2>1. ASSUME NEW d \in Names, AllowFails(s, d) PROVE SafeInv'
    BY <2>1, FailStep DEF AllowFails, Syncing
  <2>2. CASE WriteHostsFails(s)
    BY <2>2, FailStep DEF WriteHostsFails, Syncing
  <2> QED BY <1>2, <2>1, <2>2, RefreshStep, ResolveStep, AddrsStep, PairsStep, HostsStep, SaveStep DEF SyncStep
<1>3. ASSUME NEW s \in Sessions, Crash(s) PROVE SafeInv'
  BY <1>3, EndedBy, EndedStep DEF Crash, NInv
<1>4. CASE UNCHANGED nvars
  BY <1>4 DEF nvars, NInv, SafeInv, LastInv, SetupInv, SeenInv, SyncInv, WriteInv, CacheInv, FileInv, Fresh, Active, Installed
<1> QED BY <1>1, <1>2, <1>3, <1>4, CleanupStep, PowerOffStep DEF NNext

\* Initially there is no process and no container.
LEMMA SafeInit == NInit => NInv
<1> SUFFICES ASSUME NInit PROVE NInv
  OBVIOUS
<1>1. NTypeOK
  BY NoAnswersType, NoSessionType DEF NInit, NTypeOK
<1>2. \A s \in Sessions : sess[s] = NoSession
  BY DEF NInit
<1>3. SafeInv
  BY <1>2, NoSessionFields DEF NInit, SafeInv, LastInv, SetupInv, SeenInv, SyncInv, WriteInv, CacheInv, FileInv, Fresh, Active, Syncing, Synced
<1> QED BY <1>1, <1>3 DEF NInv

LEMMA Inductive == NSpec => []NInv
<1>1. NInv /\ [NNext]_nvars => NInv'
  BY TypeStep, SafeStep DEF NInv
<1> QED BY <1>1, SafeInit, PTL DEF NSpec

\* The hosts block never names an address the firewall of an open container
\* does not have, whatever fails and however many processes manage it at once,
\* unless one wrote it whose record another's purge had falsified
\* (manager.go: syncResolved, purgeStaleRulesForIP).
THEOREM LockstepAlways == NSpec => []Lockstep
<1>1. NInv => Lockstep
  BY DEF NInv, SafeInv, FileInv, Lockstep, Installed
<1> QED BY <1>1, Inductive, PTL

\* What a refresh writes keeps every name that the block has, when the process
\* wrote that block itself (manager.go: refreshAllowedIPs; resolver.go:
\* ResolveAll).
THEOREM RefreshKeepsNames == NSpec => NamesKept
<1>1. NInv => \A s \in Sessions, d \in Names :
               WriteHosts(s) /\ sess[s].task = "refresh" /\ writer = {s} /\ file[d] # {} => file'[d] # {}
  BY DEF NInv, SafeInv, CacheInv, WriteHosts, Syncing
<1> QED BY <1>1, Inductive, PTL DEF NSpec, NamesKept

-----------------------------------------------------------------------------
(* Egress: the invariant.                                                   *)

RuleType == [dsts : SUBSET (Addresses \cup {Bridge}), svcs : SUBSET Services,
             set : {"any", "boot", "tuples", "addresses"}, act : {"accept", "reject"}]
NetType == [chain : Seq(RuleType), input : BOOLEAN, listed : BOOLEAN, addresses : SUBSET Addresses,
            tuples : SUBSET Packets, block : SUBSET (Addresses \X STRING)]
Modes == {"open", "restricted", "allowlist"}
ReqType == [pc : {"idle", "open", "read", "write", "drop"}, entry : Entry \cup {"none"},
            mode : Modes \cup {"none"}, cap : SUBSET L4, read : SUBSET (Addresses \X STRING)]

\* The commands of a setup, and what they act on.
Verbs == {"purge", "add", "insert", "blockInput", "sets", "addresses", "tuples", "names", "lift",
          "none", "refuse"}
Args == RuleType \cup (SUBSET Packets) \cup (SUBSET Addresses) \cup (SUBSET (Addresses \X STRING))
CommandType == [do : Verbs, arg : Args]

EgressTyped ==
  /\ network \in Configs \cup Mixed /\ plan \in Seq(CommandType) /\ net \in NetType /\ req \in [Callers -> ReqType]
  /\ phase \in {"setup", "up", "failed", "stopped"} /\ opened \subseteq Packets
  /\ \A c \in Callers : /\ req[c].pc \in {"open", "read", "write"} => req[c].entry \in Entry
                        /\ req[c].pc = "open" => req[c].mode \in Modes

\* A rule that lets one address through, and what a rule lets through.
Grants == {Accept({d}, s) : d \in Private, s \in SUBSET Services}
Through(r) == [dst : r.dsts, svc : r.svcs]
AddsAt(c) == {i \in DOMAIN Setup(c) : Setup(c)[i].do = "add"}

\* The chain begins with m grants, all of them in A, and, if b = 1, the block.
Fronted(ch, A, m, b) ==
  /\ m \in Nat /\ m + b <= Len(ch)
  /\ \A i \in 1..m : ch[i] \in Grants /\ Through(ch[i]) \subseteq A
  /\ b = 1 => ch[m + 1] = BootBlock
\* Made its first k rules come those of the first d commands of the setup;
\* open mode may lack some.
Policed(c, ch, k, d) ==
  IF c.mode = "open"
  THEN \A i \in k + 1..Len(ch) : ch[i] # BootBlock /\ ch[i].act = "accept"
  ELSE /\ Len(ch) = k + Rank(AddsAt(c), d)
       /\ \A i \in AddsAt(c) : i <= d => ch[k + Rank(AddsAt(c), i)] = Setup(c)[i].arg
\* The sets hold what the first d commands of the setup and O put there.
Stocked(c, n, O, d) ==
  /\ n.listed <=> \E i \in 1..d : Setup(c)[i].do = "sets"
  /\ n.input <=> \E i \in 1..d : Setup(c)[i].do = "blockInput"
  /\ ~n.listed => n.tuples = {} /\ n.addresses = {}
  /\ \A i \in 1..d : /\ Setup(c)[i].do = "tuples" => Setup(c)[i].arg \subseteq n.tuples
                     /\ Setup(c)[i].do = "addresses" => Setup(c)[i].arg \subseteq n.addresses
                     /\ Setup(c)[i].do # "refuse"
  /\ \A t \in n.tuples : t \in O \/ \E i \in 1..d : Setup(c)[i].do = "tuples" /\ t \in Setup(c)[i].arg
  /\ \A a \in n.addresses : \/ [dst |-> a, svc |-> "echo"] \in O
                            \/ \E i \in 1..d : Setup(c)[i].do = "addresses" /\ a \in Setup(c)[i].arg

\* How many commands of the setup are done.
Total == Len(Setup(network))
Done == IF phase = "setup" THEN Total - Len(plan) ELSE IF phase = "up" THEN Total ELSE 0
PlanInv == phase = "setup" =>
  /\ plan # <<>> /\ Len(plan) <= Total
  /\ \A i \in DOMAIN plan : plan[i] = Setup(network)[Done + i]

\* What the first rules of the chain let through was asked for, except what a
\* command of the session before let through, until the setup removes it.
Left == "crossed" \in flaws /\ phase # "up" /\ Done = 0
Allowed == IF Left THEN Packets ELSE AskedBy(network) \cup opened

\* The chain in each phase; m rules at its front were inserted by host entries.
Shaped(ph, c, ch, A, d, m) ==
  CASE ph = "setup" -> Fronted(ch, A, m, 1) /\ Policed(c, ch, m + 1, d)
    [] ph = "up" -> Fronted(ch, A, m, 0) /\ Policed(c, ch, m, d)
    [] ph = "failed" -> Fronted(ch, A, m, 1)
    [] ph = "stopped" -> m = Len(ch) /\ Fronted(ch, Packets, m, 0)
ChainInv == \E m \in Nat : Shaped(phase, network, net.chain, Allowed, Done, m)

SetsInv == phase # "failed" => Stocked(network, net, opened, Done)

BoundInv == network.mode = "allowlist" /\ flaws \cap {"blind", "early", "crossed"} = {} =>
  /\ \A c \in Callers : req[c].pc = "open" => req[c].mode = "allowlist"
  /\ \A p \in opened : p.dst \in Public

EgressInv == EgressTyped /\ PlanInv /\ ChainInv /\ SetsInv /\ BoundInv

-----------------------------------------------------------------------------
(* The commands of a setup.                                                 *)

\* A command of a setup under c between its first and its last.
Fits(c, x) ==
  /\ x.do \notin {"purge", "lift"}
  /\ x.do = "add" => /\ x.arg \in RuleType /\ x.arg.set # "boot"
                     /\ c.mode = "open" => x.arg.act = "accept"
  /\ x.do = "insert" => x.arg \in Grants
  /\ x.do \in {"insert", "tuples", "addresses"} =>
       Opens(x) \subseteq AskedBy(c) \/ (c.mode = "allowlist" /\ x.do # "insert")
  /\ x.do = "tuples" => x.arg \subseteq Packets
  /\ x.do = "addresses" => x.arg \subseteq Addresses
  /\ x.do = "names" => x.arg \subseteq Addresses \X STRING
  /\ x.do \in {"sets", "blockInput"} => c.mode = "allowlist"
  /\ x.do = "tuples" => \A p \in x.arg :
       p \in AskedBy(c) \/ p \in Tuples(c.literals \cup c.resolved, c.ports)
  /\ x.do = "addresses" => \A a \in x.arg :
       \/ [dst |-> a, svc |-> "echo"] \in AskedBy(c)
       \/ \E t \in c.literals \cup c.resolved : t.dst = a
Fitting(c) == {x \in CommandType : Fits(c, x)}

LEMMA CommandHolds ==
  ASSUME NEW do, NEW arg
  PROVE  Command(do, arg).do = do /\ Command(do, arg).arg = arg /\ Command(do, arg) = [do |-> do, arg |-> arg]
BY DEF Command

\* The services s of one address.
Via(a, s) == [dst : {a}, svc : s]

LEMMA TuplesHold ==
  ASSUME NEW ts, NEW cap
  PROVE  \A p : p \in Tuples(ts, cap) <=> \E t \in ts : p \in Via(t.dst, PortsOf(t.ports, cap))
BY DEF Tuples, Via

LEMMA PortsHold ==
  ASSUME NEW ports \in SUBSET L4, NEW cap \in SUBSET L4
  PROVE  PortsOf(ports, cap) \subseteq L4 /\ PortsOf(ports, cap) \subseteq Services
         /\ Scope(ports, cap) \subseteq Services
BY DEF PortsOf, Scope, Services

\* What the sets get for some targets.
LEMMA InSetsHold ==
  ASSUME NEW ts, NEW cap \in SUBSET L4, ts \subseteq Target
  PROVE  /\ Tuples(ts, cap) \subseteq Packets /\ {t.dst : t \in ts} \subseteq Addresses
         /\ InSets(ts, cap) = IF ts = {} THEN <<>> ELSE
              <<Command("addresses", {t.dst : t \in ts}), Command("tuples", Tuples(ts, cap))>>
<1>1. ASSUME NEW t \in ts
      PROVE  t.dst \in Addresses /\ PortsOf(t.ports, cap) \subseteq Services
  BY PortsHold DEF Target
<1>2. ASSUME NEW p \in Tuples(ts, cap) PROVE p \in Packets
  <2>1. PICK t \in ts : p \in Via(t.dst, PortsOf(t.ports, cap))
    BY TuplesHold
  <2> QED  BY <1>1, <2>1 DEF Packets, Via
<1>3. {t.dst : t \in ts} \subseteq Addresses
  BY <1>1
<1>4. InSets(ts, cap) = IF ts = {} THEN <<>> ELSE
        <<Command("addresses", {t.dst : t \in ts}), Command("tuples", Tuples(ts, cap))>>
  BY DEF InSets, When
<1> QED  BY <1>2, <1>3, <1>4

\* The calls that open a destination.
Calls(mode, o) ==
  \/ o = <<>>
  \/ mode = "restricted" /\ \E r \in Grants : o = <<Command("insert", r)>>
  \/ /\ mode = "allowlist"
     /\ \E a \in Public : \E s \in SUBSET L4 :
          o = <<Command("addresses", {a}), Command("tuples", Via(a, s))>>

\* What opens a destination to a host entry.
LEMMA OpeningHolds ==
  ASSUME NEW mode, NEW e \in Entry, NEW cap \in SUBSET L4, NEW o, o = Opening(mode, e, cap)
  PROVE  Calls(mode, o)
<1>1. e.dst \in Addresses /\ e.ports \in SUBSET L4
  BY DEF Entry
<1>2. CASE mode = "allowlist" /\ e.dst \in Public
  <2>0. PICK t : t = [dst |-> e.dst, ports |-> e.ports]
    OBVIOUS
  <2>1. o = InSets({t}, cap)
    BY <1>2, <2>0 DEF Opening
  <2>2. {u.dst : u \in {t}} = {e.dst}
    BY <2>0
  <2>6. \A p : p \in Tuples({t}, cap) <=> \E u \in {t} : p \in Via(u.dst, PortsOf(u.ports, cap))
    BY TuplesHold
  <2>3. \A p : p \in Tuples({t}, cap) <=> p \in Via(e.dst, PortsOf(e.ports, cap))
    BY <2>0, <2>6
  <2>4. Tuples({t}, cap) = Via(e.dst, PortsOf(e.ports, cap))
    BY <2>3
  <2>5. o = <<Command("addresses", {e.dst}), Command("tuples", Tuples({t}, cap))>>
    BY <2>1, <2>2 DEF InSets, When
  <2> QED  BY <1>1, <1>2, <2>4, <2>5, PortsHold DEF Calls
<1>3. CASE mode = "restricted" /\ e.dst \in Private
  <2>1. Scope(e.ports, cap) \in SUBSET Services
    BY <1>1, PortsHold
  <2>2. Accept({e.dst}, Scope(e.ports, cap)) \in Grants
    <3>1. \A d \in Private : \A s \in SUBSET Services : Accept({d}, s) \in Grants
      BY DEF Grants
    <3> QED  BY <1>3, <2>1, <3>1
  <2> QED  BY <1>3, <2>2 DEF Opening, Calls
<1>4. CASE ~(mode = "allowlist" /\ e.dst \in Public) /\ ~(mode = "restricted" /\ e.dst \in Private)
  BY <1>4 DEF Opening, Calls
<1> QED  BY <1>2, <1>3, <1>4

\* A granted rule is a rule and lets through what it opens.
LEMMA GrantHolds ==
  ASSUME NEW r \in Grants
  PROVE  /\ r \in RuleType /\ r.set = "any" /\ r.act = "accept" /\ r # BootBlock
         /\ Through(r) \subseteq Packets
<1>1. PICK d \in Private, s \in SUBSET Services : r = Accept({d}, s)
  BY DEF Grants
<1>2. r = [dsts |-> {d}, svcs |-> s, set |-> "any", act |-> "accept"]
  BY <1>1 DEF Accept, Rule
<1>3. {d} \subseteq Addresses
  BY DEF Addresses
<1>4. r \in RuleType
  BY <1>2, <1>3 DEF RuleType
<1>5. BootBlock.set = "boot"
  BY DEF BootBlock, Rule
<1>6. Through(r) \subseteq Packets
  BY <1>2, <1>3 DEF Packets, Through
<1> QED  BY <1>2, <1>4, <1>5, <1>6

\* The calls for the host entries of a configuration.
LEMMA CallHolds ==
  ASSUME NEW c \in ConfigType, NEW i \in 1..2 * Len(c.hosts)
  PROVE  /\ Call(c, i) \in Fitting(c) /\ Call(c, i).do \in {"insert", "addresses", "tuples", "none"}
         /\ Opens(Call(c, i)) \subseteq AskedBy(c)
         /\ c.mode = "allowlist" => \A p \in Opens(Call(c, i)) : p.dst \in Public
<1> DEFINE x == Call(c, i)
<1>1. /\ c.hosts \in Seq(Entry) /\ c.ports \in SUBSET L4
      /\ (i + 1) \div 2 \in DOMAIN c.hosts /\ 2 - (i % 2) \in {1, 2}
  <2>1. PICK n \in Nat : n = Len(c.hosts) /\ c.hosts \in Seq(Entry)
    BY DEF ConfigType
  <2>2. \A m \in 1..2 * n : (m + 1) \div 2 \in 1..n /\ 2 - (m % 2) \in {1, 2}
    OBVIOUS
  <2> QED  BY <2>1, <2>2 DEF ConfigType
<1>2. PICK e \in Entry : e = c.hosts[(i + 1) \div 2]
  BY <1>1
<1>3. PICK n \in {1, 2} : n = 2 - (i % 2)
  BY <1>1
<1>4. PICK o : o = Opening(c.mode, e, c.ports)
  OBVIOUS
<1>5. x = IF n <= Len(o) THEN o[n] ELSE Command("none", {})
  BY <1>2, <1>3, <1>4 DEF Call
<1>6. Opens(x) \subseteq AskedBy(c)
  BY DEF AskedBy
<1> HIDE DEF x
<1>7. \/ x = Command("none", {})
      \/ c.mode = "restricted" /\ \E r \in Grants : x = Command("insert", r)
      \/ c.mode = "allowlist" /\ \E a \in Public : x = Command("addresses", {a})
      \/ c.mode = "allowlist" /\ \E a \in Public : \E s \in SUBSET L4 : x = Command("tuples", Via(a, s))
  <2>1. CASE o = <<>>
    BY <1>5, <2>1
  <2>2. ASSUME c.mode = "restricted", NEW r \in Grants, o = <<Command("insert", r)>>
        PROVE  x = Command("none", {}) \/ \E q \in Grants : x = Command("insert", q)
    BY <1>5, <2>2
  <2>3. ASSUME c.mode = "allowlist", NEW a \in Public, NEW s \in SUBSET L4,
               o = <<Command("addresses", {a}), Command("tuples", Via(a, s))>>
        PROVE  \/ \E b \in Public : x = Command("addresses", {b})
               \/ \E b \in Public : \E q \in SUBSET L4 : x = Command("tuples", Via(b, q))
    <3>1. x = Command("addresses", {a}) \/ x = Command("tuples", Via(a, s))
      BY <1>5, <2>3
    <3> QED  BY <3>1
  <2>4. Calls(c.mode, o)
    BY <1>1, <1>4, OpeningHolds
  <2>5. CASE c.mode = "restricted" /\ \E r \in Grants : o = <<Command("insert", r)>>
    BY <2>2, <2>5
  <2>6. CASE c.mode = "allowlist" /\ \E a \in Public : \E s \in SUBSET L4 :
               o = <<Command("addresses", {a}), Command("tuples", Via(a, s))>>
    BY <2>3, <2>6
  <2> QED  BY <2>1, <2>4, <2>5, <2>6 DEF Calls
<1>8. /\ x \in Fitting(c) /\ x.do \in {"insert", "addresses", "tuples", "none"}
      /\ c.mode = "allowlist" => \A p \in Opens(x) : p.dst \in Public
  <2>1. CASE x = Command("none", {})
    BY <2>1, CommandHolds DEF Verbs, Args, Fits, Fitting, CommandType, Opens
  <2>2. ASSUME c.mode = "restricted", NEW r \in Grants, x = Command("insert", r)
        PROVE  x \in Fitting(c) /\ x.do = "insert" /\ c.mode # "allowlist"
    <3>1. x = [do |-> "insert", arg |-> r]
      BY <2>2, CommandHolds
    <3> QED  BY <1>6, <2>2, <3>1, GrantHolds DEF Verbs, Args, Fits, Fitting, CommandType
  <2>3. ASSUME c.mode = "allowlist", NEW a \in Public, x = Command("addresses", {a})
        PROVE  x \in Fitting(c) /\ x.do = "addresses" /\ \A p \in Opens(x) : p.dst \in Public
    <3>1. x = [do |-> "addresses", arg |-> {a}] /\ {a} \subseteq Addresses
      BY <2>3, CommandHolds DEF Addresses
    <3>2. Opens(x) = Via(a, {"echo"})
      BY <3>1 DEF Opens, Via
    <3>3. [dst |-> a, svc |-> "echo"] \in AskedBy(c) /\ \A p \in Opens(x) : p.dst \in Public
      BY <1>6, <3>2 DEF Via
    <3>4. x \in CommandType
      BY <3>1 DEF Verbs, Args, CommandType
    <3>5. Fits(c, x)
      BY <1>6, <3>1, <3>3 DEF Fits
    <3> QED  BY <3>1, <3>3, <3>4, <3>5 DEF Fitting
  <2>4. ASSUME c.mode = "allowlist", NEW a \in Public, NEW s \in SUBSET L4,
               x = Command("tuples", Via(a, s))
        PROVE  x \in Fitting(c) /\ x.do = "tuples" /\ \A p \in Opens(x) : p.dst \in Public
    <3>1. x = [do |-> "tuples", arg |-> Via(a, s)]
      BY <2>4, CommandHolds
    <3>2. Opens(x) = Via(a, s)
      BY <3>1 DEF Opens, Via
    <3>3. Via(a, s) \subseteq Packets
      BY DEF Packets, Addresses, Services, Via
    <3>4. \A p \in Opens(x) : p.dst \in Public
      BY <3>2 DEF Via
    <3>5. x \in CommandType
      BY <3>1, <3>3 DEF Verbs, Args, CommandType
    <3>6. Fits(c, x)
      BY <1>6, <3>1, <3>2, <3>3 DEF Fits
    <3> QED  BY <3>1, <3>4, <3>5, <3>6 DEF Fitting
  <2> QED  BY <1>7, <2>1, <2>2, <2>3, <2>4
<1> QED  BY <1>6, <1>8 DEF x

-----------------------------------------------------------------------------
(* What a sequence of commands says of a packet: its first rule that        *)
(* matches, if one does.                                                    *)

Hits(x, p) == x.do = "add" /\ Matches(x.arg, p)
Says(s, p, a) ==
  IF a = "nothing" THEN \A i \in DOMAIN s : ~Hits(s[i], p)
  ELSE \E i \in DOMAIN s : /\ Hits(s[i], p) /\ s[i].arg.act = a
                           /\ \A j \in DOMAIN s : j < i => ~Hits(s[j], p)
Has(s, x) == \E i \in DOMAIN s : s[i] = x

LEMMA Joined ==
  ASSUME NEW S, NEW s \in Seq(S), NEW t \in Seq(S)
  PROVE  /\ s \o t \in Seq(S) /\ Len(s \o t) = Len(s) + Len(t)
         /\ \A i \in DOMAIN s : i \in DOMAIN (s \o t) /\ (s \o t)[i] = s[i] /\ i <= Len(s)
         /\ \A i \in DOMAIN t : Len(s) + i \in DOMAIN (s \o t) /\ (s \o t)[Len(s) + i] = t[i]
         /\ \A k \in DOMAIN (s \o t) : \/ k \in DOMAIN s /\ (s \o t)[k] = s[k]
                                       \/ k > Len(s) /\ k - Len(s) \in DOMAIN t /\ (s \o t)[k] = t[k - Len(s)]
OBVIOUS

LEMMA SaysJoined ==
  ASSUME NEW S, NEW s \in Seq(S), NEW t \in Seq(S), NEW p, NEW a, NEW b, Says(s, p, a), Says(t, p, b)
  PROVE  Says(s \o t, p, IF a = "nothing" THEN b ELSE a)
<1> DEFINE st == s \o t
<1>1. /\ \A i \in DOMAIN s : i \in DOMAIN st /\ st[i] = s[i] /\ i <= Len(s)
      /\ \A i \in DOMAIN t : Len(s) + i \in DOMAIN st /\ st[Len(s) + i] = t[i]
      /\ \A k \in DOMAIN st : \/ k \in DOMAIN s /\ st[k] = s[k]
                              \/ k > Len(s) /\ k - Len(s) \in DOMAIN t /\ st[k] = t[k - Len(s)]
      /\ Len(s) \in Nat /\ DOMAIN s \subseteq Nat /\ DOMAIN t \subseteq Nat /\ DOMAIN st \subseteq Nat
  BY Joined
<1> HIDE DEF st
<1>2. CASE a = "nothing"
  <2>1. \A i \in DOMAIN s : ~Hits(s[i], p)
    BY <1>2 DEF Says
  <2>2. CASE b = "nothing"
    <3>1. \A i \in DOMAIN t : ~Hits(t[i], p)
      BY <2>2 DEF Says
    <3>2. \A k \in DOMAIN st : ~Hits(st[k], p)
      BY <1>1, <2>1, <3>1
    <3> QED  BY <1>2, <2>2, <3>2 DEF Says, st
  <2>3. CASE b # "nothing"
    <3>1. PICK i \in DOMAIN t : /\ Hits(t[i], p) /\ t[i].arg.act = b
                                /\ \A j \in DOMAIN t : j < i => ~Hits(t[j], p)
      BY <2>3 DEF Says
    <3>2. Len(s) + i \in DOMAIN st /\ st[Len(s) + i] = t[i]
      BY <1>1
    <3>3. ASSUME NEW k \in DOMAIN st, k < Len(s) + i PROVE ~Hits(st[k], p)
      <4>1. CASE k \in DOMAIN s /\ st[k] = s[k]
        BY <2>1, <4>1
      <4>2. CASE k > Len(s) /\ k - Len(s) \in DOMAIN t /\ st[k] = t[k - Len(s)]
        <5>1. k - Len(s) < i
          BY <1>1, <3>3
        <5> QED  BY <3>1, <4>2, <5>1
      <4> QED  BY <1>1, <4>1, <4>2
    <3>4. \E k \in DOMAIN st : /\ Hits(st[k], p) /\ st[k].arg.act = b
                               /\ \A j \in DOMAIN st : j < k => ~Hits(st[j], p)
      BY <3>1, <3>2, <3>3
    <3> QED  BY <1>2, <2>3, <3>4 DEF Says, st
  <2> QED  BY <2>2, <2>3
<1>3. CASE a # "nothing"
  <2>1. PICK i \in DOMAIN s : /\ Hits(s[i], p) /\ s[i].arg.act = a
                              /\ \A j \in DOMAIN s : j < i => ~Hits(s[j], p)
    BY <1>3 DEF Says
  <2>2. i \in DOMAIN st /\ st[i] = s[i] /\ i <= Len(s)
    BY <1>1
  <2>3. ASSUME NEW k \in DOMAIN st, k < i PROVE ~Hits(st[k], p)
    <3>1. k \in DOMAIN s /\ st[k] = s[k]
      BY <1>1, <2>2, <2>3
    <3> QED  BY <2>1, <2>3, <3>1
  <2>4. \E k \in DOMAIN st : /\ Hits(st[k], p) /\ st[k].arg.act = a
                             /\ \A j \in DOMAIN st : j < k => ~Hits(st[j], p)
    BY <2>1, <2>2, <2>3
  <2> QED  BY <1>3, <2>4 DEF Says, st
<1> QED  BY <1>2, <1>3

LEMMA SaysKept ==
  ASSUME NEW S, NEW s \in Seq(S), NEW t \in Seq(S), NEW p, NEW a, a # "nothing", Says(s, p, a)
  PROVE  Says(s \o t, p, a)
<1> DEFINE st == s \o t
<1>1. /\ \A i \in DOMAIN s : i \in DOMAIN st /\ st[i] = s[i] /\ i <= Len(s)
      /\ \A k \in DOMAIN st : (k \in DOMAIN s /\ st[k] = s[k]) \/ k > Len(s)
      /\ Len(s) \in Nat /\ DOMAIN s \subseteq Nat /\ DOMAIN st \subseteq Nat
  BY Joined
<1>2. PICK i \in DOMAIN s : Hits(s[i], p) /\ s[i].arg.act = a /\ \A j \in DOMAIN s : j < i => ~Hits(s[j], p)
  BY DEF Says
<1> HIDE DEF st
<1>3. ASSUME NEW k \in DOMAIN st, k < i PROVE ~Hits(st[k], p)
  <2>1. k \in DOMAIN s /\ st[k] = s[k]
    BY <1>1, <1>3
  <2> QED  BY <1>2, <1>3, <2>1
<1>4. \E k \in DOMAIN st : Hits(st[k], p) /\ st[k].arg.act = a /\ \A j \in DOMAIN st : j < k => ~Hits(st[j], p)
  BY <1>1, <1>2, <1>3
<1> QED  BY <1>4 DEF Says, st

LEMMA HasJoined ==
  ASSUME NEW S, NEW s \in Seq(S), NEW t \in Seq(S), NEW x, Has(s, x) \/ Has(t, x)
  PROVE  Has(s \o t, x)
<1>1. CASE Has(s, x)
  <2>1. PICK i \in DOMAIN s : s[i] = x
    BY <1>1 DEF Has
  <2>2. i \in DOMAIN (s \o t) /\ (s \o t)[i] = s[i]
    BY Joined
  <2> QED  BY <2>1, <2>2 DEF Has
<1>2. CASE Has(t, x)
  <2>1. PICK i \in DOMAIN t : t[i] = x
    BY <1>2 DEF Has
  <2>2. Len(s) + i \in DOMAIN (s \o t) /\ (s \o t)[Len(s) + i] = t[i]
    BY Joined
  <2> QED  BY <2>1, <2>2 DEF Has
<1> QED  BY <1>1, <1>2

\* Rules that a policy adds.
Policies == {r \in RuleType : r.set # "boot"}

LEMMA AddsSeq ==
  ASSUME NEW s \in Seq(Policies)
  PROVE  Adds(s) \in Seq({Command("add", r) : r \in Policies})
<1>1. Adds(s) = [i \in 1..Len(s) |-> Command("add", s[i])] /\ Len(s) \in Nat
  BY DEF Adds
<1>2. \A i \in 1..Len(s) : s[i] \in Policies
  OBVIOUS
<1> QED  BY <1>1, <1>2

LEMMA AddsJoined ==
  ASSUME NEW s \in Seq(Policies), NEW t \in Seq(Policies)
  PROVE  Adds(s \o t) = Adds(s) \o Adds(t)
<1> DEFINE st == s \o t
           aa == Adds(s) \o Adds(t)
<1>1. /\ st \in Seq(Policies) /\ DOMAIN st = 1..Len(s) + Len(t)
      /\ \A k \in DOMAIN st : st[k] = IF k <= Len(s) THEN s[k] ELSE t[k - Len(s)]
  OBVIOUS
<1>2. /\ Adds(s) = [i \in 1..Len(s) |-> Command("add", s[i])] /\ Len(Adds(s)) = Len(s)
      /\ Adds(t) = [i \in 1..Len(t) |-> Command("add", t[i])] /\ Len(Adds(t)) = Len(t)
      /\ Len(s) \in Nat /\ Len(t) \in Nat
  BY DEF Adds
<1>3. \E S : Adds(s) \in Seq(S) /\ Adds(t) \in Seq(S)
  <2>1. Adds(s) \in Seq({Command("add", r) : r \in Policies}) /\ Adds(t) \in Seq({Command("add", r) : r \in Policies})
    BY AddsSeq
  <2> QED  BY <2>1
<1>4. aa = [k \in 1..Len(s) + Len(t) |-> IF k <= Len(s) THEN Adds(s)[k] ELSE Adds(t)[k - Len(s)]]
  <2>1. PICK S : Adds(s) \in Seq(S) /\ Adds(t) \in Seq(S)
    BY <1>3
  <2> QED  BY <1>2, <2>1
<1>5. Adds(st) = [k \in 1..Len(s) + Len(t) |-> Command("add", st[k])]
  BY <1>1 DEF Adds
<1>6. ASSUME NEW k \in 1..Len(s) + Len(t)
      PROVE  (IF k <= Len(s) THEN Adds(s)[k] ELSE Adds(t)[k - Len(s)]) = Command("add", st[k])
  <2>1. k <= Len(s) => k \in 1..Len(s)
    BY <1>2
  <2>2. ~(k <= Len(s)) => k - Len(s) \in 1..Len(t)
    BY <1>2
  <2> QED  BY <1>1, <1>2, <2>1, <2>2
<1> QED  BY <1>4, <1>5, <1>6

LEMMA AddsHold ==
  ASSUME NEW c, NEW s \in Seq(Policies), c.mode = "open" => \A i \in DOMAIN s : s[i].act = "accept"
  PROVE  Adds(s) \in Seq(Fitting(c))
<1>1. Adds(s) = [i \in 1..Len(s) |-> Command("add", s[i])]
  BY DEF Adds
<1>2. ASSUME NEW i \in 1..Len(s) PROVE Command("add", s[i]) \in Fitting(c)
  <2>1. PICK r \in Policies : r = s[i]
    OBVIOUS
  <2>2. r \in RuleType /\ r.set # "boot" /\ (c.mode = "open" => r.act = "accept")
    BY <2>1 DEF Policies
  <2>3. Command("add", r) = [do |-> "add", arg |-> r]
    BY CommandHolds
  <2> QED  BY <2>1, <2>2, <2>3 DEF Fitting, CommandType, Fits, Verbs, Args
<1> QED  BY <1>1, <1>2

-----------------------------------------------------------------------------
(* What the rules of a policy say.                                          *)

Verdict(s, p, a) == s \in Seq(Policies) /\ Says(Adds(s), p, a)
First(a, b) == IF a = "nothing" THEN b ELSE a
If(condition, a) == IF condition THEN a ELSE "nothing"

LEMMA VerdictJoined ==
  ASSUME NEW p, NEW s, NEW t, NEW a, NEW b, Verdict(s, p, a), Verdict(t, p, b)
  PROVE  Verdict(s \o t, p, First(a, b))
<1>1. s \in Seq(Policies) /\ t \in Seq(Policies) /\ Says(Adds(s), p, a) /\ Says(Adds(t), p, b)
  BY DEF Verdict
<1>2. s \o t \in Seq(Policies)
  BY <1>1
<1>3. PICK S : Adds(s) \in Seq(S) /\ Adds(t) \in Seq(S)
  <2>1. Adds(s) \in Seq({Command("add", r) : r \in Policies}) /\ Adds(t) \in Seq({Command("add", r) : r \in Policies})
    BY <1>1, AddsSeq
  <2> QED  BY <2>1
<1>4. Says(Adds(s) \o Adds(t), p, First(a, b))
  BY <1>1, <1>3, SaysJoined DEF First
<1>5. Adds(s \o t) = Adds(s) \o Adds(t)
  BY <1>1, AddsJoined
<1> QED  BY <1>2, <1>4, <1>5 DEF Verdict

LEMMA NoRule == ASSUME NEW p PROVE Verdict(<<>>, p, "nothing")
BY DEF Verdict, Says, Adds

LEMMA OneRule ==
  ASSUME NEW p, NEW r \in Policies
  PROVE  Verdict(<<r>>, p, If(Matches(r, p), r.act))
<1>1. <<r>> \in Seq(Policies) /\ Len(<<r>>) = 1 /\ <<r>>[1] = r /\ DOMAIN <<r>> = {1}
  OBVIOUS
<1>2. Adds(<<r>>) = [i \in {1} |-> Command("add", <<r>>[i])]
  BY <1>1 DEF Adds
<1>3. DOMAIN Adds(<<r>>) = {1} /\ Adds(<<r>>)[1] = Command("add", r)
  BY <1>1, <1>2
<1>4. Hits(Adds(<<r>>)[1], p) <=> Matches(r, p)
  BY <1>3, CommandHolds DEF Hits
<1>5. Adds(<<r>>)[1].arg.act = r.act /\ r.act \in {"accept", "reject"}
  BY <1>3, CommandHolds DEF Policies, RuleType
<1>6. Says(Adds(<<r>>), p, If(Matches(r, p), r.act))
  BY <1>3, <1>4, <1>5 DEF Says, If
<1> QED  BY <1>1, <1>6 DEF Verdict

LEMMA AcceptSays ==
  ASSUME NEW p, NEW ds \in SUBSET (Addresses \cup {Bridge}), NEW ss \in SUBSET Services
  PROVE  /\ Accept(ds, ss) \in Policies /\ Accept(ds, ss).act = "accept"
         /\ Verdict(<<Accept(ds, ss)>>, p, If(p.dst \in ds /\ p.svc \in ss, "accept"))
<1>1. Accept(ds, ss) = [dsts |-> ds, svcs |-> ss, set |-> "any", act |-> "accept"]
  BY DEF Accept, Rule
<1>2. Accept(ds, ss) \in Policies
  BY <1>1 DEF Policies, RuleType
<1>3. Matches(Accept(ds, ss), p) <=> p.dst \in ds /\ p.svc \in ss
  BY <1>1 DEF Matches
<1>4. Verdict(<<Accept(ds, ss)>>, p, If(Matches(Accept(ds, ss), p), "accept"))
  BY <1>1, <1>2, OneRule
<1>5. If(Matches(Accept(ds, ss), p), "accept") = If(p.dst \in ds /\ p.svc \in ss, "accept")
  BY <1>3 DEF If
<1> QED  BY <1>1, <1>2, <1>4, <1>5

LEMMA RejectSays ==
  ASSUME NEW p, NEW ds \in SUBSET (Addresses \cup {Bridge}), NEW ss \in SUBSET Services
  PROVE  /\ Reject(ds, ss) \in Policies
         /\ Verdict(<<Reject(ds, ss)>>, p, If(p.dst \in ds /\ p.svc \in ss, "reject"))
<1>1. Reject(ds, ss) = [dsts |-> ds, svcs |-> ss, set |-> "any", act |-> "reject"]
  BY DEF Reject, Rule
<1>2. Reject(ds, ss) \in Policies
  BY <1>1 DEF Policies, RuleType
<1>3. Matches(Reject(ds, ss), p) <=> p.dst \in ds /\ p.svc \in ss
  BY <1>1 DEF Matches
<1>4. Verdict(<<Reject(ds, ss)>>, p, If(Matches(Reject(ds, ss), p), "reject"))
  BY <1>1, <1>2, OneRule
<1>5. If(Matches(Reject(ds, ss), p), "reject") = If(p.dst \in ds /\ p.svc \in ss, "reject")
  BY <1>3 DEF If
<1> QED  BY <1>1, <1>2, <1>4, <1>5

LEMMA Same ==
  ASSUME NEW S, NEW s \in Seq(S), NEW t \in Seq(S), Len(s) = Len(t), \A i \in 1..Len(s) : s[i] = t[i]
  PROVE  s = t
OBVIOUS

LEMMA Pair == ASSUME NEW x, NEW y PROVE <<x, y>> = <<x>> \o <<y>>
<1> DEFINE S == {x, y}
<1>1. <<x>> \in Seq(S) /\ <<y>> \in Seq(S) /\ Len(<<x>>) = 1 /\ Len(<<y>>) = 1
  OBVIOUS
<1>2. <<x>> \o <<y>> \in Seq(S) /\ Len(<<x>> \o <<y>>) = 2
      /\ (<<x>> \o <<y>>)[1] = x /\ (<<x>> \o <<y>>)[2] = y
  BY <1>1
<1>3. <<x, y>> \in Seq(S) /\ Len(<<x, y>>) = 2 /\ <<x, y>>[1] = x /\ <<x, y>>[2] = y
  OBVIOUS
<1>4. 1..2 = {1, 2}
  OBVIOUS
<1> HIDE DEF S
<1> QED  BY <1>2, <1>3, <1>4, Same

LEMMA Triple == ASSUME NEW x, NEW y, NEW z PROVE <<x, y, z>> = <<x>> \o <<y>> \o <<z>>
<1> DEFINE S == {x, y, z}
<1>1. <<x, y>> \in Seq(S) /\ <<z>> \in Seq(S) /\ Len(<<x, y>>) = 2 /\ Len(<<z>>) = 1
      /\ <<x, y>>[1] = x /\ <<x, y>>[2] = y /\ <<z>>[1] = z
  OBVIOUS
<1>2. PICK u : u = <<x, y>>
  OBVIOUS
<1>3. u \o <<z>> \in Seq(S) /\ Len(u \o <<z>>) = 3
      /\ (u \o <<z>>)[1] = x /\ (u \o <<z>>)[2] = y /\ (u \o <<z>>)[3] = z
  BY <1>1, <1>2
<1>4. <<x, y, z>> \in Seq(S) /\ Len(<<x, y, z>>) = 3
      /\ <<x, y, z>>[1] = x /\ <<x, y, z>>[2] = y /\ <<x, y, z>>[3] = z
  OBVIOUS
<1>5. 1..3 = {1, 2, 3}
  OBVIOUS
<1> HIDE DEF S
<1>6. u \o <<z>> = <<x, y, z>>
  BY <1>3, <1>4, <1>5, Same
<1> QED  BY <1>2, <1>6, Pair

LEMMA Ranges ==
  /\ Addresses \in SUBSET (Addresses \cup {Bridge}) /\ {Bridge} \in SUBSET (Addresses \cup {Bridge})
  /\ Private \in SUBSET (Addresses \cup {Bridge}) /\ Meta \in SUBSET (Addresses \cup {Bridge})
  /\ Private \cup Meta \in SUBSET (Addresses \cup {Bridge})
  /\ {"dns"} \in SUBSET Services /\ {"echo"} \in SUBSET Services /\ Services \in SUBSET Services
  /\ L4 \in SUBSET Services /\ \A s \in SUBSET L4 : s \in SUBSET Services
BY DEF Addresses, Services, L4

LEMMA LocalSays ==
  ASSUME NEW c \in ConfigType, NEW p
  PROVE  Verdict(LocalNetwork(c.ports), p,
                 If(p.dst \in Private /\ p.svc \in Scope({}, c.ports), "accept"))
<1>1. c.ports \in SUBSET L4 /\ {} \in SUBSET L4
  BY DEF ConfigType
<1>2. Scope({}, c.ports) \in SUBSET Services
  BY <1>1, PortsHold
<1> QED  BY <1>2, Ranges, AcceptSays DEF LocalNetwork

\* Restricted mode lets through what it promises.
LEMMA RestrictedSays ==
  ASSUME NEW c \in ConfigType, c.mode = "restricted", NEW p \in Packets, p.dst # Bridge
  PROVE  Verdict(RestrictedRules(c), p, IF Promised(c, p) THEN "accept" ELSE "reject")
<1> DEFINE v1 == "nothing"
           v2 == If(p.svc = "dns" /\ c.dns # {}, IF p.dst \in c.dns THEN "accept" ELSE "reject")
           v3 == If(p.dst \in Private,
                    IF c.local THEN If(p.svc \in Scope({}, c.ports), "accept") ELSE If(c.private, "reject"))
           v4 == If(c.meta /\ p.dst \in Meta, "reject")
           v5 == IF c.ports = {} \/ p.svc \in c.ports \cup {"echo"} THEN "accept" ELSE "reject"
           s1 == When(c.bridge, <<Accept({Bridge}, Services)>>)
           s2 == Pin(c.dns)
           s3 == IF c.local THEN LocalNetwork(c.ports) ELSE When(c.private, <<Reject(Private, Services)>>)
           s4 == When(c.meta, <<Reject(Meta, Services)>>)
           s5 == IF c.ports = {} THEN <<Accept(Addresses, Services)>>
                 ELSE <<Accept(Addresses, c.ports), Accept(Addresses, {"echo"}), Reject(Addresses, Services)>>
<1>0. /\ c.ports \in SUBSET L4 /\ c.dns \in SUBSET Addresses /\ c.dns \in SUBSET (Addresses \cup {Bridge})
      /\ p.dst \in Addresses /\ p.svc \in Services /\ c.ports \in SUBSET Services
  BY Ranges DEF ConfigType, Packets
<1>1. Verdict(s1, p, v1)
  <2>1. Verdict(<<Accept({Bridge}, Services)>>, p, If(p.dst \in {Bridge} /\ p.svc \in Services, "accept"))
    BY Ranges, AcceptSays
  <2>2. If(p.dst \in {Bridge} /\ p.svc \in Services, "accept") = "nothing"
    BY DEF If
  <2> QED  BY <2>1, <2>2, NoRule DEF When
<1>2. Verdict(s2, p, v2)
  <2>1. Verdict(<<Accept(c.dns, {"dns"})>>, p, If(p.dst \in c.dns /\ p.svc \in {"dns"}, "accept"))
    BY <1>0, Ranges, AcceptSays
  <2>2. Verdict(<<Reject(Addresses, {"dns"})>>, p, If(p.dst \in Addresses /\ p.svc \in {"dns"}, "reject"))
    BY Ranges, RejectSays
  <2>3. Verdict(<<Accept(c.dns, {"dns"}), Reject(Addresses, {"dns"})>>, p,
                First(If(p.dst \in c.dns /\ p.svc \in {"dns"}, "accept"),
                      If(p.dst \in Addresses /\ p.svc \in {"dns"}, "reject")))
    BY <2>1, <2>2, VerdictJoined, Pair
  <2>4. c.dns # {} => First(If(p.dst \in c.dns /\ p.svc \in {"dns"}, "accept"),
                            If(p.dst \in Addresses /\ p.svc \in {"dns"}, "reject")) = v2
    BY <1>0 DEF First, If
  <2>5. c.dns = {} => v2 = "nothing"
    BY DEF If
  <2>6. s2 = IF c.dns # {} THEN <<Accept(c.dns, {"dns"}), Reject(Addresses, {"dns"})>> ELSE <<>>
    BY DEF Pin, When
  <2> QED  BY <2>3, <2>4, <2>5, <2>6, NoRule
<1>3. Verdict(s3, p, v3)
  <2>1. Verdict(LocalNetwork(c.ports), p, If(p.dst \in Private /\ p.svc \in Scope({}, c.ports), "accept"))
    BY LocalSays
  <2>2. Verdict(<<Reject(Private, Services)>>, p, If(p.dst \in Private /\ p.svc \in Services, "reject"))
    BY Ranges, RejectSays
  <2>3. /\ c.local => v3 = If(p.dst \in Private /\ p.svc \in Scope({}, c.ports), "accept")
        /\ ~c.local /\ c.private => v3 = If(p.dst \in Private /\ p.svc \in Services, "reject")
        /\ ~c.local /\ ~c.private => v3 = "nothing"
    BY <1>0 DEF If
  <2> QED  BY <2>1, <2>2, <2>3, NoRule DEF When
<1>4. Verdict(s4, p, v4)
  <2>1. Verdict(<<Reject(Meta, Services)>>, p, If(p.dst \in Meta /\ p.svc \in Services, "reject"))
    BY Ranges, RejectSays
  <2>2. /\ c.meta => v4 = If(p.dst \in Meta /\ p.svc \in Services, "reject")
        /\ ~c.meta => v4 = "nothing"
    BY <1>0 DEF If
  <2> QED  BY <2>1, <2>2, NoRule DEF When
<1>5. Verdict(s5, p, v5)
  <2>1. CASE c.ports = {}
    <3>1. Verdict(<<Accept(Addresses, Services)>>, p, If(p.dst \in Addresses /\ p.svc \in Services, "accept"))
      BY Ranges, AcceptSays
    <3>2. If(p.dst \in Addresses /\ p.svc \in Services, "accept") = v5
      BY <1>0, <2>1 DEF If
    <3> QED  BY <2>1, <3>1, <3>2
  <2>2. CASE c.ports # {}
    <3> DEFINE w1 == If(p.dst \in Addresses /\ p.svc \in c.ports, "accept")
               w2 == If(p.dst \in Addresses /\ p.svc \in {"echo"}, "accept")
               w3 == If(p.dst \in Addresses /\ p.svc \in Services, "reject")
    <3>1. Verdict(<<Accept(Addresses, c.ports)>>, p, w1) /\ Verdict(<<Accept(Addresses, {"echo"})>>, p, w2)
      BY <1>0, Ranges, AcceptSays
    <3>2. Verdict(<<Reject(Addresses, Services)>>, p, w3)
      BY Ranges, RejectSays
    <3>3. First(First(w1, w2), w3) = v5
      BY <1>0, <2>2 DEF First, If
    <3> HIDE DEF w1, w2, w3, v5
    <3>4. Verdict(<<Accept(Addresses, c.ports)>> \o <<Accept(Addresses, {"echo"})>>, p, First(w1, w2))
      BY <3>1, VerdictJoined
    <3>5. Verdict(<<Accept(Addresses, c.ports)>> \o <<Accept(Addresses, {"echo"})>> \o <<Reject(Addresses, Services)>>,
                  p, First(First(w1, w2), w3))
      BY <3>2, <3>4, VerdictJoined
    <3>6. s5 = <<Accept(Addresses, c.ports)>> \o <<Accept(Addresses, {"echo"})>> \o <<Reject(Addresses, Services)>>
      BY <2>2, Triple
    <3> QED  BY <3>3, <3>5, <3>6
  <2> QED  BY <2>1, <2>2
<1>6. First(First(First(First(v1, v2), v3), v4), v5) = IF Promised(c, p) THEN "accept" ELSE "reject"
  <2>1. ~(p.dst \in Private /\ p.dst \in Meta)
    BY EgressAssumption
  <2>2. Promised(c, p) <=> IF p.svc = "dns" /\ c.dns # {} THEN p.dst \in c.dns
                           ELSE /\ c.ports = {} \/ p.svc \in c.ports \cup {"echo"}
                                /\ p.dst \in Private => c.local \/ ~c.private
                                /\ p.dst \in Meta => ~c.meta
    BY DEF Promised, Capped
  <2>3. Scope({}, c.ports) = IF c.ports = {} THEN Services ELSE c.ports
    BY DEF Scope, PortsOf
  <2> QED  BY <1>0, <2>1, <2>2, <2>3 DEF First, If
<1>7. RestrictedRules(c) = s1 \o s2 \o s3 \o s4 \o s5
  BY DEF RestrictedRules
<1> HIDE DEF s1, s2, s3, s4, s5, v1, v2, v3, v4, v5
<1>8. Verdict(s1 \o s2, p, First(v1, v2))
  BY <1>1, <1>2, VerdictJoined
<1>9. Verdict(s1 \o s2 \o s3, p, First(First(v1, v2), v3))
  BY <1>3, <1>8, VerdictJoined
<1>10. Verdict(s1 \o s2 \o s3 \o s4, p, First(First(First(v1, v2), v3), v4))
  BY <1>4, <1>9, VerdictJoined
<1>11. Verdict(s1 \o s2 \o s3 \o s4 \o s5, p, First(First(First(First(v1, v2), v3), v4), v5))
  BY <1>5, <1>10, VerdictJoined
<1> QED  BY <1>6, <1>7, <1>11

-----------------------------------------------------------------------------
(* The setup, from its first command to its last.                           *)

\* What the sets let through.
InTheSets(p) == (p.svc \in L4 /\ p \in net.tuples) \/ (p.svc = "echo" /\ p.dst \in net.addresses)

LEMMA AllowlistSays ==
  ASSUME NEW c \in ConfigType, NEW p \in Packets, p.dst # Bridge, p.svc # "dns"
  PROVE  Verdict(AllowlistRules(c), p,
           IF c.local /\ p.dst \in Private /\ p.svc \in Scope({}, c.ports) THEN "accept"
           ELSE IF ~c.local /\ p.dst \in Private \cup Meta THEN "reject"
           ELSE IF InTheSets(p) THEN "accept" ELSE "reject")
<1> DEFINE v1 == IF c.local THEN If(p.dst \in Private /\ p.svc \in Scope({}, c.ports), "accept")
                 ELSE If(p.dst \in Private \cup Meta, "reject")
           v2 == If(p.svc \in L4 /\ p \in net.tuples, "accept")
           v3 == If(p.svc = "echo" /\ p.dst \in net.addresses, "accept")
           v4 == "reject"
           s1 == IF c.local THEN LocalNetwork(c.ports) ELSE <<Reject(Private \cup Meta, Services)>>
           r2 == Rule(Addresses, L4, "tuples", "accept")
           r3 == Rule(Addresses, {"echo"}, "addresses", "accept")
           r4 == Reject(Addresses, Services)
<1>0. p.dst \in Addresses /\ p.svc \in Services
  BY DEF Packets
<1>1. Verdict(s1, p, v1)
  <2>1. Verdict(LocalNetwork(c.ports), p, If(p.dst \in Private /\ p.svc \in Scope({}, c.ports), "accept"))
    BY LocalSays
  <2>2. Verdict(<<Reject(Private \cup Meta, Services)>>, p,
                If(p.dst \in Private \cup Meta /\ p.svc \in Services, "reject"))
    BY Ranges, RejectSays
  <2>3. If(p.dst \in Private \cup Meta /\ p.svc \in Services, "reject") = If(p.dst \in Private \cup Meta, "reject")
    BY <1>0 DEF If
  <2> QED  BY <2>1, <2>2, <2>3
<1>2. Verdict(<<r2>>, p, v2)
  <2>1. r2 \in Policies /\ r2.act = "accept"
    BY Ranges DEF Rule, Policies, RuleType
  <2>2. Matches(r2, p) <=> p.svc \in L4 /\ p \in net.tuples
    BY <1>0 DEF Matches, Rule
  <2>3. If(Matches(r2, p), r2.act) = v2
    BY <2>1, <2>2 DEF If
  <2> QED  BY <2>1, <2>3, OneRule
<1>3. Verdict(<<r3>>, p, v3)
  <2>1. r3 \in Policies /\ r3.act = "accept"
    BY Ranges DEF Rule, Policies, RuleType
  <2>2. Matches(r3, p) <=> p.svc = "echo" /\ p.dst \in net.addresses
    BY <1>0 DEF Matches, Rule
  <2>3. If(Matches(r3, p), r3.act) = v3
    BY <2>1, <2>2 DEF If
  <2> QED  BY <2>1, <2>3, OneRule
<1>4. Verdict(<<r4>>, p, v4)
  <2>1. Verdict(<<r4>>, p, If(p.dst \in Addresses /\ p.svc \in Services, "reject"))
    BY Ranges, RejectSays
  <2>2. If(p.dst \in Addresses /\ p.svc \in Services, "reject") = v4
    BY <1>0 DEF If
  <2> QED  BY <2>1, <2>2
<1>5. First(v1, First(First(v2, v3), v4)) =
        (IF c.local /\ p.dst \in Private /\ p.svc \in Scope({}, c.ports) THEN "accept"
         ELSE IF ~c.local /\ p.dst \in Private \cup Meta THEN "reject"
         ELSE IF InTheSets(p) THEN "accept" ELSE "reject")
  BY DEF First, If, InTheSets
<1>6. AllowlistRules(c) = s1 \o <<r2, r3, r4>>
  BY DEF AllowlistRules
<1> HIDE DEF s1, r2, r3, r4, v1, v2, v3, v4
<1>7. Verdict(<<r2>> \o <<r3>>, p, First(v2, v3))
  BY <1>2, <1>3, VerdictJoined
<1>8. Verdict(<<r2>> \o <<r3>> \o <<r4>>, p, First(First(v2, v3), v4))
  BY <1>4, <1>7, VerdictJoined
<1>9. Verdict(<<r2, r3, r4>>, p, First(First(v2, v3), v4))
  <2>1. <<r2, r3, r4>> = <<r2>> \o <<r3>> \o <<r4>>
    BY Triple
  <2> QED  BY <1>8, <2>1
<1>10. Verdict(s1 \o <<r2, r3, r4>>, p, First(v1, First(First(v2, v3), v4)))
  BY <1>1, <1>9, VerdictJoined
<1> QED  BY <1>5, <1>6, <1>10

\* Commands that add no rule.
LEMMA Quiet ==
  ASSUME NEW s, NEW p, \A i \in DOMAIN s : s[i].do # "add"
  PROVE  Says(s, p, "nothing")
BY DEF Says, Hits

\* What fills the sets.
LEMMA InSetsFit ==
  ASSUME NEW c \in ConfigType, c.mode = "allowlist", NEW ts, ts \subseteq c.literals \cup c.resolved
  PROVE  /\ InSets(ts, c.ports) \in Seq(Fitting(c))
         /\ \A p : Says(InSets(ts, c.ports), p, "nothing")
         /\ ts # {} => /\ Has(InSets(ts, c.ports), Command("addresses", {t.dst : t \in ts}))
                       /\ Has(InSets(ts, c.ports), Command("tuples", Tuples(ts, c.ports)))
<1> DEFINE x == Command("addresses", {t.dst : t \in ts})
           y == Command("tuples", Tuples(ts, c.ports))
<1>1. ts \subseteq Target /\ c.ports \in SUBSET L4
  BY DEF ConfigType
<1>2. /\ Tuples(ts, c.ports) \subseteq Packets /\ {t.dst : t \in ts} \subseteq Addresses
      /\ InSets(ts, c.ports) = IF ts = {} THEN <<>> ELSE <<x, y>>
  BY <1>1, InSetsHold
<1>3. x \in Fitting(c)
  <2>1. x.do = "addresses" /\ x.arg = {t.dst : t \in ts} /\ x = [do |-> "addresses", arg |-> {t.dst : t \in ts}]
    BY CommandHolds
  <2>2. x \in CommandType
    BY <1>2, <2>1 DEF CommandType, Verbs, Args
  <2>3. \A a \in x.arg : \E t \in c.literals \cup c.resolved : t.dst = a
    BY <2>1
  <2>4. Fits(c, x)
    BY <1>2, <2>1, <2>3 DEF Fits
  <2> QED  BY <2>2, <2>4 DEF Fitting
<1>4. y \in Fitting(c)
  <2>1. y.do = "tuples" /\ y.arg = Tuples(ts, c.ports) /\ y = [do |-> "tuples", arg |-> Tuples(ts, c.ports)]
    BY CommandHolds
  <2>2. y \in CommandType
    BY <1>2, <2>1 DEF CommandType, Verbs, Args
  <2>3. ASSUME NEW q \in y.arg PROVE q \in Tuples(c.literals \cup c.resolved, c.ports)
    <3>1. PICK t \in ts : q \in Via(t.dst, PortsOf(t.ports, c.ports))
      BY <2>1, TuplesHold
    <3>2. t \in c.literals \cup c.resolved
      OBVIOUS
    <3> QED  BY <3>1, <3>2, TuplesHold
  <2>4. Fits(c, y)
    BY <1>2, <2>1, <2>3 DEF Fits
  <2> QED  BY <2>2, <2>4 DEF Fitting
<1>5. x.do # "add" /\ y.do # "add"
  BY CommandHolds
<1> HIDE DEF x, y
<1>6. PICK s : s = InSets(ts, c.ports)
  OBVIOUS
<1>7. s \in Seq(Fitting(c)) /\ \A i \in DOMAIN s : s[i].do # "add"
  BY <1>2, <1>3, <1>4, <1>5, <1>6
<1>8. \A p : Says(s, p, "nothing")
  BY <1>7, Quiet
<1>9. ts # {} => Has(s, x) /\ Has(s, y)
  <2> SUFFICES ASSUME ts # {} PROVE Has(s, x) /\ Has(s, y)
    OBVIOUS
  <2>1. 1 \in DOMAIN s /\ s[1] = x /\ 2 \in DOMAIN s /\ s[2] = y
    BY <1>2, <1>6
  <2> QED  BY <2>1 DEF Has
<1> QED  BY <1>6, <1>7, <1>8, <1>9 DEF x, y

\* What the policy of a configuration does after the purge.
Middle(c) ==
  CASE c.mode = "open" -> Adds(<<Accept(Addresses \cup {Bridge}, Services)>>)
    [] c.mode = "restricted" -> Adds(RestrictedRules(c))
    [] c.mode = "allowlist" -> AllowlistCommands(c)

LEMMA RestrictedRulesHold == ASSUME NEW c \in ConfigType PROVE RestrictedRules(c) \in Seq(Policies)
<1>0. c.ports \in SUBSET Services /\ c.dns \in SUBSET (Addresses \cup {Bridge}) /\ Scope({}, c.ports) \in SUBSET Services
  BY Ranges, PortsHold DEF ConfigType
<1>1. /\ Accept({Bridge}, Services) \in Policies /\ Accept(c.dns, {"dns"}) \in Policies
      /\ Accept(Private, Scope({}, c.ports)) \in Policies /\ Accept(Addresses, Services) \in Policies
      /\ Accept(Addresses, c.ports) \in Policies /\ Accept(Addresses, {"echo"}) \in Policies
  BY <1>0, Ranges, AcceptSays
<1>2. /\ Reject(Addresses, {"dns"}) \in Policies /\ Reject(Private, Services) \in Policies
      /\ Reject(Meta, Services) \in Policies /\ Reject(Addresses, Services) \in Policies
  BY Ranges, RejectSays
<1>3. When(c.bridge, <<Accept({Bridge}, Services)>>) \in Seq(Policies) /\ Pin(c.dns) \in Seq(Policies)
  BY <1>1, <1>2 DEF When, Pin
<1>4. (IF c.local THEN LocalNetwork(c.ports) ELSE When(c.private, <<Reject(Private, Services)>>)) \in Seq(Policies)
      /\ When(c.meta, <<Reject(Meta, Services)>>) \in Seq(Policies)
  BY <1>1, <1>2 DEF When, LocalNetwork
<1>5. (IF c.ports = {} THEN <<Accept(Addresses, Services)>>
       ELSE <<Accept(Addresses, c.ports), Accept(Addresses, {"echo"}), Reject(Addresses, Services)>>) \in Seq(Policies)
  BY <1>1, <1>2
<1> QED  BY <1>3, <1>4, <1>5 DEF RestrictedRules

LEMMA AllowlistRulesHold == ASSUME NEW c \in ConfigType PROVE AllowlistRules(c) \in Seq(Policies)
<1>0. Scope({}, c.ports) \in SUBSET Services
  BY PortsHold DEF ConfigType
<1>1. Accept(Private, Scope({}, c.ports)) \in Policies
  BY <1>0, Ranges, AcceptSays
<1>2. Reject(Private \cup Meta, Services) \in Policies /\ Reject(Addresses, Services) \in Policies
  BY Ranges, RejectSays
<1>3. /\ Rule(Addresses, L4, "tuples", "accept") \in Policies
      /\ Rule(Addresses, {"echo"}, "addresses", "accept") \in Policies
  BY Ranges DEF Rule, Policies, RuleType
<1>4. (IF c.local THEN LocalNetwork(c.ports) ELSE <<Reject(Private \cup Meta, Services)>>) \in Seq(Policies)
  BY <1>1, <1>2 DEF LocalNetwork
<1>5. <<Rule(Addresses, L4, "tuples", "accept"), Rule(Addresses, {"echo"}, "addresses", "accept"),
        Reject(Addresses, Services)>> \in Seq(Policies)
  BY <1>2, <1>3
<1> QED  BY <1>4, <1>5 DEF AllowlistRules

\* What the allowlist's commands are, and what they say of a packet.
LEMMA AllowlistHolds ==
  ASSUME NEW c \in ConfigType, c.mode = "allowlist"
  PROVE  /\ AllowlistCommands(c) \in Seq(Fitting(c))
         /\ Has(AllowlistCommands(c), Command("sets", {})) /\ Has(AllowlistCommands(c), Command("blockInput", {}))
         /\ \A ts \in {c.literals, c.resolved} : ts # {} =>
              /\ Has(AllowlistCommands(c), Command("addresses", {t.dst : t \in ts}))
              /\ Has(AllowlistCommands(c), Command("tuples", Tuples(ts, c.ports)))
         /\ \A p \in Packets : p.dst # Bridge => Says(AllowlistCommands(c), p,
              IF p.svc = "dns" THEN "reject"
              ELSE IF c.local /\ p.dst \in Private /\ p.svc \in Scope({}, c.ports) THEN "accept"
              ELSE IF ~c.local /\ p.dst \in Private \cup Meta THEN "reject"
              ELSE IF InTheSets(p) THEN "accept" ELSE "reject")
<1> DEFINE F == Fitting(c)
           no == Command("add", Reject(Addresses, {"dns"}))
           shut == Command("blockInput", {})
           s1 == <<Command("sets", {})>>
           s2 == InSets(c.literals, c.ports)
           s3 == <<no, shut>>
           s4 == Adds(AllowlistRules(c))
           s5 == InSets(c.resolved, c.ports)
<1>0. no.do = "add" /\ no.arg = Reject(Addresses, {"dns"}) /\ shut.do = "blockInput" /\ Command("sets", {}).do = "sets"
  BY CommandHolds
<1>1. s1 \in Seq(F) /\ Has(s1, Command("sets", {})) /\ \A p : Says(s1, p, "nothing")
  <2>1. Command("sets", {}) \in F
    BY CommandHolds DEF Fitting, CommandType, Fits, Verbs, Args
  <2>2. 1 \in DOMAIN s1 /\ s1[1] = Command("sets", {})
    OBVIOUS
  <2>3. \A i \in DOMAIN s1 : s1[i].do # "add"
    BY <1>0
  <2>4. s1 \in Seq(F)
    BY <2>1
  <2>5. Has(s1, Command("sets", {}))
    BY <2>2 DEF Has
  <2>6. \A p : Says(s1, p, "nothing")
    BY <2>3, Quiet
  <2> QED  BY <2>4, <2>5, <2>6
<1>2. /\ s2 \in Seq(F) /\ \A p : Says(s2, p, "nothing")
      /\ c.literals # {} => /\ Has(s2, Command("addresses", {t.dst : t \in c.literals}))
                            /\ Has(s2, Command("tuples", Tuples(c.literals, c.ports)))
  <2>1. c.literals \subseteq c.literals \cup c.resolved
    OBVIOUS
  <2> QED  BY <2>1, InSetsFit
<1>3. s3 \in Seq(F) /\ Has(s3, shut)
  <2>1. shut \in F
    BY CommandHolds DEF Fitting, CommandType, Fits, Verbs, Args
  <2>2. no \in F
    <3>1. Reject(Addresses, {"dns"}) \in RuleType /\ Reject(Addresses, {"dns"}).set # "boot"
      BY Ranges, RejectSays DEF Policies
    <3>2. no = [do |-> "add", arg |-> Reject(Addresses, {"dns"})]
      BY CommandHolds
    <3> QED  BY <1>0, <3>1, <3>2 DEF Fitting, CommandType, Fits, Verbs, Args
  <2>3. 2 \in DOMAIN s3 /\ s3[2] = shut
    OBVIOUS
  <2> HIDE DEF no, shut, F
  <2> QED  BY <2>1, <2>2, <2>3 DEF Has
<1>4. ASSUME NEW p \in Packets, p.dst # Bridge PROVE Says(s3, p, If(p.svc = "dns", "reject"))
  <2>0. Reject(Addresses, {"dns"}) = [dsts |-> Addresses, svcs |-> {"dns"}, set |-> "any", act |-> "reject"]
    BY DEF Reject, Rule
  <2>1. Hits(no, p) <=> p.svc = "dns"
    BY <1>0, <1>4, <2>0 DEF Hits, Matches, Packets
  <2>2. ~Hits(shut, p) /\ no.arg.act = "reject"
    BY <1>0, <2>0 DEF Hits
  <2>3. DOMAIN s3 = {1, 2} /\ s3[1] = no /\ s3[2] = shut
    OBVIOUS
  <2> HIDE DEF s3, no, shut
  <2> QED  BY <2>1, <2>2, <2>3 DEF Says, If
<1>5. s4 \in Seq(F)
  BY AllowlistRulesHold, AddsHold
<1>6. /\ s5 \in Seq(F) /\ \A p : Says(s5, p, "nothing")
      /\ c.resolved # {} => /\ Has(s5, Command("addresses", {t.dst : t \in c.resolved}))
                            /\ Has(s5, Command("tuples", Tuples(c.resolved, c.ports)))
  <2>1. c.resolved \subseteq c.literals \cup c.resolved
    OBVIOUS
  <2> QED  BY <2>1, InSetsFit
<1>7. AllowlistCommands(c) = s1 \o s2 \o s3 \o s4 \o s5
  BY DEF AllowlistCommands
<1> HIDE DEF s1, s2, s3, s4, s5, F
<1>8. /\ s1 \o s2 \in Seq(F) /\ s1 \o s2 \o s3 \in Seq(F) /\ s1 \o s2 \o s3 \o s4 \in Seq(F)
      /\ s1 \o s2 \o s3 \o s4 \o s5 \in Seq(F)
  BY <1>1, <1>2, <1>3, <1>5, <1>6
<1>9. Has(s1 \o s2 \o s3 \o s4 \o s5, Command("sets", {})) /\ Has(s1 \o s2 \o s3 \o s4 \o s5, shut)
  <2>1. Has(s1 \o s2 \o s3, Command("sets", {})) /\ Has(s1 \o s2 \o s3, shut)
    BY <1>1, <1>2, <1>3, <1>8, HasJoined
  <2>2. Has(s1 \o s2 \o s3 \o s4, Command("sets", {})) /\ Has(s1 \o s2 \o s3 \o s4, shut)
    BY <2>1, <1>5, <1>8, HasJoined
  <2> QED  BY <2>2, <1>6, <1>8, HasJoined
<1>10. ASSUME NEW x, Has(s2, x) \/ Has(s5, x) PROVE Has(s1 \o s2 \o s3 \o s4 \o s5, x)
  <2>1. CASE Has(s5, x)
    BY <2>1, <1>6, <1>8, HasJoined
  <2>2. CASE Has(s2, x)
    <3>1. Has(s1 \o s2, x)
      BY <2>2, <1>1, <1>2, HasJoined
    <3>2. Has(s1 \o s2 \o s3, x)
      BY <3>1, <1>3, <1>8, HasJoined
    <3>3. Has(s1 \o s2 \o s3 \o s4, x)
      BY <3>2, <1>5, <1>8, HasJoined
    <3> QED  BY <3>3, <1>6, <1>8, HasJoined
  <2> QED  BY <1>10, <2>1, <2>2
<1>11. ASSUME NEW p \in Packets, p.dst # Bridge
       PROVE  Says(s1 \o s2 \o s3 \o s4 \o s5, p,
                IF p.svc = "dns" THEN "reject"
                ELSE IF c.local /\ p.dst \in Private /\ p.svc \in Scope({}, c.ports) THEN "accept"
                ELSE IF ~c.local /\ p.dst \in Private \cup Meta THEN "reject"
                ELSE IF InTheSets(p) THEN "accept" ELSE "reject")
  <2>1. Says(s1 \o s2, p, "nothing")
    <3>1. Says(s1 \o s2, p, IF "nothing" = "nothing" THEN "nothing" ELSE "nothing")
      BY <1>1, <1>2, SaysJoined
    <3> QED  BY <3>1
  <2>2. CASE p.svc = "dns"
    <3>1. Says(s3, p, "reject")
      BY <1>4, <1>11, <2>2 DEF If
    <3>2. Says(s1 \o s2 \o s3, p, IF "nothing" = "nothing" THEN "reject" ELSE "nothing")
      BY <1>3, <1>8, <2>1, <3>1, SaysJoined
    <3>3. Says(s1 \o s2 \o s3 \o s4, p, "reject")
      BY <1>5, <1>8, <3>2, SaysKept
    <3>4. Says(s1 \o s2 \o s3 \o s4 \o s5, p, "reject")
      BY <1>6, <1>8, <3>3, SaysKept
    <3> QED  BY <2>2, <3>4
  <2>3. CASE p.svc # "dns"
    <3>1. PICK v : v = IF c.local /\ p.dst \in Private /\ p.svc \in Scope({}, c.ports) THEN "accept"
                       ELSE IF ~c.local /\ p.dst \in Private \cup Meta THEN "reject"
                       ELSE IF InTheSets(p) THEN "accept" ELSE "reject"
      OBVIOUS
    <3>2. Says(s3, p, "nothing")
      BY <1>4, <1>11, <2>3 DEF If
    <3>3. Says(s1 \o s2 \o s3, p, IF "nothing" = "nothing" THEN "nothing" ELSE "nothing")
      BY <1>3, <1>8, <2>1, <3>2, SaysJoined
    <3>4. Says(s4, p, v)
      BY <1>11, <2>3, <3>1, AllowlistSays DEF Verdict, s4
    <3>5. Says(s1 \o s2 \o s3 \o s4, p, IF "nothing" = "nothing" THEN v ELSE "nothing")
      BY <1>5, <1>8, <3>3, <3>4, SaysJoined
    <3>6. v # "nothing"
      BY <3>1
    <3>7. Says(s1 \o s2 \o s3 \o s4 \o s5, p, v)
      BY <1>6, <1>8, <3>5, <3>6, SaysKept
    <3> QED  BY <2>3, <3>1, <3>7
  <2> QED  BY <2>2, <2>3
<1>12. \A ts \in {c.literals, c.resolved} : ts # {} =>
         /\ Has(s1 \o s2 \o s3 \o s4 \o s5, Command("addresses", {t.dst : t \in ts}))
         /\ Has(s1 \o s2 \o s3 \o s4 \o s5, Command("tuples", Tuples(ts, c.ports)))
  <2>1. c.literals # {} => /\ Has(s1 \o s2 \o s3 \o s4 \o s5, Command("addresses", {t.dst : t \in c.literals}))
                           /\ Has(s1 \o s2 \o s3 \o s4 \o s5, Command("tuples", Tuples(c.literals, c.ports)))
    BY <1>2, <1>10
  <2>2. c.resolved # {} => /\ Has(s1 \o s2 \o s3 \o s4 \o s5, Command("addresses", {t.dst : t \in c.resolved}))
                           /\ Has(s1 \o s2 \o s3 \o s4 \o s5, Command("tuples", Tuples(c.resolved, c.ports)))
    <3>1. c.resolved # {} => /\ Has(s5, Command("addresses", {t.dst : t \in c.resolved}))
                             /\ Has(s5, Command("tuples", Tuples(c.resolved, c.ports)))
      BY <1>6
    <3> QED  BY <1>10, <3>1
  <2> QED  BY <2>1, <2>2
<1> QED  BY <1>7, <1>8, <1>9, <1>11, <1>12 DEF F

LEMMA HostsHold ==
  ASSUME NEW c \in ConfigType
  PROVE  HostCommands(c) \in Seq(Fitting(c)) /\ \A i \in DOMAIN HostCommands(c) : HostCommands(c)[i].do # "add"
<1> DEFINE F == {x \in Fitting(c) : x.do # "add"}
           names == Command("names", {Line(c.hosts[i]) : i \in DOMAIN c.hosts})
           calls == [i \in 1..2 * Len(c.hosts) |-> Call(c, i)]
<1>1. c.hosts \in Seq(Entry) /\ Len(c.hosts) \in Nat /\ 2 * Len(c.hosts) \in Nat
  BY DEF ConfigType
<1>2. Command("refuse", {}) \in F
  BY CommandHolds DEF Fitting, CommandType, Fits, Verbs, Args
<1>3. names \in F
  <2>1. \A i \in DOMAIN c.hosts : Line(c.hosts[i]) \in Addresses \X STRING
    <3>1. \A i \in DOMAIN c.hosts : c.hosts[i] \in Entry
      BY <1>1
    <3> QED  BY <3>1 DEF Line, Entry
  <2>2. {Line(c.hosts[i]) : i \in DOMAIN c.hosts} \subseteq Addresses \X STRING
    BY <2>1
  <2>3. names = [do |-> "names", arg |-> {Line(c.hosts[i]) : i \in DOMAIN c.hosts}]
    BY CommandHolds
  <2>4. names.do = "names" /\ names.arg \subseteq Addresses \X STRING /\ names \in CommandType
    BY <2>2, <2>3 DEF CommandType, Verbs, Args
  <2> QED  BY <2>4 DEF Fitting, Fits
<1>4. calls \in Seq(F)
  <2>1. \A i \in 1..2 * Len(c.hosts) : Call(c, i) \in F
    BY CallHolds
  <2> HIDE DEF F
  <2> QED  BY <1>1, <2>1
<1> HIDE DEF F, names, calls
<1>5. When(c.hosts # <<>>, <<names>>) \in Seq(F)
  BY <1>3 DEF When
<1>6. HostCommands(c) = IF \E i \in DOMAIN c.hosts : ~Admitted(c.mode, c.local, c.hosts[i])
                        THEN <<Command("refuse", {})>> ELSE calls \o When(c.hosts # <<>>, <<names>>)
  BY DEF HostCommands, calls, names
<1>7. HostCommands(c) \in Seq(F)
  BY <1>2, <1>4, <1>5, <1>6
<1>8. \A s : s \in Seq(F) => s \in Seq(Fitting(c)) /\ \A i \in DOMAIN s : s[i].do # "add"
  <2> SUFFICES ASSUME NEW s \in Seq(F) PROVE s \in Seq(Fitting(c)) /\ \A i \in DOMAIN s : s[i].do # "add"
    OBVIOUS
  <2>1. \A i \in DOMAIN s : s[i] \in F
    OBVIOUS
  <2>2. \A i \in DOMAIN s : s[i] \in Fitting(c) /\ s[i].do # "add"
    BY <2>1 DEF F
  <2> QED  BY <2>2
<1> QED  BY <1>7, <1>8

LEMMA MiddleHolds == ASSUME NEW c \in ConfigType PROVE Middle(c) \in Seq(Fitting(c))
<1>1. c.mode \in {"open", "restricted", "allowlist"}
  BY DEF ConfigType
<1>2. CASE c.mode = "open"
  <2>1. Addresses \cup {Bridge} \in SUBSET (Addresses \cup {Bridge}) /\ Services \in SUBSET Services
    OBVIOUS
  <2>2. /\ Accept(Addresses \cup {Bridge}, Services) \in Policies
        /\ Accept(Addresses \cup {Bridge}, Services).act = "accept"
    BY <2>1, AcceptSays
  <2>3. PICK r : r = Accept(Addresses \cup {Bridge}, Services)
    OBVIOUS
  <2>4. <<r>> \in Seq(Policies) /\ \A i \in DOMAIN <<r>> : <<r>>[i].act = "accept"
    BY <2>2, <2>3
  <2> QED  BY <1>2, <2>3, <2>4, AddsHold DEF Middle
<1>3. CASE c.mode = "restricted"
  BY <1>3, RestrictedRulesHold, AddsHold DEF Middle
<1>4. CASE c.mode = "allowlist"
  BY <1>4, AllowlistHolds DEF Middle
<1> QED  BY <1>1, <1>2, <1>3, <1>4

\* Made its first element, the sequence is in F.
LEMMA TailFits ==
  ASSUME NEW T, NEW F, F \subseteq T, NEW s \in Seq(T), NEW t \in Seq(F), Len(s) >= 1,
         \A i \in 2..Len(s) : s[i] \in F
  PROVE  /\ s \o t \in Seq(T) /\ Len(s \o t) = Len(s) + Len(t) /\ Len(s \o t) >= 1
         /\ (s \o t)[1] = s[1] /\ \A i \in 2..Len(s \o t) : (s \o t)[i] \in F
<1>1. t \in Seq(T)
  OBVIOUS
<1>2. /\ s \o t \in Seq(T) /\ Len(s \o t) = Len(s) + Len(t) /\ Len(s) \in Nat /\ Len(t) \in Nat
      /\ DOMAIN (s \o t) = 1..Len(s) + Len(t) /\ DOMAIN s = 1..Len(s) /\ DOMAIN t = 1..Len(t)
  BY <1>1
<1>3. /\ \A i \in DOMAIN s : (s \o t)[i] = s[i]
      /\ \A k \in DOMAIN (s \o t) : \/ k \in DOMAIN s /\ (s \o t)[k] = s[k]
                                    \/ k > Len(s) /\ k - Len(s) \in DOMAIN t /\ (s \o t)[k] = t[k - Len(s)]
  BY <1>1, Joined
<1>4. 1 \in DOMAIN s
  BY <1>2
<1>5. ASSUME NEW i \in 2..Len(s) + Len(t) PROVE (s \o t)[i] \in F
  <2>1. i \in DOMAIN (s \o t) /\ i >= 2
    BY <1>2
  <2>2. i \in DOMAIN s => i \in 2..Len(s)
    BY <1>2, <2>1
  <2>3. \A k \in DOMAIN t : t[k] \in F
    OBVIOUS
  <2> QED  BY <1>3, <2>1, <2>2, <2>3
<1> QED  BY <1>2, <1>3, <1>4, <1>5

\* A setup purges or refuses, does what fits the configuration, and lifts.
LEMMA SetupHolds ==
  ASSUME NEW c \in ConfigType
  PROVE  /\ Setup(c) \in Seq(CommandType) /\ Len(Setup(c)) >= 2
         /\ Setup(c)[1] = IF Unfit(c) THEN Command("refuse", {}) ELSE Command("purge", {})
         /\ Setup(c)[Len(Setup(c))] = Command("lift", {})
         /\ \A i \in 2..Len(Setup(c)) - 1 : Setup(c)[i] \in Fitting(c)
         /\ ~Unfit(c) => \A x : Has(Middle(c), x) => Has(Setup(c), x)
         /\ ~Unfit(c) => \A p, a : Says(Middle(c), p, a) => Says(Setup(c), p, a)
<1> DEFINE head == <<IF Unfit(c) THEN Command("refuse", {}) ELSE Command("purge", {})>>
           mid == IF Unfit(c) THEN <<>> ELSE Middle(c)
           host == HostCommands(c)
           last == <<Command("lift", {})>>
           T == CommandType
<1>1. Fitting(c) \subseteq T /\ Command("refuse", {}) \in T /\ Command("purge", {}) \in T /\ Command("lift", {}) \in T
  BY CommandHolds DEF Fitting, CommandType, Verbs, Args
<1>2. head \in Seq(T) /\ last \in Seq(T) /\ Len(head) = 1 /\ Len(last) = 1 /\ last[1] = Command("lift", {})
      /\ head[1] = IF Unfit(c) THEN Command("refuse", {}) ELSE Command("purge", {})
  BY <1>1
<1>3. mid \in Seq(Fitting(c)) /\ host \in Seq(Fitting(c))
  BY MiddleHolds, HostsHold
<1>4. \A s : s \in Seq(Fitting(c)) => s \in Seq(T)
  <2>1. \A S, V : S \subseteq V => \A s \in Seq(S) : s \in Seq(V)
    OBVIOUS
  <2> QED  BY <1>1, <2>1
<1>5. Setup(c) = head \o mid \o host \o last
  <2>1. CASE Unfit(c)
    <3>1. \A s : s \in Seq(T) => s \o <<>> = s
      OBVIOUS
    <3>2. head \o mid = <<Command("refuse", {})>>
      BY <1>2, <2>1, <3>1
    <3> QED  BY <2>1, <3>2 DEF Setup, Policy
  <2>2. CASE ~Unfit(c)
    <3>1. Policy(c) = <<Command("purge", {})>> \o Middle(c)
      BY <2>2 DEF Policy, Middle
    <3> QED  BY <2>2, <3>1 DEF Setup
  <2> QED  BY <2>1, <2>2
<1>6. (\A i \in DOMAIN host : host[i].do # "add") /\ (\A i \in DOMAIN last : last[i].do # "add")
      /\ \A i \in DOMAIN head : head[i].do # "add"
  BY HostsHold, CommandHolds
<1>7. ~Unfit(c) => mid = Middle(c)
  OBVIOUS
<1> HIDE DEF head, mid, host, last, T
<1>8. mid \in Seq(T) /\ host \in Seq(T)
  BY <1>3, <1>4
<1>9. /\ head \o mid \in Seq(T) /\ Len(head \o mid) >= 1 /\ (head \o mid)[1] = head[1]
      /\ \A i \in 2..Len(head \o mid) : (head \o mid)[i] \in Fitting(c)
  <2>1. Len(head) >= 1 /\ \A i \in 2..Len(head) : head[i] \in Fitting(c)
    BY <1>2
  <2>2. Fitting(c) \subseteq T
    BY <1>1 DEF T
  <2>3. head \in Seq(T) /\ mid \in Seq(Fitting(c))
    BY <1>2, <1>3
  <2> QED  BY <2>1, <2>2, <2>3, TailFits
<1>10. /\ head \o mid \o host \in Seq(T) /\ Len(head \o mid \o host) >= 1 /\ (head \o mid \o host)[1] = head[1]
       /\ \A i \in 2..Len(head \o mid \o host) : (head \o mid \o host)[i] \in Fitting(c)
  <2>1. Fitting(c) \subseteq T
    BY <1>1 DEF T
  <2> QED  BY <1>3, <1>9, <2>1, TailFits
<1>11. PICK u \in Seq(T) : /\ u = head \o mid \o host /\ Len(u) >= 1 /\ u[1] = head[1]
                           /\ \A i \in 2..Len(u) : u[i] \in Fitting(c)
  BY <1>10
<1>12. PICK w : w = u \o last
  OBVIOUS
<1>16. /\ w \in Seq(T) /\ Len(w) = Len(u) + 1 /\ w[Len(w)] = Command("lift", {}) /\ w[1] = head[1]
       /\ Len(w) >= 2 /\ \A i \in 2..Len(w) - 1 : w[i] \in Fitting(c)
  <2>1. last \in Seq(T) /\ Len(last) = 1 /\ last[1] = Command("lift", {}) /\ 1 \in DOMAIN last
    BY <1>2
  <2>2. /\ w \in Seq(T) /\ Len(w) = Len(u) + 1
        /\ \A i \in DOMAIN u : w[i] = u[i]
        /\ \A i \in DOMAIN last : w[Len(u) + i] = last[i]
    <3>1. u \o last \in Seq(T) /\ Len(u \o last) = Len(u) + Len(last)
      BY <2>1, Joined
    <3>2. /\ \A i \in DOMAIN u : (u \o last)[i] = u[i]
          /\ \A i \in DOMAIN last : (u \o last)[Len(u) + i] = last[i]
      BY <2>1, Joined
    <3> QED  BY <1>12, <2>1, <3>1, <3>2
  <2>3. Len(u) \in Nat /\ DOMAIN u = 1..Len(u) /\ Len(u) >= 1
    BY <1>11
  <2>4. w[1] = u[1] /\ w[Len(w)] = last[1]
    BY <2>1, <2>2, <2>3
  <2>5. ASSUME NEW i \in 2..Len(w) - 1 PROVE w[i] \in Fitting(c)
    <3>1. i \in 2..Len(u) /\ i \in DOMAIN u
      BY <2>2, <2>3
    <3> QED  BY <1>11, <2>2, <3>1
  <2> QED  BY <1>11, <2>1, <2>2, <2>3, <2>4, <2>5
<1>13. ASSUME NEW x, Has(mid, x) PROVE Has(head \o mid \o host \o last, x)
  <2>1. Has(head \o mid, x)
    BY <1>2, <1>8, <1>13, HasJoined
  <2>2. Has(head \o mid \o host, x)
    BY <1>8, <1>9, <1>10, <2>1, HasJoined
  <2> QED  BY <1>2, <1>10, <2>2, HasJoined
<1>14. ASSUME NEW p, NEW a, Says(mid, p, a) PROVE Says(head \o mid \o host \o last, p, a)
  <2>1. Says(head, p, "nothing") /\ Says(host, p, "nothing") /\ Says(last, p, "nothing")
    BY <1>6, Quiet
  <2>2. Says(head \o mid, p, IF "nothing" = "nothing" THEN a ELSE "nothing")
    BY <1>2, <1>8, <1>14, <2>1, SaysJoined
  <2>3. Says(head \o mid \o host, p, IF a = "nothing" THEN "nothing" ELSE a)
    BY <1>8, <1>9, <2>1, <2>2, SaysJoined
  <2>4. Says(head \o mid \o host \o last, p, IF a = "nothing" THEN "nothing" ELSE a)
    <3>1. (IF a = "nothing" THEN "nothing" ELSE a) = a
      OBVIOUS
    <3> QED  BY <1>2, <1>10, <2>1, <2>3, <3>1, SaysJoined
  <2>5. (IF a = "nothing" THEN "nothing" ELSE a) = a
    OBVIOUS
  <2> QED  BY <2>4, <2>5
<1>15. Setup(c) = w
  BY <1>5, <1>11, <1>12
<1>17. ~Unfit(c) => (\A x : Has(Middle(c), x) => Has(w, x)) /\ \A p, a : Says(Middle(c), p, a) => Says(w, p, a)
  BY <1>7, <1>11, <1>12, <1>13, <1>14
<1> QED  BY <1>2, <1>15, <1>16, <1>17 DEF T

-----------------------------------------------------------------------------
(* The chain.                                                               *)

\* A deletion that picks one position, and one that leaves one out.
LEMMA PickOne ==
  ASSUME NEW T, NEW s \in Seq(T), NEW b \in DOMAIN s
  PROVE  Pick(s, {b}) = <<s[b]>>
<1>1. Cardinality({b}) = 1
  BY FS_Singleton
<1>2. {j \in {b} : j <= b} = {b}
  OBVIOUS
<1>3. Rank({b}, b) = 1
  BY <1>1, <1>2 DEF Rank
<1>4. (CHOOSE i \in {b} : Rank({b}, i) = 1) = b
  BY <1>3
<1>5. Pick(s, {b}) = [n \in {1} |-> s[CHOOSE i \in {b} : Rank({b}, i) = n]]
  BY <1>1 DEF Pick
<1>6. Pick(s, {b}) = [n \in {1} |-> s[b]]
  <2>1. \A n \in {1} : s[CHOOSE i \in {b} : Rank({b}, i) = n] = s[b]
    BY <1>4
  <2> QED  BY <1>5, <2>1
<1> QED  BY <1>6

LEMMA RankBut ==
  ASSUME NEW l \in Nat, NEW b \in 1..l, NEW i \in 1..l
  PROVE  /\ Cardinality((1..l) \ {b}) = l - 1
         /\ Rank((1..l) \ {b}, i) = IF i < b THEN i ELSE i - 1
<1>1. /\ IsFiniteSet(1..l) /\ Cardinality(1..l) = l /\ IsFiniteSet(1..i) /\ Cardinality(1..i) = i
  BY FS_Interval
<1>2. Cardinality((1..l) \ {b}) = l - 1
  BY <1>1, FS_RemoveElement
<1>3. CASE i < b
  <2>1. {j \in (1..l) \ {b} : j <= i} = 1..i
    BY <1>3
  <2> QED  BY <1>1, <1>2, <1>3, <2>1 DEF Rank
<1>4. CASE ~(i < b)
  <2>1. {j \in (1..l) \ {b} : j <= i} = (1..i) \ {b}
    OBVIOUS
  <2>2. b \in 1..i
    BY <1>4
  <2>3. Cardinality((1..i) \ {b}) = i - 1
    BY <1>1, <2>2, FS_RemoveElement
  <2> QED  BY <1>2, <1>4, <2>1, <2>3 DEF Rank
<1> QED  BY <1>3, <1>4

LEMMA PickBut ==
  ASSUME NEW T, NEW s \in Seq(T), NEW b \in DOMAIN s
  PROVE  /\ Pick(s, DOMAIN s \ {b}) \in Seq(T)
         /\ Pick(s, DOMAIN s \ {b}) = [n \in 1..Len(s) - 1 |-> IF n < b THEN s[n] ELSE s[n + 1]]
<1>1. PICK l \in Nat : l = Len(s) /\ DOMAIN s = 1..l /\ b \in 1..l
  OBVIOUS
<1>2. PICK P : P = (1..l) \ {b}
  OBVIOUS
<1>3. Cardinality(P) = l - 1 /\ \A i \in P : Rank(P, i) = IF i < b THEN i ELSE i - 1
  <2>1. \A i \in 1..l : /\ Cardinality((1..l) \ {b}) = l - 1
                        /\ Rank((1..l) \ {b}, i) = IF i < b THEN i ELSE i - 1
    BY <1>1, RankBut
  <2> QED  BY <1>1, <1>2, <2>1
<1>4. ASSUME NEW n \in 1..l - 1
      PROVE  s[CHOOSE i \in P : Rank(P, i) = n] = IF n < b THEN s[n] ELSE s[n + 1]
  <2> DEFINE k == IF n < b THEN n ELSE n + 1
  <2>0. k \in 1..l /\ k # b /\ n = IF k < b THEN k ELSE k - 1
    BY <1>1
  <2>1. k \in P /\ Rank(P, k) = n
    <3>1. k \in P
      BY <1>2, <2>0
    <3> HIDE DEF k
    <3> QED  BY <1>3, <2>0, <3>1
  <2>2. ASSUME NEW i \in P, Rank(P, i) = n PROVE i = k
    <3>1. i \in 1..l /\ i # b /\ n = IF i < b THEN i ELSE i - 1
      BY <1>2, <1>3, <2>2
    <3> QED  BY <1>1, <3>1
  <2> HIDE DEF k
  <2>3. (CHOOSE i \in P : Rank(P, i) = n) = k
    BY <2>1, <2>2
  <2>4. k = IF n < b THEN n ELSE n + 1
    BY DEF k
  <2>5. s[k] = IF n < b THEN s[n] ELSE s[n + 1]
    BY <2>4
  <2> QED  BY <2>3, <2>5
<1>5. Pick(s, P) = [n \in 1..l - 1 |-> IF n < b THEN s[n] ELSE s[n + 1]]
  BY <1>3, <1>4 DEF Pick
<1>6. [n \in 1..l - 1 |-> IF n < b THEN s[n] ELSE s[n + 1]] \in Seq(T)
  <2>1. \A n \in 1..l - 1 : (IF n < b THEN s[n] ELSE s[n + 1]) \in T
    BY <1>1
  <2>2. l - 1 \in Nat
    BY <1>1
  <2> QED  BY <2>1, <2>2
<1> QED  BY <1>1, <1>2, <1>5, <1>6

\* Where the rules of a setup are.
LEMMA PlacesHold ==
  ASSUME NEW c \in ConfigType, NEW L, L = Len(Setup(c))
  PROVE  /\ L \in Nat /\ L >= 2 /\ AddsAt(c) \subseteq 2..L - 1
         /\ \A i \in AddsAt(c) : Setup(c)[i].do = "add" /\ Setup(c)[i].arg \in Policies
                                 /\ (c.mode = "open" => Setup(c)[i].arg.act = "accept")
         /\ Rank(AddsAt(c), 0) = 0 /\ \A d \in 0..L : Rank(AddsAt(c), d) \in Nat
         /\ \A d \in 1..L : Rank(AddsAt(c), d) =
              IF d \in AddsAt(c) THEN Rank(AddsAt(c), d - 1) + 1 ELSE Rank(AddsAt(c), d - 1)
         /\ \A d, e \in 0..L : d <= e => Rank(AddsAt(c), d) <= Rank(AddsAt(c), e)
         /\ \A d \in 0..L : \A q \in 1..Rank(AddsAt(c), d) :
              \E j \in AddsAt(c) : j <= d /\ Rank(AddsAt(c), j) = q
<1>1. L \in Nat /\ L >= 2 /\ DOMAIN Setup(c) = 1..L
  BY SetupHolds
<1>2. ASSUME NEW i \in AddsAt(c)
      PROVE  i \in 2..L - 1 /\ Setup(c)[i].do = "add" /\ Setup(c)[i].arg \in Policies
             /\ (c.mode = "open" => Setup(c)[i].arg.act = "accept")
  <2>1. i \in 1..L /\ Setup(c)[i].do = "add"
    BY <1>1 DEF AddsAt
  <2>2. Setup(c)[1].do # "add" /\ Setup(c)[L].do # "add"
    BY SetupHolds, CommandHolds
  <2>3. i \in 2..L - 1
    BY <1>1, <2>1, <2>2
  <2>4. Setup(c)[i] \in Fitting(c)
    BY <2>3, SetupHolds
  <2> QED  BY <2>1, <2>3, <2>4 DEF Fitting, Fits, Policies
<1>3. PICK P : P = AddsAt(c) /\ P \in SUBSET 1..L
  BY <1>1, <1>2
<1>4. /\ Rank(P, 0) = 0 /\ \A d \in 0..L : Rank(P, d) \in Nat
      /\ \A d \in 1..L : Rank(P, d) = IF d \in P THEN Rank(P, d - 1) + 1 ELSE Rank(P, d - 1)
      /\ \A d, e \in 0..L : d <= e => Rank(P, d) <= Rank(P, e)
  <2>1. L \in Nat /\ P \in SUBSET 1..L
    BY <1>1, <1>3
  <2> QED  BY <2>1, RankSteps
<1>5. ASSUME NEW d \in 0..L, NEW q \in 1..Rank(P, d) PROVE \E j \in P : j <= d /\ Rank(P, j) = q
  <2> DEFINE S == {e \in 0..L : Rank(P, e) >= q}
  <2>0. q \in Nat /\ q >= 1 /\ Rank(P, d) >= q
    BY <1>4
  <2>1. S \in SUBSET Nat /\ S # {}
    BY <1>1, <2>0
  <2>2. PICK j \in S : \A k \in S : j <= k
    BY <2>1, Least
  <2>3. j \in 0..L /\ Rank(P, j) >= q /\ j <= d /\ j # 0
    BY <1>4, <2>0, <2>2
  <2>4. j - 1 \in 0..L /\ j \in 1..L /\ ~(Rank(P, j - 1) >= q)
    <3>1. j - 1 \in 0..L /\ j \in 1..L /\ ~(j <= j - 1)
      BY <1>1, <2>3
    <3>2. j - 1 \notin S
      BY <2>2, <3>1
    <3> QED  BY <3>1, <3>2
  <2>5. Rank(P, j) \in Nat /\ Rank(P, j - 1) \in Nat
        /\ Rank(P, j) = IF j \in P THEN Rank(P, j - 1) + 1 ELSE Rank(P, j - 1)
    BY <1>4, <2>4
  <2>6. j \in P /\ Rank(P, j) = q
    BY <2>0, <2>3, <2>4, <2>5
  <2> QED  BY <2>3, <2>6
<1> QED  BY <1>1, <1>2, <1>3, <1>4, <1>5

LEMMA RanksHold ==
  ASSUME NEW c \in ConfigType
  PROVE  /\ AddsAt(c) \subseteq 1..Len(Setup(c)) /\ AddsAt(c) \subseteq Nat
         /\ \A e \in 0..Len(Setup(c)) : Rank(AddsAt(c), e) \in Nat
         /\ \A i \in AddsAt(c) : Rank(AddsAt(c), i) >= 1
         /\ \A e, f \in 0..Len(Setup(c)) : e <= f => Rank(AddsAt(c), e) <= Rank(AddsAt(c), f)
<1>1. PICK L \in Nat : L = Len(Setup(c)) /\ AddsAt(c) \subseteq 2..L - 1
  BY PlacesHold
<1>2. /\ \A e \in 0..L : Rank(AddsAt(c), e) \in Nat
      /\ \A e \in 1..L : Rank(AddsAt(c), e) =
           IF e \in AddsAt(c) THEN Rank(AddsAt(c), e - 1) + 1 ELSE Rank(AddsAt(c), e - 1)
      /\ \A e, f \in 0..L : e <= f => Rank(AddsAt(c), e) <= Rank(AddsAt(c), f)
  BY <1>1, PlacesHold
<1>3. ASSUME NEW i \in AddsAt(c) PROVE Rank(AddsAt(c), i) >= 1 /\ i \in 1..L /\ i \in Nat
  <2>1. i \in 1..L /\ i - 1 \in 0..L /\ i \in Nat
    BY <1>1
  <2> QED  BY <1>2, <2>1
<1> QED  BY <1>1, <1>2, <1>3

LEMMA BlockHolds ==
  /\ BootBlock \in RuleType /\ BootBlock.set = "boot" /\ BootBlock.act = "reject"
  /\ BootBlock.dsts = Addresses /\ BootBlock.svcs = Services
BY DEF BootBlock, Rule, RuleType

LEMMA FrontGrows ==
  ASSUME NEW ch, NEW A, NEW B, A \subseteq B, NEW m, NEW b, Fronted(ch, A, m, b)
  PROVE  Fronted(ch, B, m, b)
BY DEF Fronted

LEMMA FrontAppends ==
  ASSUME NEW ch \in Seq(RuleType), NEW r \in RuleType, NEW A, NEW m, NEW b \in {0, 1}, Fronted(ch, A, m, b)
  PROVE  Append(ch, r) \in Seq(RuleType) /\ Fronted(Append(ch, r), A, m, b)
<1>1. m \in Nat /\ m + b <= Len(ch) /\ (b = 1 => ch[m + 1] = BootBlock)
      /\ \A i \in 1..m : ch[i] \in Grants /\ Through(ch[i]) \subseteq A
  BY DEF Fronted
<1>2. /\ Append(ch, r) \in Seq(RuleType) /\ Len(Append(ch, r)) = Len(ch) + 1 /\ Len(ch) \in Nat
      /\ \A i \in 1..Len(ch) : Append(ch, r)[i] = ch[i]
  OBVIOUS
<1>3. \A i \in 1..m : i \in 1..Len(ch)
  BY <1>1, <1>2
<1>4. b = 1 => m + 1 \in 1..Len(ch)
  BY <1>1, <1>2
<1> QED  BY <1>1, <1>2, <1>3, <1>4 DEF Fronted

LEMMA Prefixed ==
  ASSUME NEW ch \in Seq(RuleType), NEW g \in RuleType
  PROVE  /\ <<g>> \o ch \in Seq(RuleType) /\ Len(<<g>> \o ch) = Len(ch) + 1 /\ Len(ch) \in Nat
         /\ (<<g>> \o ch)[1] = g /\ \A i \in 1..Len(ch) : (<<g>> \o ch)[i + 1] = ch[i]
<1>1. <<g>> \in Seq(RuleType) /\ Len(<<g>>) = 1 /\ <<g>>[1] = g
  OBVIOUS
<1>2. PICK s \in Seq(RuleType) : s = <<g>> /\ Len(s) = 1 /\ s[1] = g
  BY <1>1
<1>3. /\ s \o ch \in Seq(RuleType) /\ Len(s \o ch) = 1 + Len(ch) /\ Len(ch) \in Nat
      /\ \A i \in 1..1 + Len(ch) : (s \o ch)[i] = IF i <= 1 THEN s[i] ELSE ch[i - 1]
  BY <1>2
<1>4. (s \o ch)[1] = g
  BY <1>2, <1>3
<1>5. ASSUME NEW i \in 1..Len(ch) PROVE (s \o ch)[i + 1] = ch[i]
  <2>1. i + 1 \in 1..1 + Len(ch) /\ ~(i + 1 <= 1) /\ (i + 1) - 1 = i
    BY <1>3
  <2> QED  BY <1>3, <2>1
<1> QED  BY <1>2, <1>3, <1>4, <1>5

LEMMA FrontInserts ==
  ASSUME NEW ch \in Seq(RuleType), NEW g \in Grants, NEW A, Through(g) \subseteq A,
         NEW m, NEW b \in {0, 1}, Fronted(ch, A, m, b)
  PROVE  <<g>> \o ch \in Seq(RuleType) /\ Fronted(<<g>> \o ch, A, m + 1, b)
<1>1. m \in Nat /\ m + b <= Len(ch) /\ (b = 1 => ch[m + 1] = BootBlock)
      /\ \A i \in 1..m : ch[i] \in Grants /\ Through(ch[i]) \subseteq A
  BY DEF Fronted
<1>2. PICK t \in Seq(RuleType) : t = <<g>> \o ch /\ Len(t) = Len(ch) + 1 /\ Len(ch) \in Nat
      /\ t[1] = g /\ \A i \in 1..Len(ch) : t[i + 1] = ch[i]
  BY GrantHolds, Prefixed
<1>3. ASSUME NEW i \in 1..m + 1 PROVE t[i] \in Grants /\ Through(t[i]) \subseteq A
  <2>1. CASE i = 1
    BY <1>2, <2>1
  <2>2. CASE i # 1
    <3>1. i - 1 \in 1..m /\ i - 1 \in 1..Len(ch) /\ (i - 1) + 1 = i
      BY <1>1, <1>2, <2>2
    <3> QED  BY <1>1, <1>2, <3>1
  <2> QED  BY <2>1, <2>2
<1>4. b = 1 => t[m + 1 + 1] = BootBlock
  <2>1. b = 1 => m + 1 \in 1..Len(ch)
    BY <1>1, <1>2
  <2> QED  BY <1>1, <1>2, <2>1
<1>5. m + 1 \in Nat /\ m + 1 + b <= Len(t)
  BY <1>1, <1>2
<1>6. Fronted(t, A, m + 1, b)
  BY <1>3, <1>4, <1>5 DEF Fronted
<1> QED  BY <1>2, <1>6

LEMMA PolicedInserts ==
  ASSUME NEW c \in ConfigType, NEW ch \in Seq(RuleType), NEW g \in Grants,
         NEW k \in Nat, k <= Len(ch), NEW d \in 0..Len(Setup(c)), Policed(c, ch, k, d)
  PROVE  Policed(c, <<g>> \o ch, k + 1, d)
<1>1. PICK t \in Seq(RuleType) : t = <<g>> \o ch /\ Len(t) = Len(ch) + 1 /\ Len(ch) \in Nat
      /\ \A i \in 1..Len(ch) : t[i + 1] = ch[i]
  BY GrantHolds, Prefixed
<1>2. CASE c.mode = "open"
  <2>1. \A i \in k + 1..Len(ch) : ch[i] # BootBlock /\ ch[i].act = "accept"
    BY <1>2 DEF Policed
  <2>2. ASSUME NEW i \in k + 1 + 1..Len(t) PROVE t[i] # BootBlock /\ t[i].act = "accept"
    <3>1. i - 1 \in k + 1..Len(ch) /\ i - 1 \in 1..Len(ch) /\ (i - 1) + 1 = i
      BY <1>1
    <3> QED  BY <1>1, <2>1, <3>1
  <2> QED  BY <1>1, <1>2, <2>2 DEF Policed
<1>3. CASE c.mode # "open"
  <2>1. /\ Len(ch) = k + Rank(AddsAt(c), d)
        /\ \A i \in AddsAt(c) : i <= d => ch[k + Rank(AddsAt(c), i)] = Setup(c)[i].arg
    BY <1>3 DEF Policed
  <2>2. /\ AddsAt(c) \subseteq 1..Len(Setup(c)) /\ \A e \in 0..Len(Setup(c)) : Rank(AddsAt(c), e) \in Nat
        /\ \A i \in AddsAt(c) : Rank(AddsAt(c), i) >= 1
        /\ \A e, f \in 0..Len(Setup(c)) : e <= f => Rank(AddsAt(c), e) <= Rank(AddsAt(c), f)
    BY RanksHold
  <2>3. ASSUME NEW i \in AddsAt(c), i <= d PROVE t[k + 1 + Rank(AddsAt(c), i)] = Setup(c)[i].arg
    <3>1. k + Rank(AddsAt(c), i) \in 1..Len(ch) /\ (k + Rank(AddsAt(c), i)) + 1 = k + 1 + Rank(AddsAt(c), i)
      <4>1. i \in 0..Len(Setup(c)) /\ d \in 0..Len(Setup(c)) /\ Rank(AddsAt(c), i) \in Nat /\ Rank(AddsAt(c), d) \in Nat
        BY <2>2
      <4>2. Rank(AddsAt(c), i) <= Rank(AddsAt(c), d) /\ Rank(AddsAt(c), i) >= 1
        BY <2>2, <2>3, <4>1
      <4> QED  BY <1>1, <2>1, <4>1, <4>2
    <3> QED  BY <1>1, <2>1, <2>3, <3>1
  <2>4. Len(t) = k + 1 + Rank(AddsAt(c), d)
    BY <1>1, <2>1, <2>2
  <2> QED  BY <1>1, <1>3, <2>3, <2>4 DEF Policed
<1> QED  BY <1>2, <1>3

\* A command that is no rule leaves the policy as it is.
LEMMA PolicedKeeps ==
  ASSUME NEW c \in ConfigType, NEW ch, NEW k, NEW d \in 0..Len(Setup(c)) - 1, d + 1 \notin AddsAt(c),
         Policed(c, ch, k, d)
  PROVE  Policed(c, ch, k, d + 1)
<1>1. CASE c.mode = "open"
  BY <1>1 DEF Policed
<1>2. CASE c.mode # "open"
  <2>1. d + 1 \in 1..Len(Setup(c)) /\ d \in Nat /\ (d + 1) - 1 = d
    BY PlacesHold
  <2>2. Rank(AddsAt(c), d + 1) = Rank(AddsAt(c), d)
    <3>1. \A e \in 1..Len(Setup(c)) : Rank(AddsAt(c), e) =
            IF e \in AddsAt(c) THEN Rank(AddsAt(c), e - 1) + 1 ELSE Rank(AddsAt(c), e - 1)
      BY PlacesHold
    <3> QED  BY <2>1, <3>1
  <2>3. \A i \in AddsAt(c) : i <= d + 1 => i <= d
    <3>1. AddsAt(c) \subseteq Nat
      BY RanksHold
    <3> QED  BY <2>1, <3>1
  <2> QED  BY <1>2, <2>2, <2>3 DEF Policed
<1> QED  BY <1>1, <1>2

LEMMA PolicedAdds ==
  ASSUME NEW c \in ConfigType, NEW ch \in Seq(RuleType), NEW k \in Nat, k <= Len(ch),
         NEW d \in 0..Len(Setup(c)) - 1, d + 1 \in AddsAt(c), NEW r, r = Setup(c)[d + 1].arg,
         Policed(c, ch, k, d)
  PROVE  r \in RuleType /\ Policed(c, Append(ch, r), k, d + 1)
<1>1. r \in RuleType /\ r.set # "boot" /\ (c.mode = "open" => r.act = "accept")
  BY PlacesHold DEF Policies
<1>2. PICK t \in Seq(RuleType) : /\ t = Append(ch, r) /\ Len(t) = Len(ch) + 1 /\ Len(ch) \in Nat
                                 /\ t[Len(ch) + 1] = r /\ \A i \in 1..Len(ch) : t[i] = ch[i]
  <2>1. r \in RuleType
    BY <1>1
  <2>2. /\ Append(ch, r) \in Seq(RuleType) /\ Len(Append(ch, r)) = Len(ch) + 1 /\ Len(ch) \in Nat
        /\ Append(ch, r)[Len(ch) + 1] = r /\ \A i \in 1..Len(ch) : Append(ch, r)[i] = ch[i]
    BY <2>1
  <2> QED  BY <2>2
<1>3. r # BootBlock
  BY <1>1, BlockHolds
<1>4. CASE c.mode = "open"
  <2>1. ASSUME NEW i \in k + 1..Len(t) PROVE t[i] # BootBlock /\ t[i].act = "accept"
    <3>1. CASE i = Len(ch) + 1
      BY <1>1, <1>2, <1>3, <1>4, <3>1
    <3>2. CASE i # Len(ch) + 1
      <4>1. i \in k + 1..Len(ch) /\ i \in 1..Len(ch)
        BY <1>2, <3>2
      <4> QED  BY <1>2, <1>4, <4>1 DEF Policed
    <3> QED  BY <3>1, <3>2
  <2> QED  BY <1>1, <1>2, <1>4, <2>1 DEF Policed
<1>5. CASE c.mode # "open"
  <2>1. /\ Len(ch) = k + Rank(AddsAt(c), d)
        /\ \A i \in AddsAt(c) : i <= d => ch[k + Rank(AddsAt(c), i)] = Setup(c)[i].arg
    BY <1>5 DEF Policed
  <2>2. /\ AddsAt(c) \subseteq 1..Len(Setup(c)) /\ \A e \in 0..Len(Setup(c)) : Rank(AddsAt(c), e) \in Nat
        /\ \A i \in AddsAt(c) : Rank(AddsAt(c), i) >= 1
        /\ \A e, f \in 0..Len(Setup(c)) : e <= f => Rank(AddsAt(c), e) <= Rank(AddsAt(c), f)
    BY RanksHold
  <2>3. d + 1 \in 1..Len(Setup(c)) /\ d \in 0..Len(Setup(c)) /\ d \in Nat /\ (d + 1) - 1 = d
    BY PlacesHold
  <2>4. Rank(AddsAt(c), d + 1) = Rank(AddsAt(c), d) + 1
    <3>1. \A e \in 1..Len(Setup(c)) : Rank(AddsAt(c), e) =
            IF e \in AddsAt(c) THEN Rank(AddsAt(c), e - 1) + 1 ELSE Rank(AddsAt(c), e - 1)
      BY PlacesHold
    <3> QED  BY <2>3, <3>1
  <2>5. ASSUME NEW i \in AddsAt(c), i <= d + 1 PROVE t[k + Rank(AddsAt(c), i)] = Setup(c)[i].arg
    <3>1. CASE i = d + 1
      <4>1. k + Rank(AddsAt(c), i) = Len(ch) + 1
        BY <2>1, <2>2, <2>3, <2>4, <3>1
      <4> QED  BY <1>2, <3>1, <4>1
    <3>2. CASE i # d + 1
      <4>1. i <= d /\ i \in 0..Len(Setup(c))
        BY <2>2, <2>3, <2>5, <3>2
      <4>2. Rank(AddsAt(c), i) <= Rank(AddsAt(c), d) /\ Rank(AddsAt(c), i) >= 1
        BY <2>2, <2>3, <4>1
      <4>3. k + Rank(AddsAt(c), i) \in 1..Len(ch)
        BY <1>2, <2>1, <2>2, <2>3, <4>1, <4>2
      <4> QED  BY <1>2, <2>1, <4>1, <4>3
    <3> QED  BY <3>1, <3>2
  <2>6. Len(t) = k + Rank(AddsAt(c), d + 1)
    BY <1>2, <2>1, <2>2, <2>3, <2>4
  <2> QED  BY <1>1, <1>2, <1>5, <2>5, <2>6 DEF Policed
<1> QED  BY <1>4, <1>5

\* No rule of a policy is the boot block.
LEMMA PolicyIsNoBlock ==
  ASSUME NEW c \in ConfigType, NEW ch \in Seq(RuleType), NEW k \in Nat, NEW d \in 0..Len(Setup(c)),
         Policed(c, ch, k, d), NEW i \in k + 1..Len(ch)
  PROVE  ch[i] # BootBlock
<1>1. CASE c.mode = "open"
  BY <1>1 DEF Policed
<1>2. CASE c.mode # "open"
  <2>1. /\ Len(ch) = k + Rank(AddsAt(c), d) /\ Rank(AddsAt(c), d) \in Nat
        /\ \A j \in AddsAt(c) : j <= d => ch[k + Rank(AddsAt(c), j)] = Setup(c)[j].arg
    BY <1>2, RanksHold DEF Policed
  <2>2. i - k \in 1..Rank(AddsAt(c), d) /\ k + (i - k) = i
    BY <2>1
  <2>3. PICK j \in AddsAt(c) : j <= d /\ Rank(AddsAt(c), j) = i - k
    <3>1. \A q \in 1..Rank(AddsAt(c), d) : \E j \in AddsAt(c) : j <= d /\ Rank(AddsAt(c), j) = q
      BY PlacesHold
    <3> QED  BY <2>2, <3>1
  <2>4. ch[i] = Setup(c)[j].arg
    BY <2>1, <2>2, <2>3
  <2>5. Setup(c)[j].arg \in Policies
    BY PlacesHold
  <2> QED  BY <2>4, <2>5, BlockHolds DEF Policies
<1> QED  BY <1>1, <1>2

\* The boot block is where the front says, and nowhere else.
LEMMA BlockPlace ==
  ASSUME NEW c \in ConfigType, NEW ch \in Seq(RuleType), NEW A, NEW m \in Nat, NEW d \in 0..Len(Setup(c)),
         Fronted(ch, A, m, 1), Policed(c, ch, m + 1, d)
  PROVE  m + 1 \in DOMAIN ch /\ ch[m + 1] = BootBlock /\ Places(ch, {BootBlock}) = {m + 1}
<1>1. m + 1 <= Len(ch) /\ ch[m + 1] = BootBlock /\ \A i \in 1..m : ch[i] \in Grants
  BY DEF Fronted
<1>2. DOMAIN ch = 1..Len(ch) /\ Len(ch) \in Nat
  OBVIOUS
<1>3. \A i \in 1..m : ch[i] # BootBlock
  BY <1>1, GrantHolds
<1>4. \A i \in m + 1 + 1..Len(ch) : ch[i] # BootBlock
  BY PolicyIsNoBlock
<1>5. \A i \in 1..Len(ch) : i \in 1..m \/ i = m + 1 \/ i \in m + 1 + 1..Len(ch)
  BY <1>2
<1>6. m + 1 \in 1..Len(ch)
  BY <1>1, <1>2
<1>7. \A i \in DOMAIN ch : ch[i] \in {BootBlock} <=> i = m + 1
  BY <1>1, <1>2, <1>3, <1>4, <1>5
<1> QED  BY <1>1, <1>2, <1>6, <1>7 DEF Places

LEMMA PurgeHolds ==
  ASSUME NEW c \in ConfigType, NEW ch \in Seq(RuleType), NEW A, NEW B, NEW m \in Nat,
         Fronted(ch, A, m, 1), Policed(c, ch, m + 1, 0),
         NEW t, t = Pick(ch, Places(ch, {BootBlock}))
  PROVE  t \in Seq(RuleType) /\ Fronted(t, B, 0, 1) /\ Policed(c, t, 0 + 1, 0)
<1>1. m + 1 \in DOMAIN ch /\ ch[m + 1] = BootBlock /\ Places(ch, {BootBlock}) = {m + 1}
  <2>1. 0 \in 0..Len(Setup(c))
    BY SetupHolds
  <2> QED  BY <2>1, BlockPlace
<1>2. t = <<BootBlock>>
  BY <1>1, PickOne
<1>3. t \in Seq(RuleType) /\ Len(t) = 1 /\ t[1] = BootBlock
  <2>1. BootBlock \in RuleType
    BY BlockHolds
  <2>2. <<BootBlock>> \in Seq(RuleType) /\ Len(<<BootBlock>>) = 1 /\ <<BootBlock>>[1] = BootBlock
    BY <2>1
  <2> QED  BY <1>2, <2>2
<1>4. Fronted(t, B, 0, 1)
  BY <1>3 DEF Fronted
<1>5. Rank(AddsAt(c), 0) = 0 /\ \A i \in AddsAt(c) : ~(i <= 0)
  <2>1. AddsAt(c) \subseteq 2..Len(Setup(c)) - 1 /\ Len(Setup(c)) \in Nat
    BY PlacesHold
  <2>2. \A i \in AddsAt(c) : ~(i <= 0)
    BY <2>1
  <2> QED  BY <2>2, PlacesHold
<1>6. Policed(c, t, 0 + 1, 0)
  <2>1. PICK u : u = t /\ Len(u) = 1
    BY <1>3
  <2>2. Len(u) = 0 + 1 + Rank(AddsAt(c), 0) /\ \A i \in 0 + 1 + 1..Len(u) : FALSE
    <3>1. Len(u) = 0 + 1 + 0 /\ \A n : n = 1 => \A i \in 0 + 1 + 1..n : FALSE
      BY <2>1
    <3> QED  BY <1>5, <2>1, <3>1
  <2>3. Policed(c, u, 0 + 1, 0)
    BY <1>5, <2>2 DEF Policed
  <2> QED  BY <2>1, <2>3
<1> QED  BY <1>3, <1>4, <1>6

LEMMA LiftHolds ==
  ASSUME NEW c \in ConfigType, NEW ch \in Seq(RuleType), NEW A, NEW m \in Nat, NEW d \in 0..Len(Setup(c)),
         Fronted(ch, A, m, 1), Policed(c, ch, m + 1, d),
         NEW t, t = Pick(ch, DOMAIN ch \ Places(ch, {BootBlock}))
  PROVE  t \in Seq(RuleType) /\ Fronted(t, A, m, 0) /\ Policed(c, t, m, d)
<1>1. m + 1 \in DOMAIN ch /\ Places(ch, {BootBlock}) = {m + 1}
  BY BlockPlace
<1>2. /\ t \in Seq(RuleType)
      /\ t = [n \in 1..Len(ch) - 1 |-> IF n < m + 1 THEN ch[n] ELSE ch[n + 1]]
  BY <1>1, PickBut
<1>3. Len(ch) \in Nat /\ Len(ch) >= m + 1 /\ Len(ch) - 1 \in Nat
  BY <1>1
<1>4. Len(t) = Len(ch) - 1
  BY <1>2, <1>3
<1>5. /\ \A i \in 1..m : i \in 1..Len(ch) - 1 /\ t[i] = ch[i]
      /\ \A i \in m + 1..Len(t) : i \in 1..Len(ch) - 1 /\ t[i] = ch[i + 1] /\ i + 1 \in m + 1 + 1..Len(ch)
  <2>1. ASSUME NEW i \in 1..m PROVE i \in 1..Len(ch) - 1 /\ t[i] = ch[i]
    <3>1. i \in 1..Len(ch) - 1 /\ i < m + 1
      BY <1>3
    <3> QED  BY <1>2, <3>1
  <2>2. ASSUME NEW i \in m + 1..Len(t) PROVE i \in 1..Len(ch) - 1 /\ t[i] = ch[i + 1] /\ i + 1 \in m + 1 + 1..Len(ch)
    <3>1. i \in 1..Len(ch) - 1 /\ ~(i < m + 1) /\ i + 1 \in m + 1 + 1..Len(ch)
      BY <1>3, <1>4
    <3> QED  BY <1>2, <3>1
  <2> QED  BY <2>1, <2>2
<1>6. PICK u \in Seq(RuleType) :
        /\ u = t /\ Len(u) = Len(ch) - 1
        /\ \A i \in 1..m : i \in 1..Len(ch) - 1 /\ u[i] = ch[i]
        /\ \A i \in m + 1..Len(u) : i \in 1..Len(ch) - 1 /\ u[i] = ch[i + 1] /\ i + 1 \in m + 1 + 1..Len(ch)
  BY <1>2, <1>4, <1>5
<1>7. Fronted(u, A, m, 0)
  <2>1. \A i \in 1..m : ch[i] \in Grants /\ Through(ch[i]) \subseteq A
    BY DEF Fronted
  <2>2. m + 0 <= Len(u)
    BY <1>3, <1>6
  <2>3. \A i \in 1..m : u[i] \in Grants /\ Through(u[i]) \subseteq A
    BY <1>6, <2>1
  <2> QED  BY <2>2, <2>3 DEF Fronted
<1>8. CASE c.mode = "open"
  <2>1. \A i \in m + 1 + 1..Len(ch) : ch[i] # BootBlock /\ ch[i].act = "accept"
    BY <1>8 DEF Policed
  <2> QED  BY <1>6, <1>7, <1>8, <2>1 DEF Policed
<1>9. CASE c.mode # "open"
  <2>1. /\ Len(ch) = m + 1 + Rank(AddsAt(c), d) /\ Rank(AddsAt(c), d) \in Nat
        /\ \A i \in AddsAt(c) : i <= d => ch[m + 1 + Rank(AddsAt(c), i)] = Setup(c)[i].arg
    BY <1>9, RanksHold DEF Policed
  <2>2. ASSUME NEW i \in AddsAt(c), i <= d PROVE u[m + Rank(AddsAt(c), i)] = Setup(c)[i].arg
    <3>1. i \in 0..Len(Setup(c)) /\ Rank(AddsAt(c), i) \in Nat /\ Rank(AddsAt(c), i) >= 1
      <4>1. AddsAt(c) \subseteq 1..Len(Setup(c)) /\ Len(Setup(c)) \in Nat
        BY RanksHold, SetupHolds
      <4>2. i \in 0..Len(Setup(c))
        BY <4>1
      <4> QED  BY <4>2, RanksHold
    <3>2. Rank(AddsAt(c), i) <= Rank(AddsAt(c), d)
      BY <2>2, <3>1, RanksHold
    <3>3. PICK r \in Nat : r = Rank(AddsAt(c), i)
      BY <3>1
    <3>4. m + r \in m + 1..Len(u) /\ (m + r) + 1 = m + 1 + r
      <4>1. PICK q \in Nat : q = Rank(AddsAt(c), d) /\ Len(ch) = m + 1 + q
        BY <2>1
      <4>2. Len(u) = m + q
        BY <1>6, <4>1
      <4>3. r >= 1 /\ r <= q
        BY <3>1, <3>2, <3>3, <4>1
      <4> QED  BY <4>2, <4>3
    <3> QED  BY <1>6, <2>1, <2>2, <3>3, <3>4
  <2>3. Len(u) = m + Rank(AddsAt(c), d)
    BY <1>3, <1>6, <2>1
  <2>4. Policed(c, u, m, d)
    BY <1>9, <2>2, <2>3 DEF Policed
  <2> QED  BY <1>6, <1>7, <2>4
<1> QED  BY <1>8, <1>9

-----------------------------------------------------------------------------
(* What a command does to the rules and the sets.                           *)

Net(ch, i, l, a, t, b) ==
  [chain |-> ch, input |-> i, listed |-> l, addresses |-> a, tuples |-> t, block |-> b]

LEMMA NetFields ==
  ASSUME NEW ch, NEW i, NEW l, NEW a, NEW t, NEW b
  PROVE  /\ Net(ch, i, l, a, t, b).chain = ch /\ Net(ch, i, l, a, t, b).input = i
         /\ Net(ch, i, l, a, t, b).listed = l /\ Net(ch, i, l, a, t, b).addresses = a
         /\ Net(ch, i, l, a, t, b).tuples = t /\ Net(ch, i, l, a, t, b).block = b
BY DEF Net

LEMMA NetTyped ==
  ASSUME NEW ch \in Seq(RuleType), NEW i \in BOOLEAN, NEW l \in BOOLEAN, NEW a \in SUBSET Addresses,
         NEW t \in SUBSET Packets, NEW b \in SUBSET (Addresses \X STRING)
  PROVE  Net(ch, i, l, a, t, b) \in NetType
BY DEF Net, NetType

LEMMA NetUpdates ==
  ASSUME NEW n \in NetType, NEW v
  PROVE  /\ [n EXCEPT !.chain = v] = Net(v, n.input, n.listed, n.addresses, n.tuples, n.block)
         /\ [n EXCEPT !.input = v] = Net(n.chain, v, n.listed, n.addresses, n.tuples, n.block)
         /\ [n EXCEPT !.listed = v] = Net(n.chain, n.input, v, n.addresses, n.tuples, n.block)
         /\ [n EXCEPT !.addresses = v] = Net(n.chain, n.input, n.listed, v, n.tuples, n.block)
         /\ [n EXCEPT !.tuples = v] = Net(n.chain, n.input, n.listed, n.addresses, v, n.block)
         /\ [n EXCEPT !.block = v] = Net(n.chain, n.input, n.listed, n.addresses, n.tuples, v)
<1>1. PICK ch, i, l, a, t, b :
        n = [chain |-> ch, input |-> i, listed |-> l, addresses |-> a, tuples |-> t, block |-> b]
  BY DEF NetType
<1>2. [n EXCEPT !.chain = v] = Net(v, n.input, n.listed, n.addresses, n.tuples, n.block)
  BY <1>1 DEF Net
<1>3. [n EXCEPT !.input = v] = Net(n.chain, v, n.listed, n.addresses, n.tuples, n.block)
  BY <1>1 DEF Net
<1>4. [n EXCEPT !.listed = v] = Net(n.chain, n.input, v, n.addresses, n.tuples, n.block)
  BY <1>1 DEF Net
<1>5. [n EXCEPT !.addresses = v] = Net(n.chain, n.input, n.listed, v, n.tuples, n.block)
  BY <1>1 DEF Net
<1>6. [n EXCEPT !.tuples = v] = Net(n.chain, n.input, n.listed, n.addresses, v, n.block)
  BY <1>1 DEF Net
<1>7. [n EXCEPT !.block = v] = Net(n.chain, n.input, n.listed, n.addresses, n.tuples, v)
  BY <1>1 DEF Net
<1> QED  BY <1>2, <1>3, <1>4, <1>5, <1>6, <1>7

LEMMA DoPurges ==
  ASSUME NEW n, NEW x, x.do = "purge"
  PROVE  Do(n, x) = Net(Pick(n.chain, Places(n.chain, {BootBlock})), FALSE, FALSE, {}, {}, n.block)
BY DEF Do, Purged, NoNet, Net

LEMMA DoesNothing == ASSUME NEW n, NEW x, x.do = "none" PROVE Do(n, x) = n
BY DEF Do

LEMMA DoAdds ==
  ASSUME NEW n \in NetType, NEW x, x.do = "add"
  PROVE  Do(n, x) = Net(Append(n.chain, x.arg), n.input, n.listed, n.addresses, n.tuples, n.block)
<1>1. Do(n, x) = [n EXCEPT !.chain = Append(@, x.arg)]
  BY DEF Do
<1> QED  BY <1>1, NetUpdates

LEMMA DoInserts ==
  ASSUME NEW n \in NetType, NEW x, x.do = "insert"
  PROVE  Do(n, x) = Net(<<x.arg>> \o n.chain, n.input, n.listed, n.addresses, n.tuples, n.block)
<1>1. Do(n, x) = [n EXCEPT !.chain = <<x.arg>> \o @]
  BY DEF Do
<1> QED  BY <1>1, NetUpdates

LEMMA DoBlocks ==
  ASSUME NEW n \in NetType, NEW x, x.do = "blockInput"
  PROVE  /\ Do(n, x) \in NetType /\ Do(n, x).input
         /\ Do(n, x).chain = n.chain /\ Do(n, x).listed = n.listed /\ Do(n, x).addresses = n.addresses
         /\ Do(n, x).tuples = n.tuples /\ Do(n, x).block = n.block
<1>1. Do(n, x) = [n EXCEPT !.input = TRUE]
  BY DEF Do
<1> QED  BY <1>1 DEF NetType

LEMMA DoLists ==
  ASSUME NEW n \in NetType, NEW x, x.do = "sets"
  PROVE  /\ Do(n, x) \in NetType /\ Do(n, x).listed
         /\ Do(n, x).chain = n.chain /\ Do(n, x).input = n.input /\ Do(n, x).addresses = n.addresses
         /\ Do(n, x).tuples = n.tuples /\ Do(n, x).block = n.block
<1>1. Do(n, x) = [n EXCEPT !.listed = TRUE]
  BY DEF Do
<1> QED  BY <1>1 DEF NetType

LEMMA DoAddresses ==
  ASSUME NEW n \in NetType, NEW x, x.do = "addresses"
  PROVE  Do(n, x) = Net(n.chain, n.input, n.listed, n.addresses \cup x.arg, n.tuples, n.block)
<1>1. Do(n, x) = [n EXCEPT !.addresses = @ \cup x.arg]
  BY DEF Do
<1> QED  BY <1>1, NetUpdates

LEMMA DoTuples ==
  ASSUME NEW n \in NetType, NEW x, x.do = "tuples"
  PROVE  Do(n, x) = Net(n.chain, n.input, n.listed, n.addresses, n.tuples \cup x.arg, n.block)
<1>1. Do(n, x) = [n EXCEPT !.tuples = @ \cup x.arg]
  BY DEF Do
<1> QED  BY <1>1, NetUpdates

LEMMA DoNames ==
  ASSUME NEW n \in NetType, NEW x, x.do = "names"
  PROVE  Do(n, x) = Net(n.chain, n.input, n.listed, n.addresses, n.tuples, x.arg)
<1>1. Do(n, x) = [n EXCEPT !.block = x.arg]
  BY DEF Do
<1> QED  BY <1>1, NetUpdates

LEMMA DoLifts ==
  ASSUME NEW n \in NetType, NEW x, x.do = "lift"
  PROVE  Do(n, x) = Net(Pick(n.chain, DOMAIN n.chain \ Places(n.chain, {BootBlock})),
                    n.input, n.listed, n.addresses, n.tuples, n.block)
<1>1. Do(n, x) = [n EXCEPT !.chain = Pick(@, DOMAIN @ \ Places(@, {BootBlock}))]
  BY DEF Do
<1> QED  BY <1>1, NetUpdates

LEMMA DoLeaves ==
  ASSUME NEW n \in NetType, NEW x
  PROVE  /\ x.do \in {"add", "insert", "names", "lift", "none"} =>
              /\ Do(n, x).listed = n.listed /\ Do(n, x).input = n.input
              /\ Do(n, x).addresses = n.addresses /\ Do(n, x).tuples = n.tuples
         /\ x.do \in {"blockInput", "sets", "addresses", "tuples", "names", "none"} => Do(n, x).chain = n.chain
<1>1. CASE x.do = "add"
  <2>1. Do(n, x) = Net(Append(n.chain, x.arg), n.input, n.listed, n.addresses, n.tuples, n.block)
    BY <1>1, DoAdds
  <2> QED  BY <1>1, <2>1, NetFields
<1>2. CASE x.do = "insert"
  <2>1. Do(n, x) = Net(<<x.arg>> \o n.chain, n.input, n.listed, n.addresses, n.tuples, n.block)
    BY <1>2, DoInserts
  <2> QED  BY <1>2, <2>1, NetFields
<1>3. CASE x.do = "lift"
  <2>1. Do(n, x) = Net(Pick(n.chain, DOMAIN n.chain \ Places(n.chain, {BootBlock})), n.input, n.listed, n.addresses, n.tuples, n.block)
    BY <1>3, DoLifts
  <2> QED  BY <1>3, <2>1, NetFields
<1>4. CASE x.do = "names"
  <2>1. Do(n, x) = Net(n.chain, n.input, n.listed, n.addresses, n.tuples, x.arg)
    BY <1>4, DoNames
  <2> QED  BY <1>4, <2>1, NetFields
<1>5. CASE x.do = "addresses"
  <2>1. Do(n, x) = Net(n.chain, n.input, n.listed, n.addresses \cup x.arg, n.tuples, n.block)
    BY <1>5, DoAddresses
  <2> QED  BY <1>5, <2>1, NetFields
<1>6. CASE x.do = "tuples"
  <2>1. Do(n, x) = Net(n.chain, n.input, n.listed, n.addresses, n.tuples \cup x.arg, n.block)
    BY <1>6, DoTuples
  <2> QED  BY <1>6, <2>1, NetFields
<1>7. CASE x.do = "none"
  BY <1>7, DoesNothing
<1>8. CASE x.do = "blockInput"
  BY <1>8, DoBlocks
<1>9. CASE x.do = "sets"
  BY <1>9, DoLists
<1>10. CASE x.do \notin {"add", "insert", "lift", "names", "none", "blockInput", "sets", "addresses", "tuples"}
  BY <1>10
<1> QED  BY <1>1, <1>2, <1>3, <1>4, <1>5, <1>6, <1>7, <1>8, <1>9, <1>10

LEMMA Stocking ==
  ASSUME NEW n \in NetType, NEW x, x.do \in {"addresses", "tuples"}
  PROVE  /\ Do(n, x).listed = n.listed /\ Do(n, x).input = n.input
         /\ Do(n, x).tuples = IF x.do = "tuples" THEN n.tuples \cup x.arg ELSE n.tuples
         /\ Do(n, x).addresses = IF x.do = "addresses" THEN n.addresses \cup x.arg ELSE n.addresses
<1>1. CASE x.do = "addresses"
  <2>1. Do(n, x) = Net(n.chain, n.input, n.listed, n.addresses \cup x.arg, n.tuples, n.block)
    BY <1>1, DoAddresses
  <2> QED  BY <1>1, <2>1, NetFields
<1>2. CASE x.do = "tuples"
  <2>1. Do(n, x) = Net(n.chain, n.input, n.listed, n.addresses, n.tuples \cup x.arg, n.block)
    BY <1>2, DoTuples
  <2> QED  BY <1>2, <2>1, NetFields
<1> QED  BY <1>1, <1>2

LEMMA Purging ==
  ASSUME NEW n \in NetType, NEW x, x.do = "purge"
  PROVE  /\ Do(n, x).chain = Pick(n.chain, Places(n.chain, {BootBlock}))
         /\ Do(n, x).listed = FALSE /\ Do(n, x).input = FALSE /\ Do(n, x).tuples = {} /\ Do(n, x).addresses = {}
         /\ Pick(n.chain, Places(n.chain, {BootBlock})) \in Seq(RuleType) => Do(n, x) \in NetType
<1>1. Do(n, x) = [chain |-> Pick(n.chain, Places(n.chain, {BootBlock})), input |-> FALSE, listed |-> FALSE,
                  addresses |-> {}, tuples |-> {}, block |-> n.block]
  BY DoPurges DEF Net
<1> QED  BY <1>1 DEF NetType

LEMMA DoTyped ==
  ASSUME NEW n \in NetType, NEW x, x.do \in Verbs \ {"refuse", "purge", "lift"},
         x.do \in {"add", "insert"} => x.arg \in RuleType, x.do = "tuples" => x.arg \subseteq Packets,
         x.do = "addresses" => x.arg \subseteq Addresses, x.do = "names" => x.arg \subseteq Addresses \X STRING
  PROVE  Do(n, x) \in NetType
<1>1. /\ n.chain \in Seq(RuleType) /\ n.input \in BOOLEAN /\ n.listed \in BOOLEAN /\ n.addresses \subseteq Addresses
      /\ n.tuples \subseteq Packets /\ n.block \subseteq Addresses \X STRING
  BY DEF NetType
<1>2. x.do = "add" => Append(n.chain, x.arg) \in Seq(RuleType)
  BY <1>1
<1>3. x.do = "insert" => <<x.arg>> \o n.chain \in Seq(RuleType)
  BY <1>1, Prefixed
<1>4. CASE x.do = "add"
  <2>1. PICK t : t = Append(n.chain, x.arg)
    OBVIOUS
  <2>2. Do(n, x) = Net(t, n.input, n.listed, n.addresses, n.tuples, n.block)
    BY <1>4, <2>1, DoAdds
  <2>3. t \in Seq(RuleType)
    BY <1>2, <1>4, <2>1
  <2> QED  BY <1>1, <2>2, <2>3, NetTyped
<1>5. CASE x.do = "insert"
  <2>1. PICK t : t = <<x.arg>> \o n.chain
    OBVIOUS
  <2>2. Do(n, x) = Net(t, n.input, n.listed, n.addresses, n.tuples, n.block)
    BY <1>5, <2>1, DoInserts
  <2>3. t \in Seq(RuleType)
    BY <1>3, <1>5, <2>1
  <2> QED  BY <1>1, <2>2, <2>3, NetTyped
<1>6. CASE x.do = "blockInput"
  BY <1>6, DoBlocks
<1>7. CASE x.do = "sets"
  BY <1>7, DoLists
<1>8. CASE x.do = "none"
  BY <1>8, DoesNothing
<1>9. CASE x.do = "addresses"
  <2>1. n.addresses \cup x.arg \in SUBSET Addresses
    BY <1>1, <1>9
  <2>2. Do(n, x) = Net(n.chain, n.input, n.listed, n.addresses \cup x.arg, n.tuples, n.block)
    BY <1>9, DoAddresses
  <2> QED  BY <1>1, <2>1, <2>2, NetTyped
<1>10. CASE x.do = "tuples"
  <2>1. n.tuples \cup x.arg \in SUBSET Packets
    BY <1>1, <1>10
  <2>2. Do(n, x) = Net(n.chain, n.input, n.listed, n.addresses, n.tuples \cup x.arg, n.block)
    BY <1>10, DoTuples
  <2> QED  BY <1>1, <2>1, <2>2, NetTyped
<1>11. CASE x.do = "names"
  <2>1. x.arg \in SUBSET (Addresses \X STRING)
    BY <1>11
  <2>2. Do(n, x) = Net(n.chain, n.input, n.listed, n.addresses, n.tuples, x.arg)
    BY <1>11, DoNames
  <2> QED  BY <1>1, <2>1, <2>2, NetTyped
<1> QED  BY <1>4, <1>5, <1>6, <1>7, <1>8, <1>9, <1>10, <1>11 DEF Verbs

\* A command that is of no concern to the sets.
LEMMA StockedKeeps ==
  ASSUME NEW c \in ConfigType, NEW n, NEW k, NEW O, NEW d \in 0..Len(Setup(c)) - 1,
         Setup(c)[d + 1].do \notin {"sets", "blockInput", "tuples", "addresses", "refuse"},
         k.listed = n.listed, k.input = n.input, k.tuples = n.tuples, k.addresses = n.addresses,
         Stocked(c, n, O, d)
  PROVE  Stocked(c, k, O, d + 1)
<1>1. \A i : i \in 1..d + 1 <=> i \in 1..d \/ i = d + 1
  BY PlacesHold
<1> QED  BY <1>1 DEF Stocked

LEMMA StockedGrows ==
  ASSUME NEW c, NEW n, NEW k, NEW O, NEW V, O \subseteq V, NEW d, Stocked(c, n, O, d),
         k.listed = n.listed, k.input = n.input, k.tuples = n.tuples, k.addresses = n.addresses
  PROVE  Stocked(c, k, V, d)
BY DEF Stocked

LEMMA StockedDoes ==
  ASSUME NEW c \in ConfigType, NEW n \in NetType, NEW O, NEW d \in 0..Len(Setup(c)) - 1,
         NEW x, x = Setup(c)[d + 1], CanDo(n, x), Stocked(c, n, O, d)
  PROVE  Stocked(c, Do(n, x), O, d + 1)
<1>1. \A i : i \in 1..d + 1 <=> i \in 1..d \/ i = d + 1
  BY PlacesHold
<1>2. /\ n = [chain |-> n.chain, input |-> n.input, listed |-> n.listed, addresses |-> n.addresses,
              tuples |-> n.tuples, block |-> n.block]
      /\ n.listed \in BOOLEAN /\ n.input \in BOOLEAN
  BY DEF NetType
<1>3. /\ n.listed <=> \E i \in 1..d : Setup(c)[i].do = "sets"
      /\ n.input <=> \E i \in 1..d : Setup(c)[i].do = "blockInput"
      /\ ~n.listed => n.tuples = {} /\ n.addresses = {}
      /\ \A i \in 1..d : /\ Setup(c)[i].do = "tuples" => Setup(c)[i].arg \subseteq n.tuples
                         /\ Setup(c)[i].do = "addresses" => Setup(c)[i].arg \subseteq n.addresses
                         /\ Setup(c)[i].do # "refuse"
      /\ \A t \in n.tuples : t \in O \/ \E i \in 1..d : Setup(c)[i].do = "tuples" /\ t \in Setup(c)[i].arg
      /\ \A a \in n.addresses : \/ [dst |-> a, svc |-> "echo"] \in O
                                \/ \E i \in 1..d : Setup(c)[i].do = "addresses" /\ a \in Setup(c)[i].arg
  BY DEF Stocked
<1>4. d \in Nat /\ d + 1 \in 1..Len(Setup(c)) /\ x \in CommandType
  <2>1. d \in Nat /\ d + 1 \in 1..Len(Setup(c)) /\ Setup(c) \in Seq(CommandType)
    BY PlacesHold, SetupHolds
  <2> QED  BY <2>1
<1>5. x.do \in Verbs \ {"refuse"} /\ (x.do \in {"addresses", "tuples"} => n.listed)
  BY <1>4 DEF CommandType, CanDo
<1>6. CASE x.do \in {"add", "insert", "names", "lift", "none"}
  <2>1. /\ Do(n, x).listed = n.listed /\ Do(n, x).input = n.input
        /\ Do(n, x).addresses = n.addresses /\ Do(n, x).tuples = n.tuples
    BY <1>6, DoLeaves
  <2>2. Setup(c)[d + 1].do \notin {"sets", "blockInput", "tuples", "addresses", "refuse"}
    BY <1>6
  <2> QED  BY <2>1, <2>2, StockedKeeps
<1>7. CASE x.do = "purge"
  <2>1. d = 0
    <3>1. CASE d + 1 = Len(Setup(c))
      BY <1>7, <3>1, SetupHolds, CommandHolds
    <3>2. CASE d + 1 \in 2..Len(Setup(c)) - 1
      <4>1. Setup(c)[d + 1] \in Fitting(c)
        BY <3>2, SetupHolds
      <4> QED  BY <1>7, <4>1 DEF Fitting, Fits
    <3> QED  BY <1>4, <3>1, <3>2, PlacesHold
  <2>2. \A i : i \in 1..d + 1 <=> i = 1
    BY <2>1
  <2>3. /\ Do(n, x).listed = FALSE /\ Do(n, x).input = FALSE /\ Do(n, x).tuples = {} /\ Do(n, x).addresses = {}
    BY <1>7, Purging
  <2>4. Setup(c)[1].do = "purge"
    BY <1>7, <2>1
  <2> QED  BY <2>2, <2>3, <2>4 DEF Stocked
<1>8. CASE x.do \in {"sets", "blockInput"}
  <2>1. /\ Do(n, x).tuples = n.tuples /\ Do(n, x).addresses = n.addresses
        /\ Do(n, x).listed <=> (n.listed \/ x.do = "sets")
        /\ Do(n, x).input <=> (n.input \/ x.do = "blockInput")
    <3>1. CASE x.do = "sets"
      <4>1. /\ Do(n, x).listed /\ Do(n, x).input = n.input
            /\ Do(n, x).addresses = n.addresses /\ Do(n, x).tuples = n.tuples
        BY <3>1, DoLists
      <4> QED  BY <3>1, <4>1
    <3>2. CASE x.do = "blockInput"
      <4>1. /\ Do(n, x).input /\ Do(n, x).listed = n.listed
            /\ Do(n, x).addresses = n.addresses /\ Do(n, x).tuples = n.tuples
        BY <3>2, DoBlocks
      <4> QED  BY <3>2, <4>1
    <3> QED  BY <1>8, <3>1, <3>2
  <2>2. /\ Do(n, x).listed <=> \E i \in 1..d + 1 : Setup(c)[i].do = "sets"
        /\ Do(n, x).input <=> \E i \in 1..d + 1 : Setup(c)[i].do = "blockInput"
    BY <1>1, <1>3, <2>1
  <2>3. \A i \in 1..d + 1 : /\ Setup(c)[i].do = "tuples" => Setup(c)[i].arg \subseteq n.tuples
                            /\ Setup(c)[i].do = "addresses" => Setup(c)[i].arg \subseteq n.addresses
                            /\ Setup(c)[i].do # "refuse"
    BY <1>1, <1>3, <1>8
  <2>4. 1..d \subseteq 1..d + 1
    BY <1>1
  <2> QED  BY <1>3, <2>1, <2>2, <2>3, <2>4 DEF Stocked
<1>9. CASE x.do \in {"addresses", "tuples"}
  <2>1. /\ Do(n, x).listed = n.listed /\ Do(n, x).input = n.input
        /\ Do(n, x).tuples = IF x.do = "tuples" THEN n.tuples \cup x.arg ELSE n.tuples
        /\ Do(n, x).addresses = IF x.do = "addresses" THEN n.addresses \cup x.arg ELSE n.addresses
    <3>2. x.do = "addresses" \/ x.do = "tuples"
      BY <1>9
    <3>3. CASE x.do = "addresses"
      <4>1. /\ Do(n, x).listed = n.listed /\ Do(n, x).input = n.input
            /\ Do(n, x).tuples = n.tuples /\ Do(n, x).addresses = n.addresses \cup x.arg
        <5>1. Do(n, x) = Net(n.chain, n.input, n.listed, n.addresses \cup x.arg, n.tuples, n.block)
          BY <3>3, DoAddresses
        <5> QED  BY <5>1, NetFields
      <4> QED  BY <3>3, <4>1
    <3>4. CASE x.do = "tuples"
      <4>1. /\ Do(n, x).listed = n.listed /\ Do(n, x).input = n.input
            /\ Do(n, x).tuples = n.tuples \cup x.arg /\ Do(n, x).addresses = n.addresses
        <5>1. Do(n, x) = Net(n.chain, n.input, n.listed, n.addresses, n.tuples \cup x.arg, n.block)
          BY <3>4, DoTuples
        <5> QED  BY <5>1, NetFields
      <4> QED  BY <3>4, <4>1
    <3> QED  BY <3>2, <3>3, <3>4
  <2>2. /\ Do(n, x).listed <=> \E i \in 1..d + 1 : Setup(c)[i].do = "sets"
        /\ Do(n, x).input <=> \E i \in 1..d + 1 : Setup(c)[i].do = "blockInput"
    BY <1>1, <1>3, <1>9, <2>1
  <2>3. \A i \in 1..d + 1 : /\ Setup(c)[i].do = "tuples" => Setup(c)[i].arg \subseteq Do(n, x).tuples
                            /\ Setup(c)[i].do = "addresses" => Setup(c)[i].arg \subseteq Do(n, x).addresses
                            /\ Setup(c)[i].do # "refuse"
    BY <1>1, <1>3, <1>9, <2>1
  <2>4. \A t \in Do(n, x).tuples : t \in O \/ \E i \in 1..d + 1 : Setup(c)[i].do = "tuples" /\ t \in Setup(c)[i].arg
    BY <1>1, <1>3, <1>9, <2>1
  <2>5. \A a \in Do(n, x).addresses :
           \/ [dst |-> a, svc |-> "echo"] \in O
           \/ \E i \in 1..d + 1 : Setup(c)[i].do = "addresses" /\ a \in Setup(c)[i].arg
    BY <1>1, <1>3, <1>9, <2>1
  <2>6. Do(n, x).listed
    BY <1>5, <1>9, <2>1
  <2> QED  BY <2>2, <2>3, <2>4, <2>5, <2>6 DEF Stocked
<1> QED  BY <1>5, <1>6, <1>7, <1>8, <1>9 DEF Verbs

\* A call of coi hosts add, with what it opens.
LEMMA StockedOpens ==
  ASSUME NEW c, NEW n \in NetType, NEW O, NEW d, NEW x, x.do \in {"insert", "addresses", "tuples"},
         CanDo(n, x), Stocked(c, n, O, d)
  PROVE  Stocked(c, Do(n, x), O \cup Opens(x), d)
<1>1. n = [chain |-> n.chain, input |-> n.input, listed |-> n.listed, addresses |-> n.addresses,
           tuples |-> n.tuples, block |-> n.block]
  BY DEF NetType
<1>2. CASE x.do = "insert"
  <2>1. /\ Do(n, x).listed = n.listed /\ Do(n, x).input = n.input
        /\ Do(n, x).addresses = n.addresses /\ Do(n, x).tuples = n.tuples
    BY <1>2, DoLeaves
  <2>2. O \subseteq O \cup Opens(x)
    OBVIOUS
  <2> QED  BY <2>1, <2>2, StockedGrows
<1>3. CASE x.do \in {"addresses", "tuples"}
  <2>1. n.listed
    BY <1>3 DEF CanDo
  <2>2. /\ Do(n, x).listed = n.listed /\ Do(n, x).input = n.input
        /\ Do(n, x).tuples = IF x.do = "tuples" THEN n.tuples \cup x.arg ELSE n.tuples
        /\ Do(n, x).addresses = IF x.do = "addresses" THEN n.addresses \cup x.arg ELSE n.addresses
    BY <1>3, Stocking
  <2>3. x.do = "tuples" => Opens(x) = x.arg
    BY DEF Opens
  <2>4. x.do = "addresses" => \A a \in x.arg : [dst |-> a, svc |-> "echo"] \in Opens(x)
    BY DEF Opens
  <2>5. \A t \in Do(n, x).tuples :
          t \in O \cup Opens(x) \/ \E i \in 1..d : Setup(c)[i].do = "tuples" /\ t \in Setup(c)[i].arg
    BY <1>3, <2>2, <2>3 DEF Stocked
  <2>6. \A a \in Do(n, x).addresses :
           \/ [dst |-> a, svc |-> "echo"] \in O \cup Opens(x)
           \/ \E i \in 1..d : Setup(c)[i].do = "addresses" /\ a \in Setup(c)[i].arg
    BY <1>3, <2>2, <2>4 DEF Stocked
  <2>7. \A i \in 1..d : /\ Setup(c)[i].do = "tuples" => Setup(c)[i].arg \subseteq Do(n, x).tuples
                        /\ Setup(c)[i].do = "addresses" => Setup(c)[i].arg \subseteq Do(n, x).addresses
                        /\ Setup(c)[i].do # "refuse"
    BY <1>3, <2>2 DEF Stocked
  <2>8. /\ Do(n, x).listed <=> \E i \in 1..d : Setup(c)[i].do = "sets"
        /\ Do(n, x).input <=> \E i \in 1..d : Setup(c)[i].do = "blockInput"
    BY <2>2 DEF Stocked
  <2> QED  BY <2>1, <2>2, <2>5, <2>6, <2>7, <2>8 DEF Stocked
<1> QED  BY <1>2, <1>3

-----------------------------------------------------------------------------
(* A command of the setup keeps the shape of the chain.                     *)

LEMMA CommandKinds ==
  ASSUME NEW c \in ConfigType, NEW d \in 0..Len(Setup(c)) - 1, NEW x, x = Setup(c)[d + 1]
  PROVE  /\ d \in Nat /\ d + 1 \in 1..Len(Setup(c)) /\ Len(Setup(c)) \in Nat /\ x \in CommandType
         /\ d = 0 => x.do \in {"purge", "refuse"}
         /\ d + 1 = Len(Setup(c)) => x.do = "lift" /\ d >= 1
         /\ d >= 1 /\ d + 1 # Len(Setup(c)) => x \in Fitting(c)
         /\ d + 1 \in AddsAt(c) <=> x.do = "add"
<1>1. /\ Setup(c) \in Seq(CommandType) /\ Len(Setup(c)) >= 2
      /\ Setup(c)[1] = IF Unfit(c) THEN Command("refuse", {}) ELSE Command("purge", {})
      /\ Setup(c)[Len(Setup(c))] = Command("lift", {})
      /\ \A i \in 2..Len(Setup(c)) - 1 : Setup(c)[i] \in Fitting(c)
  BY SetupHolds
<1>2. PICK L \in Nat : L = Len(Setup(c))
  BY <1>1
<1>3. d \in Nat /\ d + 1 \in 1..L /\ DOMAIN Setup(c) = 1..L
  BY <1>1, <1>2
<1>4. x \in CommandType
  BY <1>1, <1>3
<1>5. Setup(c)[1].do \in {"purge", "refuse"} /\ Setup(c)[L].do = "lift"
  BY <1>1, <1>2, CommandHolds
<1>6. d = 0 => x.do \in {"purge", "refuse"}
  BY <1>5
<1>7. d + 1 = L => x.do = "lift" /\ d >= 1
  BY <1>1, <1>2, <1>3, <1>5
<1>8. d >= 1 /\ d + 1 # L => d + 1 \in 2..L - 1
  BY <1>3
<1>9. d >= 1 /\ d + 1 # L => x \in Fitting(c)
  BY <1>1, <1>2, <1>8
<1>10. d + 1 \in AddsAt(c) <=> x.do = "add"
  BY <1>3 DEF AddsAt
<1> QED  BY <1>2, <1>3, <1>4, <1>6, <1>7, <1>9, <1>10

LEMMA SetsUp ==
  ASSUME NEW c \in ConfigType, NEW n \in NetType, NEW d \in 0..Len(Setup(c)) - 1, d + 1 # Len(Setup(c)),
         NEW x, x = Setup(c)[d + 1], CanDo(n, x), NEW A, NEW B, d >= 1 => A = B, AskedBy(c) \subseteq B,
         NEW m \in Nat, Fronted(n.chain, A, m, 1), Policed(c, n.chain, m + 1, d),
         NEW k, k = Do(n, x)
  PROVE  k \in NetType /\ \E j \in Nat : Fronted(k.chain, B, j, 1) /\ Policed(c, k.chain, j + 1, d + 1)
<1>1. /\ d \in Nat /\ d + 1 \in 1..Len(Setup(c)) /\ x \in CommandType /\ n.chain \in Seq(RuleType)
      /\ d = 0 => x.do \in {"purge", "refuse"}
      /\ d >= 1 => x \in Fitting(c)
      /\ d + 1 \in AddsAt(c) <=> x.do = "add"
  BY CommandKinds DEF NetType
<1>2. x.do # "refuse" /\ m + 1 \in Nat /\ m + 1 <= Len(n.chain)
  BY DEF CanDo, Fronted
<1>3. CASE d = 0
  <2>1. x.do = "purge"
    BY <1>1, <1>2, <1>3
  <2>2. /\ k.chain = Pick(n.chain, Places(n.chain, {BootBlock}))
        /\ Pick(n.chain, Places(n.chain, {BootBlock})) \in Seq(RuleType) => k \in NetType
    BY <2>1, Purging
  <2>3. Policed(c, n.chain, m + 1, 0)
    BY <1>3
  <2>4. k.chain \in Seq(RuleType) /\ Fronted(k.chain, B, 0, 1) /\ Policed(c, k.chain, 0 + 1, 0)
    BY <1>1, <2>2, <2>3, PurgeHolds
  <2>5. d + 1 \notin AddsAt(c) /\ Policed(c, k.chain, 0 + 1, d)
    BY <1>1, <1>3, <2>1, <2>4
  <2>6. Policed(c, k.chain, 0 + 1, d + 1)
    BY <2>5, PolicedKeeps
  <2> QED  BY <2>2, <2>4, <2>6
<1>4. CASE d >= 1
  <2>1. /\ x \in Fitting(c) /\ A = B /\ Fits(c, x) /\ x.do \in Verbs
    BY <1>1, <1>4 DEF Fitting, CommandType
  <2>2. k \in NetType
    <3>1. /\ x.do \in Verbs \ {"refuse", "purge", "lift"}
          /\ x.do = "add" => x.arg \in RuleType
          /\ x.do = "insert" => x.arg \in Grants
          /\ x.do = "tuples" => x.arg \subseteq Packets
          /\ x.do = "addresses" => x.arg \subseteq Addresses
          /\ x.do = "names" => x.arg \subseteq Addresses \X STRING
      BY <1>2, <2>1 DEF Fits
    <3>2. x.do \in {"add", "insert"} => x.arg \in RuleType
      BY <3>1, GrantHolds
    <3> QED  BY <3>1, <3>2, DoTyped
  <2>3. CASE x.do = "add"
    <3>1. d + 1 \in AddsAt(c)
      BY <1>1, <2>3
    <3>2. x.arg \in RuleType /\ Policed(c, Append(n.chain, x.arg), m + 1, d + 1)
      BY <1>1, <1>2, <3>1, PolicedAdds
    <3>3. Fronted(Append(n.chain, x.arg), B, m, 1)
      BY <1>1, <2>1, <3>2, FrontAppends
    <3>5. k.chain = Append(n.chain, x.arg)
      <4>1. PICK t : t = Append(n.chain, x.arg)
        OBVIOUS
      <4>2. k = Net(t, n.input, n.listed, n.addresses, n.tuples, n.block)
        BY <2>3, <4>1, DoAdds
      <4>3. k.chain = t
        BY <4>2, NetFields
      <4> QED  BY <4>1, <4>3
    <3> QED  BY <2>2, <3>2, <3>3, <3>5
  <2>4. CASE x.do = "insert"
    <3>1. x.arg \in Grants /\ Opens(x) \subseteq B /\ Opens(x) = Through(x.arg)
      BY <2>1, <2>4 DEF Fits, Opens, Through
    <3>2. <<x.arg>> \o n.chain \in Seq(RuleType) /\ Fronted(<<x.arg>> \o n.chain, B, m + 1, 1)
      BY <1>1, <2>1, <3>1, FrontInserts
    <3>3. d \in 0..Len(Setup(c)) /\ d + 1 \notin AddsAt(c)
      BY <1>1, <2>4
    <3>4. Policed(c, <<x.arg>> \o n.chain, m + 1 + 1, d)
      BY <1>1, <1>2, <3>1, <3>3, PolicedInserts
    <3>5. Policed(c, <<x.arg>> \o n.chain, m + 1 + 1, d + 1)
      BY <3>3, <3>4, PolicedKeeps
    <3>7. k.chain = <<x.arg>> \o n.chain
      <4>1. PICK t : t = <<x.arg>> \o n.chain
        OBVIOUS
      <4>2. k = Net(t, n.input, n.listed, n.addresses, n.tuples, n.block)
        BY <2>4, <4>1, DoInserts
      <4>3. k.chain = t
        BY <4>2, NetFields
      <4> QED  BY <4>1, <4>3
    <3> QED  BY <2>2, <1>2, <3>2, <3>5, <3>7
  <2>5. CASE x.do \in {"blockInput", "sets", "addresses", "tuples", "names", "none"}
    <3>1. k.chain = n.chain
      BY <2>5, DoLeaves
    <3>2. d + 1 \notin AddsAt(c)
      BY <1>1, <2>5
    <3>3. Policed(c, n.chain, m + 1, d + 1)
      BY <3>2, PolicedKeeps
    <3> QED  BY <2>1, <2>2, <3>1, <3>3
  <2> QED  BY <1>2, <2>1, <2>3, <2>4, <2>5 DEF Verbs, Fits
<1> QED  BY <1>1, <1>3, <1>4

LEMMA Lifts ==
  ASSUME NEW c \in ConfigType, NEW n \in NetType, NEW d \in 0..Len(Setup(c)) - 1, d + 1 = Len(Setup(c)),
         NEW x, x = Setup(c)[d + 1], NEW A,
         NEW m \in Nat, Fronted(n.chain, A, m, 1), Policed(c, n.chain, m + 1, d),
         NEW k, k = Do(n, x)
  PROVE  d >= 1 /\ k \in NetType /\ Fronted(k.chain, A, m, 0) /\ Policed(c, k.chain, m, d + 1)
<1>1. /\ d \in Nat /\ d + 1 \in 1..Len(Setup(c)) /\ x.do = "lift" /\ d >= 1 /\ d + 1 \notin AddsAt(c)
  BY CommandKinds
<1>2. /\ n.chain \in Seq(RuleType) /\ n.input \in BOOLEAN /\ n.listed \in BOOLEAN
      /\ n.addresses \in SUBSET Addresses /\ n.tuples \in SUBSET Packets
      /\ n.block \in SUBSET (Addresses \X STRING)
  BY DEF NetType
<1>3. PICK t : t = Pick(n.chain, DOMAIN n.chain \ Places(n.chain, {BootBlock}))
  OBVIOUS
<1>4. d \in 0..Len(Setup(c))
  BY <1>1
<1>5. t \in Seq(RuleType) /\ Fronted(t, A, m, 0) /\ Policed(c, t, m, d)
  BY <1>2, <1>3, <1>4, LiftHolds
<1>6. k = Net(t, n.input, n.listed, n.addresses, n.tuples, n.block)
  BY <1>1, <1>3, DoLifts
<1>7. k.chain = t
  BY <1>6, NetFields
<1>8. k \in NetType
  BY <1>2, <1>5, <1>6, NetTyped
<1>9. Policed(c, t, m, d + 1)
  BY <1>1, <1>5, PolicedKeeps
<1> QED  BY <1>1, <1>5, <1>7, <1>8, <1>9

-----------------------------------------------------------------------------
(* A step of the setup.                                                     *)

LEMMA Fields ==
  ASSUME EgressTyped
  PROVE  /\ network \in ConfigType /\ network.mode \in Modes /\ net \in NetType
         /\ plan \in Seq(CommandType) /\ req \in [Callers -> ReqType] /\ opened \subseteq Packets
         /\ phase \in {"setup", "up", "failed", "stopped"} /\ net.chain \in Seq(RuleType)
BY EgressAssumption DEF EgressTyped, ConfigType, Modes, NetType

LEMMA PlanHolds ==
  ASSUME EgressTyped, PlanInv, phase = "setup"
  PROVE  /\ Total = Len(Setup(network)) /\ Total \in Nat /\ Done \in 0..Total - 1 /\ Done = Total - Len(plan)
         /\ Head(plan) = Setup(network)[Done + 1]
         /\ Tail(plan) \in Seq(CommandType) /\ Len(Tail(plan)) = Len(plan) - 1 /\ Len(plan) \in Nat
         /\ Tail(plan) = <<>> <=> Done + 1 = Total
         /\ \A i \in DOMAIN Tail(plan) : Tail(plan)[i] = Setup(network)[Done + 1 + i]
<1>1. plan \in Seq(CommandType) /\ network \in ConfigType
  BY Fields
<1>2. /\ plan # <<>> /\ Len(plan) <= Total
      /\ \A i \in DOMAIN plan : plan[i] = Setup(network)[Done + i]
  BY DEF PlanInv
<1>3. Total = Len(Setup(network)) /\ Total \in Nat
  BY <1>1, PlacesHold DEF Total
<1>4. PICK l \in Nat : l = Len(plan) /\ l >= 1
  BY <1>1, <1>2
<1>5. Done = Total - l
  BY <1>4 DEF Done
<1>6. Done \in 0..Total - 1 /\ Done \in Nat
  BY <1>2, <1>3, <1>4, <1>5
<1>7. PICK d \in Nat : d = Done
  BY <1>6
<1>8. Head(plan) = plan[1] /\ 1 \in DOMAIN plan
  BY <1>1, <1>4
<1>9. Head(plan) = Setup(network)[d + 1]
  BY <1>2, <1>7, <1>8
<1>10. /\ Tail(plan) \in Seq(CommandType) /\ Len(Tail(plan)) = l - 1
       /\ \A i \in DOMAIN Tail(plan) : i \in Nat /\ i + 1 \in DOMAIN plan /\ Tail(plan)[i] = plan[i + 1]
  BY <1>1, <1>4
<1>11. Tail(plan) = <<>> <=> l = 1
  <2>1. PICK t \in Seq(CommandType) : t = Tail(plan) /\ Len(t) = l - 1
    BY <1>10
  <2>2. t = <<>> => Len(t) = 0
    OBVIOUS
  <2>3. ASSUME Len(t) = 0 PROVE t = <<>>
    <3>1. <<>> \in Seq(CommandType) /\ Len(<<>>) = Len(t) /\ \A i \in 1..Len(t) : t[i] = <<>>[i]
      BY <2>3
    <3> QED  BY <2>1, <3>1, Same
  <2> QED  BY <1>4, <2>1, <2>2, <2>3
<1>12. ASSUME NEW i \in DOMAIN Tail(plan) PROVE Tail(plan)[i] = Setup(network)[d + 1 + i]
  <2>1. i \in Nat /\ i + 1 \in DOMAIN plan /\ Tail(plan)[i] = plan[i + 1]
    BY <1>10
  <2>2. plan[i + 1] = Setup(network)[d + (i + 1)]
    BY <1>2, <1>7, <2>1
  <2>3. d + (i + 1) = d + 1 + i
    BY <1>7, <2>1
  <2> QED  BY <2>1, <2>2, <2>3
<1> QED  BY <1>3, <1>4, <1>5, <1>6, <1>7, <1>9, <1>10, <1>11, <1>12

LEMMA PlanMoves ==
  ASSUME EgressTyped, PlanInv, phase = "setup", network' = network, plan' = Tail(plan),
         phase' = IF plan' = <<>> THEN "up" ELSE "setup"
  PROVE  /\ Done' = Done + 1 /\ PlanInv' /\ Done + 1 \in Nat /\ Done + 1 >= 1
         /\ phase' = "up" <=> Done + 1 = Total
<1>1. /\ Total \in Nat /\ Done \in 0..Total - 1 /\ Done = Total - Len(plan)
      /\ Len(Tail(plan)) = Len(plan) - 1 /\ Len(plan) \in Nat
      /\ Tail(plan) = <<>> <=> Done + 1 = Total
      /\ \A i \in DOMAIN Tail(plan) : Tail(plan)[i] = Setup(network)[Done + 1 + i]
  BY PlanHolds
<1>2. /\ Done \in Nat /\ Len(plan) \in Nat /\ Total \in Nat /\ Done = Total - Len(plan) /\ Done <= Total - 1
  BY <1>1
<1> DEFINE d == Done
           l == Len(plan)
           t == Total
<1>0. d \in Nat /\ l \in Nat /\ t \in Nat /\ d = Done /\ l = Len(plan) /\ t = Total /\ d = t - l /\ d <= t - 1
  BY <1>2
<1> HIDE DEF d, l, t
<1>3. Total' = t
  BY <1>0 DEF Total
<1>4. CASE plan' = <<>>
  <2>1. phase' = "up" /\ d + 1 = t
    BY <1>1, <1>0, <1>4
  <2>2. Done' = t
    BY <1>3, <2>1 DEF Done
  <2> QED  BY <1>1, <1>0, <2>1, <2>2 DEF PlanInv
<1>5. CASE plan' # <<>>
  <2>1. phase' = "setup" /\ d + 1 # t
    BY <1>1, <1>0, <1>5
  <2>2. Len(plan') = l - 1
    BY <1>1, <1>0
  <2>3. Done' = Total' - Len(plan')
    BY <2>1 DEF Done
  <2>4. Done' = d + 1
    BY <1>0, <1>3, <2>2, <2>3
  <2>5. \A i \in DOMAIN plan' : plan'[i] = Setup(network')[d + 1 + i]
    BY <1>1, <1>0
  <2>6. Len(plan') <= Total'
    BY <1>0, <1>3, <2>2
  <2>7. PlanInv'
    BY <1>5, <2>4, <2>5, <2>6 DEF PlanInv
  <2> QED  BY <1>0, <2>1, <2>4, <2>7
<1> QED  BY <1>4, <1>5

\* Once a command is done, what the session before left is gone.
LEMMA AllowedThen ==
  ASSUME NEW d, d = Done, d >= 1, d \in Nat
  PROVE  Allowed = AskedBy(network) \cup opened
BY DEF Allowed, Left

LEMMA AllowedAsks ==
  ASSUME EgressTyped
  PROVE  AskedBy(network) \subseteq Allowed /\ Allowed \subseteq Packets
<1>1. ASSUME NEW i \in 1..2 * Len(network.hosts) PROVE Opens(Call(network, i)) \subseteq Packets
  <2>1. network \in ConfigType
    BY Fields
  <2>2. /\ Call(network, i) \in Fitting(network)
        /\ Call(network, i).do \in {"insert", "addresses", "tuples", "none"}
    BY <2>1, CallHolds
  <2>3. PICK x : x = Call(network, i)
    OBVIOUS
  <2>4. /\ x.do = "insert" => x.arg \in Grants
        /\ x.do = "tuples" => x.arg \subseteq Packets
        /\ x.do = "addresses" => x.arg \subseteq Addresses
    BY <2>2, <2>3 DEF Fitting, Fits
  <2>5. CASE x.do = "insert"
    <3>1. Opens(x) = Through(x.arg)
      BY <2>5 DEF Opens, Through
    <3> QED  BY <2>3, <2>4, <2>5, <3>1, GrantHolds
  <2>6. CASE x.do = "addresses"
    <3>1. Opens(x) = [dst : x.arg, svc : {"echo"}]
      BY <2>6 DEF Opens
    <3>2. \A p \in Opens(x) : p \in [dst : Addresses \cup {Bridge}, svc : Services]
      BY <2>4, <2>6, <3>1 DEF Services
    <3> QED  BY <2>3, <3>2 DEF Packets
  <2>7. CASE x.do \in {"tuples", "none"}
    BY <2>3, <2>4, <2>7 DEF Opens
  <2> QED  BY <2>2, <2>3, <2>5, <2>6, <2>7
<1>2. AskedBy(network) \subseteq Packets
  BY <1>1 DEF AskedBy
<1>3. opened \subseteq Packets
  BY Fields
<1> QED  BY <1>2, <1>3 DEF Allowed

LEMMA StepKeeps ==
  ASSUME EgressInv, Step
  PROVE  EgressInv'
<1>1. /\ EgressTyped /\ PlanInv /\ ChainInv /\ SetsInv /\ BoundInv
  BY DEF EgressInv
<1>2. /\ phase = "setup" /\ CanDo(net, Head(plan)) /\ net' = Do(net, Head(plan)) /\ plan' = Tail(plan)
      /\ phase' = IF plan' = <<>> THEN "up" ELSE "setup"
      /\ network' = network /\ req' = req /\ opened' = opened /\ flaws' = flaws
  BY DEF Step
<1>3. PICK c, n, x, d, A, B : /\ c = network /\ n = net /\ x = Head(plan) /\ d = Done /\ A = Allowed
                              /\ B = AskedBy(network) \cup opened
  OBVIOUS
<1>4. /\ c \in ConfigType /\ n \in NetType /\ d \in 0..Len(Setup(c)) - 1 /\ x = Setup(c)[d + 1]
      /\ CanDo(n, x) /\ AskedBy(c) \subseteq B /\ d \in Nat
  BY <1>1, <1>2, <1>3, Fields, PlanHolds
<1>5. Tail(plan) \in Seq(CommandType) /\ Total = Len(Setup(c))
  BY <1>1, <1>2, <1>3, PlanHolds
<1>6. /\ Done' = d + 1 /\ PlanInv' /\ d + 1 \in Nat /\ d + 1 >= 1
      /\ phase' = "up" <=> d + 1 = Len(Setup(c))
  BY <1>1, <1>2, <1>3, <1>5, PlanMoves
<1>7. PICK m \in Nat : Fronted(n.chain, A, m, 1) /\ Policed(c, n.chain, m + 1, d)
  BY <1>1, <1>2, <1>3 DEF ChainInv, Shaped
<1>8. d >= 1 => A = B
  BY <1>3, <1>4, AllowedThen
<1>9. Allowed' = B
  BY <1>2, <1>3, <1>6, AllowedThen DEF Allowed, Left
<1>10. /\ net' \in NetType /\ ChainInv'
  <2>1. CASE d + 1 = Len(Setup(c))
    <3>1. PICK k : k = Do(n, x)
      OBVIOUS
    <3>2. d >= 1 /\ k \in NetType /\ Fronted(k.chain, A, m, 0) /\ Policed(c, k.chain, m, d + 1)
      BY <1>4, <1>7, <2>1, <3>1, Lifts
    <3>3. net' = k /\ phase' = "up" /\ A = B
      BY <1>2, <1>3, <1>6, <1>8, <2>1, <3>1, <3>2
    <3>4. Shaped("up", c, k.chain, B, d + 1, m)
      BY <3>2, <3>3 DEF Shaped
    <3> QED  BY <1>2, <1>3, <1>6, <1>9, <3>2, <3>3, <3>4 DEF ChainInv
  <2>2. CASE d + 1 # Len(Setup(c))
    <3>1. PICK k : k = Do(n, x)
      OBVIOUS
    <3>2. k \in NetType /\ \E j \in Nat : Fronted(k.chain, B, j, 1) /\ Policed(c, k.chain, j + 1, d + 1)
      BY <1>4, <1>7, <1>8, <2>2, <3>1, SetsUp
    <3>3. net' = k /\ phase' = "setup"
      BY <1>2, <1>3, <1>6, <2>2, <3>1
    <3>4. PICK j \in Nat : Shaped("setup", c, k.chain, B, d + 1, j)
      BY <3>2 DEF Shaped
    <3> QED  BY <1>2, <1>3, <1>6, <1>9, <3>2, <3>3, <3>4 DEF ChainInv
  <2> QED  BY <2>1, <2>2
<1>11. SetsInv'
  <2>1. Stocked(c, n, opened, d)
    BY <1>1, <1>2, <1>3 DEF SetsInv
  <2>2. Stocked(c, Do(n, x), opened, d + 1)
    BY <1>4, <2>1, StockedDoes
  <2>3. Stocked(network', net', opened', Done')
    BY <1>2, <1>3, <1>6, <2>2
  <2> QED  BY <2>3 DEF SetsInv
<1>12. EgressTyped'
  BY <1>1, <1>2, <1>5, <1>10 DEF EgressTyped
<1>13. BoundInv'
  BY <1>1, <1>2 DEF BoundInv
<1> QED  BY <1>6, <1>10, <1>11, <1>12, <1>13 DEF EgressInv

-----------------------------------------------------------------------------
(* The other steps of the session.                                          *)

\* Nothing but callers, blocks of names and flaws other than "crossed" change.
LEMMA Untouched ==
  ASSUME EgressInv, UNCHANGED <<network, phase, plan, opened>>,
         "crossed" \in flaws' <=> "crossed" \in flaws,
         /\ net'.chain = net.chain /\ net'.listed = net.listed /\ net'.input = net.input
         /\ net'.tuples = net.tuples /\ net'.addresses = net.addresses
  PROVE  PlanInv' /\ ChainInv' /\ SetsInv'
<1>1. Done' = Done /\ Total' = Total
  BY DEF Done, Total
<1>2. Allowed' = Allowed
  BY <1>1 DEF Allowed, Left
<1>3. PlanInv'
  BY <1>1 DEF EgressInv, PlanInv
<1>4. ChainInv'
  <2>1. PICK m \in Nat : Shaped(phase, network, net.chain, Allowed, Done, m)
    BY DEF EgressInv, ChainInv
  <2>2. Shaped(phase', network', net'.chain, Allowed', Done', m)
    BY <1>1, <1>2, <2>1
  <2> QED  BY <2>2 DEF ChainInv
<1>5. SetsInv'
  <2>1. phase # "failed" => Stocked(network, net, opened, Done)
    BY DEF EgressInv, SetsInv
  <2>2. phase' # "failed" => Stocked(network', net', opened', Done')
    BY <1>1, <2>1, StockedGrows
  <2> QED  BY <2>2 DEF SetsInv
<1> QED  BY <1>3, <1>4, <1>5

LEMMA StepFailsKeeps ==
  ASSUME EgressInv, StepFails
  PROVE  EgressInv'
<1>1. /\ EgressTyped /\ PlanInv /\ ChainInv /\ SetsInv /\ BoundInv
  BY DEF EgressInv
<1>2. /\ phase = "setup" /\ Head(plan).do \notin {"purge", "lift", "none"}
      /\ network' = network /\ net' = net /\ req' = req /\ opened' = opened /\ flaws' = flaws
  BY DEF StepFails
<1>3. PICK c, x, d, A, B : /\ c = network /\ x = Head(plan) /\ d = Done /\ A = Allowed
                           /\ B = AskedBy(network) \cup opened
  OBVIOUS
<1>4. /\ c \in ConfigType /\ net \in NetType /\ d \in 0..Len(Setup(c)) - 1 /\ x = Setup(c)[d + 1] /\ d \in Nat
      /\ AskedBy(c) \subseteq B
  BY <1>1, <1>2, <1>3, Fields, PlanHolds
<1>5. Tail(plan) \in Seq(CommandType) /\ Total = Len(Setup(c))
      /\ (Tail(plan) = <<>> <=> d + 1 = Len(Setup(c)))
  BY <1>1, <1>2, <1>3, PlanHolds
<1>6. PICK m \in Nat : Fronted(net.chain, A, m, 1) /\ Policed(c, net.chain, m + 1, d)
  BY <1>1, <1>2, <1>3 DEF ChainInv, Shaped
<1>7. BoundInv'
  BY <1>1, <1>2 DEF BoundInv
<1>8. CASE plan' = Tail(plan) /\ phase' = phase /\ c.mode = "open" /\ x.do = "add"
  <2>1. d >= 1 /\ d + 1 # Len(Setup(c))
    BY <1>4, <1>8, CommandKinds
  <2>2. phase' = IF plan' = <<>> THEN "up" ELSE "setup"
    BY <1>2, <1>5, <1>8, <2>1
  <2>3. /\ Done' = d + 1 /\ PlanInv' /\ d + 1 \in Nat /\ d + 1 >= 1
    BY <1>1, <1>2, <1>3, <1>8, <2>2, PlanMoves
  <2>4. A = B
    BY <1>3, <1>4, <2>1, AllowedThen
  <2>5. Allowed' = B
    BY <1>2, <1>3, <2>3, AllowedThen DEF Allowed, Left
  <2>6. Policed(c, net.chain, m + 1, d + 1)
    BY <1>6, <1>8 DEF Policed
  <2>7. ChainInv'
    <3>1. Shaped("setup", c, net.chain, B, d + 1, m)
      BY <1>6, <2>4, <2>6 DEF Shaped
    <3>2. Shaped(phase', network', net'.chain, Allowed', Done', m)
      BY <1>2, <1>3, <1>8, <2>3, <2>5, <3>1
    <3> QED  BY <3>2 DEF ChainInv
  <2>8. SetsInv'
    <3>1. Stocked(c, net, opened, d)
      BY <1>1, <1>2, <1>3 DEF SetsInv
    <3>2. Setup(c)[d + 1].do \notin {"sets", "blockInput", "tuples", "addresses", "refuse"}
      BY <1>4, <1>8
    <3>3. Stocked(c, net, opened, d + 1)
      BY <1>4, <3>1, <3>2, StockedKeeps
    <3>4. Stocked(network', net', opened', Done')
      BY <1>2, <1>3, <2>3, <3>3
    <3> QED  BY <3>4 DEF SetsInv
  <2>9. EgressTyped'
    BY <1>1, <1>2, <1>5, <1>8 DEF EgressTyped
  <2> QED  BY <1>7, <2>3, <2>7, <2>8, <2>9 DEF EgressInv
<1>9. CASE plan' = <<>> /\ phase' = "failed"
  <2>1. PlanInv' /\ SetsInv'
    BY <1>9 DEF PlanInv, SetsInv
  <2>2. Done' = 0
    BY <1>9 DEF Done
  <2>3. Allowed \subseteq Allowed'
    <3>1. Left => Left'
      BY <1>2, <1>9, <2>2 DEF Left
    <3>2. Allowed \subseteq Packets
      BY <1>1, AllowedAsks
    <3>3. CASE Left'
      <4>1. Allowed' = Packets
        BY <3>3 DEF Allowed, Packets, Addresses, Services, L4
      <4> QED  BY <3>2, <4>1
    <3>4. CASE ~Left'
      <4>1. Allowed' = AskedBy(network) \cup opened /\ ~Left
        BY <1>2, <3>1, <3>4 DEF Allowed
      <4> QED  BY <4>1 DEF Allowed
    <3> QED  BY <3>3, <3>4
  <2>4. Fronted(net.chain, Allowed', m, 1)
    BY <1>3, <1>6, <2>3, FrontGrows
  <2>5. Shaped(phase', network', net'.chain, Allowed', Done', m)
    BY <1>2, <1>9, <2>4 DEF Shaped
  <2>6. ChainInv'
    BY <2>5 DEF ChainInv
  <2>7. EgressTyped'
    BY <1>1, <1>2, <1>9 DEF EgressTyped
  <2> QED  BY <1>7, <2>1, <2>6, <2>7 DEF EgressInv
<1> QED  BY <1>3, <1>8, <1>9 DEF StepFails

LEMMA StopKeeps ==
  ASSUME EgressInv, Stop
  PROVE  EgressInv'
<1>1. EgressTyped /\ BoundInv
  BY DEF EgressInv
<1>2. /\ phase' = "stopped" /\ network' = network /\ plan' = plan /\ req' = req /\ opened' = opened
      /\ flaws' = flaws
      /\ net' = [chain |-> <<>>, input |-> FALSE, listed |-> FALSE, addresses |-> {}, tuples |-> {},
                 block |-> net.block]
  BY DEF Stop, NoNet
<1>3. net' \in NetType
  BY <1>1, <1>2 DEF EgressTyped, NetType
<1>4. EgressTyped'
  BY <1>1, <1>2, <1>3 DEF EgressTyped
<1>5. PlanInv' /\ BoundInv'
  BY <1>1, <1>2 DEF PlanInv, BoundInv
<1>6. Done' = 0
  BY <1>2 DEF Done
<1>7. ChainInv'
  <2>1. Fronted(<<>>, Packets, 0, 0)
    BY DEF Fronted
  <2>2. Shaped("stopped", network', net'.chain, Allowed', Done', 0)
    BY <1>2, <2>1 DEF Shaped
  <2> QED  BY <1>2, <2>2 DEF ChainInv
<1>8. SetsInv'
  <2>1. Stocked(network', net', opened', 0)
    BY <1>2 DEF Stocked
  <2> QED  BY <1>6, <2>1 DEF SetsInv
<1> QED  BY <1>4, <1>5, <1>7, <1>8 DEF EgressInv

\* The rules of the session before, whatever they let through, come first.
LEMMA StartsBlocked ==
  ASSUME NEW c \in ConfigType, NEW ch \in Seq(RuleType), Fronted(ch, Packets, Len(ch), 0),
         NEW t, t = Append(ch, BootBlock), NEW A, ch # <<>> => A = Packets
  PROVE  t \in Seq(RuleType) /\ \E m \in Nat : Fronted(t, A, m, 1) /\ Policed(c, t, m + 1, 0)
<1>1. BootBlock \in RuleType
  BY BlockHolds
<1>2. PICK m \in Nat : m = Len(ch)
  OBVIOUS
<1>3. /\ t \in Seq(RuleType) /\ Len(t) = m + 1 /\ t[m + 1] = BootBlock /\ \A i \in 1..m : t[i] = ch[i]
  BY <1>1, <1>2
<1>4. \A i \in 1..m : ch[i] \in Grants /\ Through(ch[i]) \subseteq Packets
  BY <1>2 DEF Fronted
<1>5. m # 0 => A = Packets
  BY <1>2
<1>6. Fronted(t, A, m, 1)
  BY <1>3, <1>4, <1>5 DEF Fronted
<1>7. Rank(AddsAt(c), 0) = 0 /\ \A i \in AddsAt(c) : i \in Nat /\ i # 0
  <2>1. PICK L \in Nat : L = Len(Setup(c)) /\ AddsAt(c) \subseteq 2..L - 1 /\ Rank(AddsAt(c), 0) = 0
    BY PlacesHold
  <2> QED  BY <2>1
<1>8. Policed(c, t, m + 1, 0)
  <2>1. CASE c.mode = "open"
    BY <1>3, <2>1 DEF Policed
  <2>2. CASE c.mode # "open"
    <3>1. Len(t) = m + 1 + Rank(AddsAt(c), 0)
      BY <1>3, <1>7
    <3>2. \A i \in AddsAt(c) : ~(i <= 0)
      BY <1>7
    <3> QED  BY <2>2, <3>1, <3>2 DEF Policed
  <2> QED  BY <2>1, <2>2
<1> QED  BY <1>3, <1>6, <1>8

LEMMA StartAgainKeeps ==
  ASSUME EgressInv, NEW c \in Mixed, StartAgain(c)
  PROVE  EgressInv'
<1>1. EgressTyped /\ ChainInv /\ SetsInv
  BY DEF EgressInv
<1>2. /\ phase = "stopped" /\ network' = c /\ phase' = "setup" /\ plan' = Setup(c)
      /\ net' = [net EXCEPT !.chain = Append(@, BootBlock)] /\ opened' = {} /\ req' = req
      /\ net.chain # <<>> => "crossed" \in flaws'
      /\ Busy => "crossed" \in flaws'
  BY DEF StartAgain
<1>3. c \in ConfigType /\ net \in NetType /\ net.chain \in Seq(RuleType)
  BY <1>1, EgressAssumption, Fields
<1>4. PICK t : t = Append(net.chain, BootBlock)
  OBVIOUS
<1>5. net' = Net(t, net.input, net.listed, net.addresses, net.tuples, net.block)
  BY <1>2, <1>3, <1>4, NetUpdates
<1>6. Setup(c) \in Seq(CommandType) /\ Len(Setup(c)) >= 2 /\ Len(Setup(c)) \in Nat
  BY <1>3, SetupHolds
<1>7. Total' = Len(Setup(c)) /\ Done' = 0
  <2>1. Total' = Len(Setup(c))
    BY <1>2 DEF Total
  <2>2. Done' = Total' - Len(plan')
    BY <1>2 DEF Done
  <2> QED  BY <1>2, <1>6, <2>1, <2>2
<1>8. PlanInv'
  <2>1. PICK L \in Nat : L = Len(Setup(c)) /\ L >= 2
    BY <1>6
  <2>2. Setup(c) # <<>>
    BY <2>1
  <2>3. \A i \in DOMAIN Setup(c) : Setup(c)[i] = Setup(c)[0 + i]
    BY <1>6
  <2>4. Len(plan') <= Total'
    BY <1>2, <1>7, <2>1
  <2>5. \A i \in DOMAIN plan' : plan'[i] = Setup(network')[Done' + i]
    BY <1>2, <1>7, <2>3
  <2> QED  BY <1>2, <2>2, <2>4, <2>5 DEF PlanInv
<1>9. Fronted(net.chain, Packets, Len(net.chain), 0)
  BY <1>1, <1>2 DEF ChainInv, Shaped
<1>10. net.chain # <<>> => Allowed' = Packets
  BY <1>2, <1>7 DEF Allowed, Left, Packets, Addresses, Services, L4
<1>11. PICK A : A = Allowed'
  OBVIOUS
<1>12. t \in Seq(RuleType) /\ \E m \in Nat : Fronted(t, A, m, 1) /\ Policed(c, t, m + 1, 0)
  BY <1>3, <1>4, <1>9, <1>10, <1>11, StartsBlocked
<1>13. net'.chain = t
  BY <1>5, NetFields
<1>14. ChainInv'
  <2>1. PICK m \in Nat : Shaped("setup", c, t, A, 0, m)
    BY <1>12 DEF Shaped
  <2>2. Shaped(phase', network', net'.chain, Allowed', Done', m)
    BY <1>2, <1>7, <1>11, <1>13, <2>1
  <2> QED  BY <2>2 DEF ChainInv
<1>15. SetsInv'
  <2>1. Stocked(network, net, opened, 0)
    BY <1>1, <1>2 DEF SetsInv, Done
  <2>2. net.listed = FALSE /\ net.input = FALSE /\ net.tuples = {} /\ net.addresses = {}
    BY <1>3, <2>1 DEF Stocked, NetType
  <2>3. /\ net'.listed = net.listed /\ net'.input = net.input /\ net'.tuples = net.tuples
        /\ net'.addresses = net.addresses
    BY <1>5, NetFields
  <2>4. Stocked(network', net', opened', 0)
    BY <2>2, <2>3 DEF Stocked
  <2> QED  BY <1>7, <2>4 DEF SetsInv
<1>16. net' \in NetType
  <2>1. /\ net.input \in BOOLEAN /\ net.listed \in BOOLEAN /\ net.addresses \in SUBSET Addresses
        /\ net.tuples \in SUBSET Packets /\ net.block \in SUBSET (Addresses \X STRING)
    BY <1>3 DEF NetType
  <2> QED  BY <1>5, <1>12, <2>1, NetTyped
<1>17. EgressTyped'
  <2>1. network' \in Configs \cup Mixed /\ plan' \in Seq(CommandType)
    BY <1>2, <1>6
  <2> QED  BY <1>1, <1>2, <1>16, <2>1 DEF EgressTyped
<1>18. BoundInv'
  <2>1. "crossed" \notin flaws' => \A k \in Callers : req[k].pc = "idle"
    BY <1>2 DEF Busy
  <2> QED  BY <1>2, <2>1 DEF BoundInv
<1> QED  BY <1>8, <1>14, <1>15, <1>17, <1>18 DEF EgressInv

LEMMA InitKeeps ==
  ASSUME EInit
  PROVE  EgressInv
<1>1. /\ network \in Configs \cup Mixed /\ phase = "setup" /\ plan = Setup(network)
      /\ net = [chain |-> <<BootBlock>>, input |-> FALSE, listed |-> FALSE, addresses |-> {}, tuples |-> {},
                block |-> {}]
      /\ req = [c \in Callers |-> NoReq] /\ opened = {} /\ flaws = {}
  BY DEF EInit, NoNet
<1>2. PICK c \in ConfigType : c = network
  BY <1>1, EgressAssumption
<1>3. Setup(c) \in Seq(CommandType) /\ Len(Setup(c)) >= 2 /\ Len(Setup(c)) \in Nat
  BY <1>2, SetupHolds
<1>4. <<>> \in Seq(RuleType) /\ Fronted(<<>>, Packets, Len(<<>>), 0) /\ Append(<<>>, BootBlock) = <<BootBlock>>
  BY DEF Fronted
<1>5. /\ <<BootBlock>> \in Seq(RuleType)
      /\ \E m \in Nat : Fronted(<<BootBlock>>, Allowed, m, 1) /\ Policed(c, <<BootBlock>>, m + 1, 0)
  BY <1>4, StartsBlocked
<1>6. Done = 0
  <2>1. Done = Len(Setup(c)) - Len(Setup(c))
    BY <1>1, <1>2 DEF Done, Total
  <2> QED  BY <1>3, <2>1
<1>7. PlanInv
  <2>1. PICK L \in Nat : L = Len(Setup(c)) /\ L >= 2
    BY <1>3
  <2>2. Setup(c) # <<>>
    BY <2>1
  <2>3. \A i \in DOMAIN plan : plan[i] = Setup(network)[Done + i]
    BY <1>1, <1>2, <1>3, <1>6
  <2>4. Len(plan) <= Total
    BY <1>1, <1>2, <2>1 DEF Total
  <2> QED  BY <1>1, <1>2, <2>2, <2>3, <2>4 DEF PlanInv
<1>8. ChainInv
  <2>1. PICK m \in Nat : Shaped("setup", c, <<BootBlock>>, Allowed, 0, m)
    BY <1>5 DEF Shaped
  <2>2. Shaped(phase, network, net.chain, Allowed, Done, m)
    BY <1>1, <1>2, <1>6, <2>1
  <2> QED  BY <2>2 DEF ChainInv
<1>9. SetsInv
  <2>1. Stocked(network, net, opened, 0)
    BY <1>1 DEF Stocked
  <2> QED  BY <1>6, <2>1 DEF SetsInv
<1>10. EgressTyped
  <2>1. net \in NetType
    BY <1>1, <1>5 DEF NetType
  <2>2. NoReq \in ReqType /\ NoReq.pc = "idle"
    BY DEF NoReq, ReqType
  <2>3. req \in [Callers -> ReqType] /\ \A k \in Callers : req[k].pc = "idle"
    BY <1>1, <2>2
  <2>4. plan \in Seq(CommandType) /\ opened \subseteq Packets
    BY <1>1, <1>2, <1>3
  <2> QED  BY <1>1, <2>1, <2>3, <2>4 DEF EgressTyped
<1>11. BoundInv
  <2>1. \A k \in Callers : req[k].pc = "idle"
    BY <1>1 DEF NoReq
  <2> QED  BY <1>1, <2>1 DEF BoundInv
<1> QED  BY <1>7, <1>8, <1>9, <1>10, <1>11 DEF EgressInv

-----------------------------------------------------------------------------
(* coi hosts.                                                               *)

\* The chain n.chain and the sets of n, when O was opened.
Held(n, O) ==
  /\ n \in NetType /\ O \subseteq Packets
  /\ \E m \in Nat : Shaped(phase, network, n.chain, IF Left THEN Packets ELSE AskedBy(network) \cup O, Done, m)
  /\ phase # "failed" => Stocked(network, n, O, Done)

LEMMA DoneFits ==
  ASSUME EgressTyped, PlanInv
  PROVE  Done \in 0..Len(Setup(network)) /\ Done \in Nat
<1>1. PICK L \in Nat : L = Len(Setup(network))
  BY Fields, PlacesHold
<1>2. CASE phase = "setup"
  <2>1. Done \in 0..L - 1
    BY <1>1, <1>2, PlanHolds
  <2> QED  BY <1>1, <2>1
<1>3. CASE phase # "setup"
  BY <1>1, <1>3 DEF Done, Total
<1> QED  BY <1>2, <1>3

LEMMA ShapeGrows ==
  ASSUME NEW ph \in {"setup", "up", "failed", "stopped"}, NEW c, NEW ch, NEW A, NEW B, A \subseteq B, NEW d,
         NEW m, Shaped(ph, c, ch, A, d, m)
  PROVE  Shaped(ph, c, ch, B, d, m)
BY FrontGrows DEF Shaped

LEMMA ShapeInserts ==
  ASSUME NEW ph \in {"setup", "up", "failed", "stopped"}, NEW c \in ConfigType, NEW ch \in Seq(RuleType),
         NEW g \in Grants, NEW A, Through(g) \subseteq A, NEW d \in 0..Len(Setup(c)), NEW m \in Nat,
         Shaped(ph, c, ch, A, d, m)
  PROVE  Shaped(ph, c, <<g>> \o ch, A, d, m + 1)
<1>1. g \in RuleType /\ Through(g) \subseteq Packets
  BY GrantHolds
<1>2. PICK t : t = <<g>> \o ch
  OBVIOUS
<1>3. t \in Seq(RuleType) /\ Len(t) = Len(ch) + 1 /\ Len(ch) \in Nat
  BY <1>1, <1>2, Prefixed
<1>4. CASE ph = "setup"
  <2>1. Fronted(ch, A, m, 1) /\ Policed(c, ch, m + 1, d)
    BY <1>4 DEF Shaped
  <2>2. m + 1 \in Nat /\ m + 1 <= Len(ch)
    BY <2>1 DEF Fronted
  <2>3. Fronted(t, A, m + 1, 1)
    BY <1>2, <2>1, FrontInserts
  <2>4. Policed(c, t, m + 1 + 1, d)
    BY <1>2, <2>1, <2>2, PolicedInserts
  <2> QED  BY <1>2, <1>4, <2>3, <2>4 DEF Shaped
<1>5. CASE ph = "up"
  <2>1. Fronted(ch, A, m, 0) /\ Policed(c, ch, m, d)
    BY <1>5 DEF Shaped
  <2>2. m <= Len(ch)
    BY <1>3, <2>1 DEF Fronted
  <2>3. Fronted(t, A, m + 1, 0)
    BY <1>2, <2>1, FrontInserts
  <2>4. Policed(c, t, m + 1, d)
    BY <1>2, <2>1, <2>2, PolicedInserts
  <2> QED  BY <1>2, <1>5, <2>3, <2>4 DEF Shaped
<1>6. CASE ph = "failed"
  <2>1. Fronted(ch, A, m, 1)
    BY <1>6 DEF Shaped
  <2>2. Fronted(t, A, m + 1, 1)
    BY <1>2, <2>1, FrontInserts
  <2> QED  BY <1>2, <1>6, <2>2 DEF Shaped
<1>7. CASE ph = "stopped"
  <2>1. m = Len(ch) /\ Fronted(ch, Packets, m, 0)
    BY <1>7 DEF Shaped
  <2>2. Fronted(t, Packets, m + 1, 0)
    BY <1>1, <1>2, <2>1, FrontInserts
  <2> QED  BY <1>2, <1>3, <1>7, <2>1, <2>2 DEF Shaped
<1> QED  BY <1>4, <1>5, <1>6, <1>7

\* What a caller asks nft for.
Asks(x) ==
  \/ x.do = "insert" /\ x.arg \in Grants
  \/ x.do = "addresses" /\ x.arg \subseteq Addresses
  \/ x.do = "tuples" /\ x.arg \subseteq Packets

LEMMA OpensPackets ==
  ASSUME NEW x, Asks(x)
  PROVE  Opens(x) \subseteq Packets /\ (x.do = "insert" => Opens(x) = Through(x.arg))
<1>1. x.do \in {"insert", "addresses", "tuples"}
  BY DEF Asks
<1>2. x.do = "insert" => Opens(x) = Through(x.arg) /\ x.arg \in Grants
  BY DEF Opens, Through, Asks
<1>3. x.do = "insert" => Opens(x) \subseteq Packets
  BY <1>2, GrantHolds
<1>4. CASE x.do = "addresses"
  <2>1. Opens(x) = [dst : x.arg, svc : {"echo"}] /\ x.arg \subseteq Addresses
    BY <1>4 DEF Opens, Asks
  <2>2. \A p \in Opens(x) : p \in [dst : Addresses \cup {Bridge}, svc : Services]
    BY <2>1 DEF Services
  <2> QED  BY <1>4, <2>2 DEF Packets
<1>5. CASE x.do = "tuples"
  BY <1>5 DEF Opens, Asks
<1> QED  BY <1>1, <1>2, <1>3, <1>4, <1>5

LEMMA HeldDoes ==
  ASSUME EgressTyped, PlanInv, NEW n, NEW O, Held(n, O), NEW x, Asks(x), CanDo(n, x)
  PROVE  Held(Do(n, x), O \cup Opens(x))
<1>1. /\ n \in NetType /\ O \subseteq Packets
      /\ phase # "failed" => Stocked(network, n, O, Done)
  BY DEF Held
<1>2. PICK A, B : /\ A = IF Left THEN Packets ELSE AskedBy(network) \cup O
                  /\ B = IF Left THEN Packets ELSE AskedBy(network) \cup (O \cup Opens(x))
  OBVIOUS
<1>3. PICK m \in Nat : Shaped(phase, network, n.chain, A, Done, m)
  BY <1>2 DEF Held
<1>4. A \subseteq B
  BY <1>2
<1>5. Opens(x) \subseteq Packets /\ (x.do = "insert" => Opens(x) = Through(x.arg)) /\ Opens(x) \subseteq B
  BY <1>2, OpensPackets
<1>6. /\ phase \in {"setup", "up", "failed", "stopped"} /\ network \in ConfigType
      /\ n.chain \in Seq(RuleType) /\ Done \in 0..Len(Setup(network))
  BY <1>1, Fields, DoneFits DEF NetType
<1>7. Shaped(phase, network, n.chain, B, Done, m)
  BY <1>3, <1>4, <1>6, ShapeGrows
<1>8. Do(n, x) \in NetType
  <2>1. /\ x.do \in Verbs \ {"refuse", "purge", "lift"}
        /\ x.do = "insert" => x.arg \in Grants
        /\ x.do = "tuples" => x.arg \subseteq Packets
        /\ x.do = "addresses" => x.arg \subseteq Addresses
        /\ x.do \notin {"add", "names"}
    BY DEF Asks, Verbs
  <2>2. x.do = "insert" => x.arg \in RuleType
    BY <2>1, GrantHolds
  <2> QED  BY <1>1, <2>1, <2>2, DoTyped
<1>9. \E j \in Nat : Shaped(phase, network, Do(n, x).chain, B, Done, j)
  <2>1. CASE x.do = "insert"
    <3>1. x.arg \in Grants /\ Through(x.arg) \subseteq B
      BY <1>5, <2>1 DEF Asks
    <3>2. Shaped(phase, network, <<x.arg>> \o n.chain, B, Done, m + 1)
      BY <1>6, <1>7, <3>1, ShapeInserts
    <3>3. Do(n, x).chain = <<x.arg>> \o n.chain
      <4>1. PICK t, k : t = <<x.arg>> \o n.chain /\ k = Do(n, x)
        OBVIOUS
      <4>2. k = Net(t, n.input, n.listed, n.addresses, n.tuples, n.block)
        BY <1>1, <2>1, <4>1, DoInserts
      <4>3. k.chain = t
        BY <4>2, NetFields
      <4> QED  BY <4>1, <4>3
    <3> QED  BY <3>2, <3>3
  <2>2. CASE x.do \in {"addresses", "tuples"}
    <3>1. Do(n, x).chain = n.chain
      BY <1>1, <2>2, DoLeaves
    <3> QED  BY <1>7, <3>1
  <2> QED  BY <2>1, <2>2 DEF Asks
<1>10. phase # "failed" => Stocked(network, Do(n, x), O \cup Opens(x), Done)
  BY <1>1, StockedOpens DEF Asks
<1>11. O \cup Opens(x) \subseteq Packets
  BY <1>1, <1>5
<1> QED  BY <1>2, <1>8, <1>9, <1>10, <1>11 DEF Held

LEMMA HeldIs ==
  ASSUME EgressInv, UNCHANGED <<network, phase, plan, flaws>>, Held(net', opened')
  PROVE  net' \in NetType /\ opened' \subseteq Packets /\ PlanInv' /\ ChainInv' /\ SetsInv'
<1>1. Done' = Done /\ Total' = Total
  BY DEF Done, Total
<1>2. Left' <=> Left
  BY <1>1 DEF Left
<1>3. PICK k, O : k = net' /\ O = opened'
  OBVIOUS
<1>4. Held(k, O)
  BY <1>3
<1>5. PlanInv'
  BY <1>1 DEF EgressInv, PlanInv
<1>6. Allowed' = IF Left THEN Packets ELSE AskedBy(network) \cup O
  BY <1>2, <1>3 DEF Allowed, Packets, Addresses, Services, L4
<1>7. ChainInv'
  <2>1. PICK m \in Nat : Shaped(phase, network, k.chain, Allowed', Done, m)
    BY <1>4, <1>6 DEF Held
  <2>2. Shaped(phase', network', net'.chain, Allowed', Done', m)
    BY <1>1, <1>3, <2>1
  <2> QED  BY <2>2 DEF ChainInv
<1>8. SetsInv'
  <2>1. phase # "failed" => Stocked(network, k, O, Done)
    BY <1>4 DEF Held
  <2>2. phase' # "failed" => Stocked(network', net', opened', Done')
    BY <1>1, <1>3, <2>1
  <2> QED  BY <2>2 DEF SetsInv
<1>9. k \in NetType /\ O \subseteq Packets
  BY <1>4 DEF Held
<1> QED  BY <1>3, <1>5, <1>7, <1>8, <1>9

LEMMA HeldNow ==
  ASSUME EgressInv
  PROVE  Held(net, opened)
<1>1. net \in NetType /\ opened \subseteq Packets
  BY DEF EgressInv, EgressTyped
<1>2. \E m \in Nat : Shaped(phase, network, net.chain, IF Left THEN Packets ELSE AskedBy(network) \cup opened, Done, m)
  BY DEF EgressInv, ChainInv, Allowed
<1>3. phase # "failed" => Stocked(network, net, opened, Done)
  BY DEF EgressInv, SetsInv
<1> QED  BY <1>1, <1>2, <1>3 DEF Held

\* What the sets hold once the setup is done.
Filled(c, n, O) ==
  /\ n.listed /\ n.input
  /\ \A ts \in {c.literals, c.resolved} : Tuples(ts, c.ports) \subseteq n.tuples /\ {t.dst : t \in ts} \subseteq n.addresses
  /\ \A p \in n.tuples : p \in O \cup AskedBy(c) \/ p \in Tuples(c.literals \cup c.resolved, c.ports)
  /\ \A a \in n.addresses : \/ [dst |-> a, svc |-> "echo"] \in O \cup AskedBy(c)
                            \/ \E t \in c.literals \cup c.resolved : t.dst = a

LEMMA StockedFills ==
  ASSUME NEW c \in ConfigType, NEW n \in NetType, NEW O, Stocked(c, n, O, Len(Setup(c)))
  PROVE  /\ ~Unfit(c)
         /\ c.mode = "allowlist" => Filled(c, n, O)
         /\ c.mode # "allowlist" => ~n.input
<1>1. /\ Setup(c) \in Seq(CommandType) /\ Len(Setup(c)) >= 2 /\ Len(Setup(c)) \in Nat
      /\ Setup(c)[1] = IF Unfit(c) THEN Command("refuse", {}) ELSE Command("purge", {})
      /\ Setup(c)[Len(Setup(c))] = Command("lift", {})
      /\ \A i \in 2..Len(Setup(c)) - 1 : Setup(c)[i] \in Fitting(c)
      /\ ~Unfit(c) => \A x : Has(Middle(c), x) => Has(Setup(c), x)
  BY SetupHolds
<1>2. PICK L \in Nat : L = Len(Setup(c)) /\ DOMAIN Setup(c) = 1..L /\ L >= 2
  BY <1>1
<1>3. /\ n.listed <=> \E i \in 1..L : Setup(c)[i].do = "sets"
      /\ n.input <=> \E i \in 1..L : Setup(c)[i].do = "blockInput"
      /\ \A i \in 1..L : /\ Setup(c)[i].do = "tuples" => Setup(c)[i].arg \subseteq n.tuples
                         /\ Setup(c)[i].do = "addresses" => Setup(c)[i].arg \subseteq n.addresses
                         /\ Setup(c)[i].do # "refuse"
      /\ \A t \in n.tuples : t \in O \/ \E i \in 1..L : Setup(c)[i].do = "tuples" /\ t \in Setup(c)[i].arg
      /\ \A a \in n.addresses : \/ [dst |-> a, svc |-> "echo"] \in O
                                \/ \E i \in 1..L : Setup(c)[i].do = "addresses" /\ a \in Setup(c)[i].arg
  BY <1>2 DEF Stocked
<1>4. ~Unfit(c)
  <2>1. 1 \in 1..L
    BY <1>2
  <2>2. Setup(c)[1].do # "refuse"
    BY <1>3, <2>1
  <2> QED  BY <1>1, <2>2, CommandHolds
<1>5. ASSUME NEW i \in 1..L, Setup(c)[i].do \notin {"purge", "lift"} PROVE Setup(c)[i] \in Fitting(c)
  <2>1. Setup(c)[1].do = "purge" /\ Setup(c)[L].do = "lift"
    BY <1>1, <1>2, <1>4, CommandHolds
  <2>2. i # 1 /\ i # L
    BY <1>5, <2>1
  <2>3. i \in 2..L - 1
    BY <1>2, <2>2
  <2> QED  BY <1>1, <1>2, <2>3
<1>6. c.mode # "allowlist" => ~n.input
  <2>1. SUFFICES ASSUME c.mode # "allowlist", NEW i \in 1..L, Setup(c)[i].do = "blockInput" PROVE FALSE
    BY <1>3
  <2>2. Setup(c)[i] \in Fitting(c)
    BY <1>5, <2>1
  <2> QED  BY <2>1, <2>2 DEF Fitting, Fits
<1>7. ASSUME c.mode = "allowlist" PROVE Filled(c, n, O)
  <2>1. Middle(c) = AllowlistCommands(c)
    BY <1>7 DEF Middle
  <2>2. /\ Has(AllowlistCommands(c), Command("sets", {})) /\ Has(AllowlistCommands(c), Command("blockInput", {}))
        /\ \A ts \in {c.literals, c.resolved} : ts # {} =>
              /\ Has(AllowlistCommands(c), Command("addresses", {t.dst : t \in ts}))
              /\ Has(AllowlistCommands(c), Command("tuples", Tuples(ts, c.ports)))
    BY <1>7, AllowlistHolds
  <2>3. /\ Has(Setup(c), Command("sets", {})) /\ Has(Setup(c), Command("blockInput", {}))
        /\ \A ts \in {c.literals, c.resolved} : ts # {} =>
              /\ Has(Setup(c), Command("addresses", {t.dst : t \in ts}))
              /\ Has(Setup(c), Command("tuples", Tuples(ts, c.ports)))
    BY <1>1, <1>4, <2>1, <2>2
  <2>4. n.listed /\ n.input
    <3>1. \E i \in 1..L : Setup(c)[i].do = "sets"
      BY <1>2, <2>3, CommandHolds DEF Has
    <3>2. \E i \in 1..L : Setup(c)[i].do = "blockInput"
      BY <1>2, <2>3, CommandHolds DEF Has
    <3> QED  BY <1>3, <3>1, <3>2
  <2>5. ASSUME NEW ts \in {c.literals, c.resolved}
        PROVE  Tuples(ts, c.ports) \subseteq n.tuples /\ {t.dst : t \in ts} \subseteq n.addresses
    <3>1. CASE ts = {}
      <4>1. Tuples(ts, c.ports) = {}
        BY <3>1, TuplesHold
      <4> QED  BY <3>1, <4>1
    <3>2. CASE ts # {}
      <4>1. PICK D, U : D = {t.dst : t \in ts} /\ U = Tuples(ts, c.ports)
        OBVIOUS
      <4>2. Has(Setup(c), Command("addresses", D)) /\ Has(Setup(c), Command("tuples", U))
        BY <2>3, <3>2, <4>1
      <4>3. PICK i \in 1..L : Setup(c)[i] = Command("addresses", D)
        BY <1>2, <4>2 DEF Has
      <4>4. PICK j \in 1..L : Setup(c)[j] = Command("tuples", U)
        BY <1>2, <4>2 DEF Has
      <4>5. /\ Setup(c)[i].do = "addresses" /\ Setup(c)[i].arg = D
            /\ Setup(c)[j].do = "tuples" /\ Setup(c)[j].arg = U
        BY <4>3, <4>4, CommandHolds
      <4>6. D \subseteq n.addresses /\ U \subseteq n.tuples
        BY <1>3, <4>5
      <4> QED  BY <4>1, <4>6
    <3> QED  BY <3>1, <3>2
  <2>6. ASSUME NEW p \in n.tuples
        PROVE  p \in O \cup AskedBy(c) \/ p \in Tuples(c.literals \cup c.resolved, c.ports)
    <3>1. CASE p \in O
      BY <3>1
    <3>2. CASE p \notin O
      <4>1. PICK i \in 1..L : Setup(c)[i].do = "tuples" /\ p \in Setup(c)[i].arg
        BY <1>3, <3>2
      <4>2. Setup(c)[i] \in Fitting(c)
        BY <1>5, <4>1
      <4> QED  BY <4>1, <4>2 DEF Fitting, Fits
    <3> QED  BY <3>1, <3>2
  <2>7. ASSUME NEW a \in n.addresses
        PROVE  \/ [dst |-> a, svc |-> "echo"] \in O \cup AskedBy(c)
               \/ \E t \in c.literals \cup c.resolved : t.dst = a
    <3>1. PICK e : e = [dst |-> a, svc |-> "echo"]
      OBVIOUS
    <3>2. CASE e \in O
      BY <3>1, <3>2
    <3>3. CASE e \notin O
      <4>1. PICK i \in 1..L : Setup(c)[i].do = "addresses" /\ a \in Setup(c)[i].arg
        BY <1>3, <3>1, <3>3
      <4>2. Setup(c)[i] \in Fitting(c)
        BY <1>5, <4>1
      <4>3. e \in AskedBy(c) \/ \E t \in c.literals \cup c.resolved : t.dst = a
        BY <3>1, <4>1, <4>2 DEF Fitting, Fits
      <4> QED  BY <3>1, <4>3
    <3> QED  BY <3>2, <3>3
  <2> QED  BY <2>4, <2>5, <2>6, <2>7 DEF Filled
<1> QED  BY <1>4, <1>6, <1>7

LEMMA UpIsFit ==
  ASSUME EgressInv, phase = "up"
  PROVE  /\ network \in ConfigType /\ ~Unfit(network)
         /\ network.mode = "allowlist" => Filled(network, net, opened)
         /\ network.mode # "allowlist" => ~net.input
<1>1. network \in ConfigType /\ net \in NetType
  BY Fields DEF EgressInv
<1>2. Stocked(network, net, opened, Done)
  BY DEF EgressInv, SetsInv
<1>3. Done = Len(Setup(network))
  BY DEF Done, Total
<1>4. Stocked(network, net, opened, Len(Setup(network)))
  BY <1>2, <1>3
<1> QED  BY <1>1, <1>4, StockedFills

\* A caller's request becomes r.
LEMMA ReqBecomes ==
  ASSUME EgressTyped, NEW k \in Callers, NEW r \in ReqType, req' = [req EXCEPT ![k] = r],
         r.pc \in {"open", "read", "write"} => r.entry \in Entry, r.pc = "open" => r.mode \in Modes,
         network' = network, phase' = phase, plan' = plan, net' \in NetType, opened' \subseteq Packets
  PROVE  EgressTyped' /\ req'[k] = r /\ \A c \in Callers : c # k => req'[c] = req[c]
<1>1. req \in [Callers -> ReqType]
  BY Fields
<1>2. req' \in [Callers -> ReqType] /\ req'[k] = r /\ \A c \in Callers : c # k => req'[c] = req[c]
  BY <1>1
<1>3. \A c \in Callers : /\ req[c].pc \in {"open", "read", "write"} => req[c].entry \in Entry
                         /\ req[c].pc = "open" => req[c].mode \in Modes
  BY DEF EgressTyped
<1>4. \A c \in Callers : /\ req'[c].pc \in {"open", "read", "write"} => req'[c].entry \in Entry
                         /\ req'[c].pc = "open" => req'[c].mode \in Modes
  BY <1>2, <1>3
<1>5. /\ network' \in Configs \cup Mixed /\ plan' \in Seq(CommandType)
      /\ phase' \in {"setup", "up", "failed", "stopped"}
  BY DEF EgressTyped
<1> QED  BY <1>2, <1>4, <1>5 DEF EgressTyped

LEMMA NoReqHolds == NoReq \in ReqType /\ NoReq.pc = "idle"
BY DEF NoReq, ReqType

LEMMA AddBeginsKeeps ==
  ASSUME EgressInv, NEW k \in Callers, NEW cfg \in Mixed, NEW e \in Entries, NEW a \in BOOLEAN,
         AddBegins(k, cfg, e, a)
  PROVE  EgressInv'
<1>1. EgressTyped /\ BoundInv
  BY DEF EgressInv
<1>2. PICK mode, r : /\ mode = Detected(cfg, a)
                     /\ r = IF Admitted(mode, cfg.local, e)
                            THEN [NoReq EXCEPT !.pc = "open", !.entry = e, !.mode = mode, !.cap = cfg.ports]
                            ELSE NoReq
  OBVIOUS
<1>3. /\ req' = [req EXCEPT ![k] = r] /\ network' = network /\ phase' = phase /\ plan' = plan
      /\ net' = net /\ opened' = opened
      /\ flaws' = flaws \cup Note("early", phase # "up") \cup Note("blind", ~a) \cup Note("foreign", cfg # network)
  BY <1>2 DEF AddBegins
<1>4. cfg \in ConfigType /\ e \in Entry
  BY EgressAssumption
<1>5. cfg.mode \in Modes /\ cfg.ports \subseteq L4
  BY <1>4 DEF ConfigType, Modes
<1>6. mode \in Modes
  BY <1>2, <1>5 DEF Detected, Modes
<1>7. \/ r = NoReq
      \/ r = [pc |-> "open", entry |-> e, mode |-> mode, cap |-> cfg.ports, read |-> {}]
  BY <1>2 DEF NoReq
<1>8. r \in ReqType /\ (r.pc \in {"open", "read", "write"} => r.entry \in Entry)
      /\ (r.pc = "open" => r.mode = mode)
  <2>1. CASE r = NoReq
    BY <2>1, NoReqHolds
  <2>2. CASE r = [pc |-> "open", entry |-> e, mode |-> mode, cap |-> cfg.ports, read |-> {}]
    BY <1>4, <1>5, <1>6, <2>2 DEF ReqType
  <2> QED  BY <1>7, <2>1, <2>2
<1>9. net' \in NetType /\ opened' \subseteq Packets
  BY <1>1, <1>3, Fields
<1>10. EgressTyped' /\ req'[k] = r /\ \A c \in Callers : c # k => req'[c] = req[c]
  BY <1>1, <1>3, <1>6, <1>8, <1>9, ReqBecomes
<1>11. "crossed" \in flaws' <=> "crossed" \in flaws
  BY <1>3 DEF Note
<1>12. PlanInv' /\ ChainInv' /\ SetsInv'
  BY <1>3, <1>11, Untouched
<1>13. BoundInv'
  <2>1. SUFFICES ASSUME network.mode = "allowlist", flaws' \cap {"blind", "early", "crossed"} = {}
                 PROVE  /\ \A c \in Callers : req'[c].pc = "open" => req'[c].mode = "allowlist"
                        /\ \A p \in opened' : p.dst \in Public
    BY <1>3 DEF BoundInv
  <2>2. flaws \cap {"blind", "early", "crossed"} = {} /\ phase = "up" /\ a
    BY <1>3, <2>1 DEF Note
  <2>3. /\ \A c \in Callers : req[c].pc = "open" => req[c].mode = "allowlist"
        /\ \A p \in opened : p.dst \in Public
    BY <1>1, <2>1, <2>2 DEF BoundInv
  <2>4. net.listed
    BY <2>1, <2>2, UpIsFit DEF Filled
  <2>5. mode = "allowlist"
    BY <1>2, <2>2, <2>4 DEF Detected
  <2> QED  BY <1>3, <1>8, <1>10, <2>3, <2>5
<1> QED  BY <1>10, <1>12, <1>13 DEF EgressInv

\* A step that touches the names at most.
LEMMA NamesKeep ==
  ASSUME EgressInv, NEW k \in Callers, NEW r \in ReqType, req' = [req EXCEPT ![k] = r],
         r.pc \in {"read", "write"} => r.entry \in Entry, r.pc # "open",
         UNCHANGED <<network, phase, plan, opened>>, net' \in NetType,
         flaws' = flaws \/ flaws' = flaws \cup Note("early", phase # "up"),
         /\ net'.chain = net.chain /\ net'.listed = net.listed /\ net'.input = net.input
         /\ net'.tuples = net.tuples /\ net'.addresses = net.addresses
  PROVE  EgressInv'
<1>1. EgressTyped /\ BoundInv /\ opened' \subseteq Packets
  BY Fields DEF EgressInv
<1>2. EgressTyped' /\ req'[k] = r /\ \A c \in Callers : c # k => req'[c] = req[c]
  BY <1>1, ReqBecomes
<1>3. "crossed" \in flaws' <=> "crossed" \in flaws
  BY DEF Note
<1>4. PlanInv' /\ ChainInv' /\ SetsInv'
  BY <1>3, Untouched
<1>5. BoundInv'
  <2>1. flaws' \cap {"blind", "early", "crossed"} = {} => flaws \cap {"blind", "early", "crossed"} = {}
    OBVIOUS
  <2> QED  BY <1>1, <1>2, <2>1 DEF BoundInv
<1> QED  BY <1>2, <1>4, <1>5 DEF EgressInv

LEMMA BlockSet ==
  ASSUME NEW n \in NetType, NEW b \in SUBSET (Addresses \X STRING), NEW k, k = [n EXCEPT !.block = b]
  PROVE  /\ k \in NetType /\ k.chain = n.chain /\ k.listed = n.listed /\ k.input = n.input
         /\ k.tuples = n.tuples /\ k.addresses = n.addresses
BY DEF NetType

LEMMA ReqFields ==
  ASSUME EgressTyped, NEW k \in Callers
  PROVE  /\ req[k] \in ReqType /\ req[k].cap \subseteq L4 /\ req[k].read \subseteq Addresses \X STRING
         /\ req[k].pc \in {"open", "read", "write"} => req[k].entry \in Entry
         /\ req[k].pc = "open" => req[k].mode \in Modes
<1>1. req[k] \in ReqType
  BY Fields
<1> QED  BY <1>1 DEF EgressTyped, ReqType

LEMMA AddReadsKeeps ==
  ASSUME EgressInv, NEW k \in Callers, AddReads(k)
  PROVE  EgressInv'
<1>1. EgressTyped /\ net \in NetType /\ net.block \subseteq Addresses \X STRING
  BY Fields DEF EgressInv, NetType
<1>2. PICK q : q = req[k]
  OBVIOUS
<1>3. q \in ReqType /\ q.pc = "read" /\ q.entry \in Entry
  BY <1>1, <1>2, ReqFields DEF AddReads
<1>4. PICK r : r = IF phase = "stopped" THEN NoReq ELSE [q EXCEPT !.pc = "write", !.read = net.block]
  OBVIOUS
<1>5. /\ req' = [req EXCEPT ![k] = r] /\ net' = net /\ flaws' = flaws /\ UNCHANGED <<network, phase, plan, opened>>
  BY <1>1, <1>2, <1>4, Fields DEF AddReads
<1>6. r \in ReqType /\ r.pc # "open" /\ (r.pc \in {"read", "write"} => r.entry \in Entry)
  <2>1. CASE r = NoReq
    BY <2>1, NoReqHolds
  <2>2. CASE r = [q EXCEPT !.pc = "write", !.read = net.block]
    <3>1. r = [pc |-> "write", entry |-> q.entry, mode |-> q.mode, cap |-> q.cap, read |-> net.block]
      BY <1>3, <2>2 DEF ReqType
    <3> QED  BY <1>1, <1>3, <3>1 DEF ReqType
  <2> QED  BY <1>4, <2>1, <2>2
<1> QED  BY <1>1, <1>5, <1>6, NamesKeep

LEMMA AddWritesKeeps ==
  ASSUME EgressInv, NEW k \in Callers, AddWrites(k)
  PROVE  EgressInv'
<1>1. EgressTyped /\ net \in NetType
  BY Fields DEF EgressInv
<1>2. PICK b : b = req[k].read \cup {Line(req[k].entry)}
  OBVIOUS
<1>3. b \in SUBSET (Addresses \X STRING)
  <2>1. req[k].read \subseteq Addresses \X STRING /\ req[k].entry \in Entry
    BY <1>1, ReqFields DEF AddWrites
  <2>2. Line(req[k].entry) \in Addresses \X STRING
    BY <2>1 DEF Line, Entry
  <2> QED  BY <1>2, <2>1, <2>2
<1>4. /\ req' = [req EXCEPT ![k] = NoReq] /\ flaws' = flaws /\ UNCHANGED <<network, phase, plan, opened>>
      /\ net' = net \/ net' = [net EXCEPT !.block = b]
  BY <1>2 DEF AddWrites
<1>5. /\ net' \in NetType /\ net'.chain = net.chain /\ net'.listed = net.listed /\ net'.input = net.input
      /\ net'.tuples = net.tuples /\ net'.addresses = net.addresses
  BY <1>1, <1>3, <1>4, BlockSet
<1> QED  BY <1>4, <1>5, NoReqHolds, NamesKeep

LEMMA RemoveReadsKeeps ==
  ASSUME EgressInv, NEW k \in Callers, NEW name, RemoveReads(k, name)
  PROVE  EgressInv'
<1>1. net \in NetType /\ net.block \subseteq Addresses \X STRING
  BY Fields DEF EgressInv, NetType
<1>2. PICK b, r : b = {l \in net.block : l[2] # name} /\ r = [NoReq EXCEPT !.pc = "drop", !.read = b]
  OBVIOUS
<1>3. r = [pc |-> "drop", entry |-> "none", mode |-> "none", cap |-> {}, read |-> b]
  BY <1>2 DEF NoReq
<1>4. b \subseteq Addresses \X STRING
  BY <1>1, <1>2
<1>5. r \in ReqType /\ r.pc = "drop"
  BY <1>3, <1>4 DEF ReqType
<1>6. /\ req' = [req EXCEPT ![k] = r] /\ net' = net /\ flaws' = flaws \cup Note("early", phase # "up")
      /\ UNCHANGED <<network, phase, plan, opened>>
  BY <1>2 DEF RemoveReads
<1> QED  BY <1>1, <1>5, <1>6, NamesKeep

LEMMA RemoveWritesKeeps ==
  ASSUME EgressInv, NEW k \in Callers, RemoveWrites(k)
  PROVE  EgressInv'
<1>1. EgressTyped /\ net \in NetType
  BY Fields DEF EgressInv
<1>2. req[k].read \in SUBSET (Addresses \X STRING)
  BY <1>1, ReqFields
<1>3. /\ req' = [req EXCEPT ![k] = NoReq] /\ flaws' = flaws /\ UNCHANGED <<network, phase, plan, opened>>
      /\ net' = net \/ net' = [net EXCEPT !.block = req[k].read]
  BY DEF RemoveWrites
<1>4. /\ net' \in NetType /\ net'.chain = net.chain /\ net'.listed = net.listed /\ net'.input = net.input
      /\ net'.tuples = net.tuples /\ net'.addresses = net.addresses
  BY <1>1, <1>2, <1>3, BlockSet
<1> QED  BY <1>3, <1>4, NoReqHolds, NamesKeep

\* The calls that open a destination, as their effects.
Made(k, all, n) == CASE n = 0 -> k [] n = 1 -> Do(k, all[1]) [] n = 2 -> Do(Do(k, all[1]), all[2])
Opened(all, n) == UNION {Opens(all[i]) : i \in 1..n}

LEMMA CallsOpen ==
  ASSUME NEW mode, NEW all, Calls(mode, all), NEW n \in 0..Len(all), NEW k \in NetType,
         \A i \in 1..n : CanDo(k, all[i]),
         NEW t, t = Made(k, all, n), NEW U, U = Opened(all, n),
         EgressTyped, PlanInv, NEW O, Held(k, O)
  PROVE  Held(t, O \cup U) /\ (mode = "allowlist" => \A p \in U : p.dst \in Public)
<1>1. CASE n = 0
  <2>1. t = k /\ U = {}
    BY <1>1 DEF Made, Opened
  <2>2. O \cup U = O
    BY <2>1
  <2> QED  BY <2>1, <2>2
<1>2. CASE all = <<>>
  <2>1. n = 0
    BY <1>2
  <2> QED  BY <1>1, <2>1
<1>3. CASE n # 0 /\ mode = "restricted" /\ \E r \in Grants : all = <<Command("insert", r)>>
  <2>1. PICK r \in Grants : all = <<Command("insert", r)>>
    BY <1>3
  <2>2. PICK x : x = Command("insert", r)
    OBVIOUS
  <2>3. n = 1 /\ all[1] = x
    BY <1>3, <2>1, <2>2
  <2>4. x.do = "insert" /\ x.arg = r
    BY <2>2, CommandHolds
  <2>5. Asks(x) /\ CanDo(k, x)
    BY <2>3, <2>4 DEF Asks
  <2>6. t = Do(k, x) /\ U = Opens(x)
    BY <2>3 DEF Made, Opened
  <2>7. Held(Do(k, x), O \cup Opens(x))
    BY <2>5, HeldDoes
  <2> QED  BY <1>3, <2>6, <2>7
<1>4. CASE n # 0 /\ mode = "allowlist" /\ \E a \in Public : \E s \in SUBSET L4 :
             all = <<Command("addresses", {a}), Command("tuples", Via(a, s))>>
  <2>1. PICK a \in Public, s \in SUBSET L4 : all = <<Command("addresses", {a}), Command("tuples", Via(a, s))>>
    BY <1>4
  <2>2. PICK x, y : x = Command("addresses", {a}) /\ y = Command("tuples", Via(a, s))
    OBVIOUS
  <2>3. n \in {1, 2} /\ all[1] = x /\ all[2] = y
    BY <1>4, <2>1, <2>2
  <2>4. x.do = "addresses" /\ x.arg = {a} /\ y.do = "tuples" /\ y.arg = Via(a, s)
    BY <2>2, CommandHolds
  <2>5. {a} \subseteq Addresses /\ Via(a, s) \subseteq Packets
    <3>1. a \in Addresses
      BY DEF Addresses
    <3> QED  BY <3>1 DEF Via, Packets, Services
  <2>6. Asks(x) /\ Asks(y) /\ CanDo(k, x)
    BY <2>3, <2>4, <2>5 DEF Asks
  <2>7. Opens(x) = [dst : {a}, svc : {"echo"}] /\ Opens(y) = [dst : {a}, svc : s]
    BY <2>4 DEF Opens, Via
  <2>8. \A p \in Opens(x) \cup Opens(y) : p.dst \in Public
    BY <2>7
  <2>9. PICK w, V : w = Do(k, x) /\ V = O \cup Opens(x)
    OBVIOUS
  <2>10. Held(w, V)
    BY <2>6, <2>9, HeldDoes
  <2>11. CASE n = 1
    <3>1. t = w /\ U = Opens(x)
      BY <2>3, <2>9, <2>11 DEF Made, Opened
    <3> QED  BY <2>8, <2>9, <2>10, <3>1
  <2>12. CASE n = 2
    <3>1. t = Do(w, y) /\ U = Opens(x) \cup Opens(y)
      <4>1. U = UNION {Opens(all[i]) : i \in {1, 2}}
        BY <2>12 DEF Opened
      <4> QED  BY <2>3, <2>9, <2>12, <4>1 DEF Made
    <3>2. CanDo(k, y)
      BY <2>3, <2>12
    <3>3. k.listed
      BY <2>4, <3>2 DEF CanDo
    <3>4. w.listed = k.listed
      <4>1. w = Net(k.chain, k.input, k.listed, k.addresses \cup x.arg, k.tuples, k.block)
        BY <2>4, <2>9, DoAddresses
      <4> QED  BY <4>1, NetFields
    <3>5. CanDo(w, y)
      BY <2>4, <3>3, <3>4 DEF CanDo
    <3>6. Held(Do(w, y), V \cup Opens(y))
      BY <2>6, <2>10, <3>5, HeldDoes
    <3>7. O \cup U = V \cup Opens(y)
      BY <2>9, <3>1
    <3> QED  BY <2>8, <3>1, <3>6, <3>7
  <2> QED  BY <2>3, <2>11, <2>12
<1> QED  BY <1>1, <1>2, <1>3, <1>4 DEF Calls

LEMMA AddOpensKeeps ==
  ASSUME EgressInv, NEW k \in Callers, NEW n \in 0..2, AddOpens(k, n)
  PROVE  EgressInv'
<1>1. EgressTyped /\ PlanInv /\ BoundInv /\ net \in NetType /\ Held(net, opened)
  BY HeldNow, Fields DEF EgressInv
<1>2. PICK q, all, t, U : /\ q = req[k] /\ all = Opening(req[k].mode, req[k].entry, req[k].cap)
                          /\ t = net' /\ U = Opened(all, n)
  OBVIOUS
<1>3. q \in ReqType /\ q.pc = "open" /\ q.entry \in Entry /\ q.mode \in Modes /\ q.cap \subseteq L4
  BY <1>1, <1>2, ReqFields DEF AddOpens
<1>4. /\ n \in 0..Len(all) /\ \A i \in 1..n : CanDo(net, all[i])
      /\ t = Made(net, all, n)
      /\ opened' = opened \cup U /\ UNCHANGED <<network, phase, plan, flaws>>
  BY <1>2 DEF AddOpens, Made, Opened
<1>5. Calls(q.mode, all)
  BY <1>2, <1>3, OpeningHolds
<1>6. Held(t, opened \cup U) /\ (q.mode = "allowlist" => \A p \in U : p.dst \in Public)
  <2>1. PICK w, O, mode : w = net /\ O = opened /\ mode = q.mode
    OBVIOUS
  <2>2. /\ w \in NetType /\ Held(w, O) /\ Calls(mode, all) /\ \A i \in 1..n : CanDo(w, all[i])
        /\ t = Made(w, all, n)
    BY <1>1, <1>4, <1>5, <2>1
  <2>3. U = Opened(all, n) /\ n \in 0..Len(all)
    BY <1>2, <1>4
  <2>4. Held(t, O \cup U) /\ (mode = "allowlist" => \A p \in U : p.dst \in Public)
    BY <1>1, <2>2, <2>3, CallsOpen
  <2> QED  BY <2>1, <2>4
<1>7. net' \in NetType /\ opened' \subseteq Packets /\ PlanInv' /\ ChainInv' /\ SetsInv'
  BY <1>2, <1>4, <1>6, HeldIs
<1>8. PICK r : r = IF n = Len(all) THEN [q EXCEPT !.pc = "read"] ELSE NoReq
  OBVIOUS
<1>9. req' = [req EXCEPT ![k] = r]
  BY <1>1, <1>2, <1>8, Fields DEF AddOpens
<1>10. r \in ReqType /\ r.pc # "open" /\ (r.pc = "read" => r.entry \in Entry) /\ r.pc # "write"
  <2>1. CASE r = NoReq
    BY <2>1, NoReqHolds
  <2>2. CASE r = [q EXCEPT !.pc = "read"]
    BY <1>3, <2>2 DEF ReqType
  <2> QED  BY <1>8, <2>1, <2>2
<1>11. EgressTyped' /\ req'[k] = r /\ \A c \in Callers : c # k => req'[c] = req[c]
  BY <1>1, <1>4, <1>7, <1>9, <1>10, ReqBecomes
<1>12. BoundInv'
  BY <1>1, <1>2, <1>3, <1>4, <1>6, <1>10, <1>11 DEF BoundInv
<1> QED  BY <1>7, <1>11, <1>12 DEF EgressInv

LEMMA StutterKeeps ==
  ASSUME EgressInv, UNCHANGED evars
  PROVE  EgressInv'
<1>1. /\ network' = network /\ phase' = phase /\ plan' = plan /\ net' = net /\ req' = req
      /\ opened' = opened /\ flaws' = flaws
  BY DEF evars
<1>2. PlanInv' /\ ChainInv' /\ SetsInv'
  BY <1>1, Untouched
<1>3. EgressTyped' /\ BoundInv'
  BY <1>1 DEF EgressInv, EgressTyped, BoundInv
<1> QED  BY <1>2, <1>3 DEF EgressInv

\* The invariant, for every configuration, caller and number of commands.
LEMMA EgressAlwaysInv == ESpec => []EgressInv
<1>1. EInit => EgressInv
  BY InitKeeps
<1>2. EgressInv /\ [ENext]_evars => EgressInv'
  <2>1. SUFFICES ASSUME EgressInv, [ENext]_evars PROVE EgressInv'
    OBVIOUS
  <2>2. CASE Step
    BY <2>1, <2>2, StepKeeps
  <2>3. CASE StepFails
    BY <2>1, <2>3, StepFailsKeeps
  <2>4. CASE Stop
    BY <2>1, <2>4, StopKeeps
  <2>5. CASE \E c \in Mixed : StartAgain(c)
    BY <2>1, <2>5, StartAgainKeeps
  <2>6. ASSUME NEW c \in Callers, \E cfg \in Mixed, e \in Entries, a \in BOOLEAN : AddBegins(c, cfg, e, a)
        PROVE  EgressInv'
    BY <2>1, <2>6, AddBeginsKeeps
  <2>7. ASSUME NEW c \in Callers, \E n \in 0..2 : AddOpens(c, n) PROVE EgressInv'
    BY <2>1, <2>7, AddOpensKeeps
  <2>8. ASSUME NEW c \in Callers, AddReads(c) PROVE EgressInv'
    BY <2>1, <2>8, AddReadsKeeps
  <2>9. ASSUME NEW c \in Callers, AddWrites(c) PROVE EgressInv'
    BY <2>1, <2>9, AddWritesKeeps
  <2>10. ASSUME NEW c \in Callers, \E e \in Entries : RemoveReads(c, e.name) PROVE EgressInv'
    BY <2>1, <2>10, RemoveReadsKeeps
  <2>11. ASSUME NEW c \in Callers, RemoveWrites(c) PROVE EgressInv'
    BY <2>1, <2>11, RemoveWritesKeeps
  <2>12. CASE UNCHANGED evars
    BY <2>1, <2>12, StutterKeeps
  <2> QED  BY <2>1, <2>2, <2>3, <2>4, <2>5, <2>6, <2>7, <2>8, <2>9, <2>10, <2>11, <2>12 DEF ENext
<1> QED  BY <1>1, <1>2, PTL DEF ESpec

-----------------------------------------------------------------------------
(* What the chain lets through.                                             *)

LEMMA FirstHit ==
  ASSUME net.chain \in Seq(RuleType), NEW p, p.dst # Bridge
  PROVE  /\ \A h \in DOMAIN net.chain :
              Matches(net.chain[h], p) /\ (\A j \in DOMAIN net.chain : j < h => ~Matches(net.chain[j], p))
              => (Passes(p) <=> net.chain[h].act = "accept")
         /\ (\A j \in DOMAIN net.chain : ~Matches(net.chain[j], p)) => Passes(p)
         /\ \A k \in DOMAIN net.chain : Matches(net.chain[k], p) =>
              \E h \in DOMAIN net.chain :
                /\ h <= k /\ Matches(net.chain[h], p)
                /\ \A j \in DOMAIN net.chain : j < h => ~Matches(net.chain[j], p)
<1>1. PICK hits : hits = {i \in DOMAIN net.chain : Matches(net.chain[i], p)}
  OBVIOUS
<1>2. DOMAIN net.chain \subseteq Nat
  OBVIOUS
<1>3. Passes(p) <=> hits = {} \/ net.chain[CHOOSE i \in hits : \A j \in hits : i <= j].act = "accept"
  BY <1>1 DEF Passes
<1>4. ASSUME NEW h \in DOMAIN net.chain, Matches(net.chain[h], p),
             \A j \in DOMAIN net.chain : j < h => ~Matches(net.chain[j], p)
      PROVE  Passes(p) <=> net.chain[h].act = "accept"
  <2>1. h \in hits /\ \A j \in hits : h <= j
    BY <1>1, <1>2, <1>4
  <2>2. \A i \in hits : (\A j \in hits : i <= j) => i = h
    BY <1>1, <1>2, <2>1
  <2>3. (CHOOSE i \in hits : \A j \in hits : i <= j) = h
    BY <2>1, <2>2
  <2> QED  BY <1>3, <2>1, <2>3
<1>5. ASSUME NEW k \in DOMAIN net.chain, Matches(net.chain[k], p)
      PROVE  \E h \in DOMAIN net.chain : /\ h <= k /\ Matches(net.chain[h], p)
                                         /\ \A j \in DOMAIN net.chain : j < h => ~Matches(net.chain[j], p)
  <2>1. hits \in SUBSET Nat /\ k \in hits
    BY <1>1, <1>2, <1>5
  <2>2. PICK h \in hits : \A j \in hits : h <= j
    BY <2>1, Least
  <2>3. \A j \in DOMAIN net.chain : j < h => ~Matches(net.chain[j], p)
    BY <1>1, <1>2, <2>2
  <2> QED  BY <1>1, <2>1, <2>2, <2>3
<1> QED  BY <1>1, <1>3, <1>4, <1>5

\* A rule at the front lets through what it grants.
LEMMA FrontHit ==
  ASSUME NEW ch, NEW A, NEW m \in Nat, NEW b, Fronted(ch, A, m, b), NEW i \in 1..m,
         NEW p \in Packets, Matches(ch[i], p)
  PROVE  ch[i].act = "accept" /\ p \in A
<1>1. ch[i] \in Grants /\ Through(ch[i]) \subseteq A
  BY DEF Fronted
<1>2. ch[i].act = "accept"
  BY <1>1, GrantHolds
<1>3. p = [dst |-> p.dst, svc |-> p.svc] /\ p.dst \in ch[i].dsts /\ p.svc \in ch[i].svcs
  BY DEF Packets, Matches
<1>4. p \in Through(ch[i])
  BY <1>3 DEF Through
<1> QED  BY <1>1, <1>2, <1>4

LEMMA UpSays ==
  ASSUME EgressInv, phase = "up", network.mode # "open", NEW p \in Packets, p.dst # Bridge,
         NEW a \in {"accept", "reject"}, Says(Setup(network), p, a)
  PROVE  /\ a = "accept" => Passes(p)
         /\ a = "reject" /\ Passes(p) => p \in AskedBy(network) \cup opened
<1>1. PICK c, ch, L, A : /\ c = network /\ ch = net.chain /\ L = Len(Setup(network))
                         /\ A = AskedBy(network) \cup opened
  OBVIOUS
<1>2. c \in ConfigType /\ ch \in Seq(RuleType) /\ DOMAIN ch = 1..Len(ch) /\ Len(ch) \in Nat
  BY <1>1, Fields DEF EgressInv
<1>3. Done = L
  BY <1>1 DEF Done, Total
<1>4. Allowed = A
  BY <1>1 DEF Allowed, Left
<1>5. PICK m \in Nat : Fronted(ch, A, m, 0) /\ Policed(c, ch, m, L)
  BY <1>1, <1>3, <1>4 DEF EgressInv, ChainInv, Shaped
<1>6. PICK F : F = AddsAt(c)
  OBVIOUS
<1>7. /\ Len(ch) = m + Rank(F, L)
      /\ \A i \in F : i <= L => ch[m + Rank(F, i)] = Setup(c)[i].arg
  BY <1>1, <1>5, <1>6 DEF Policed
<1>8. /\ L \in Nat /\ F \subseteq 1..L
      /\ \A e \in 0..L : Rank(F, e) \in Nat
      /\ \A i \in F : Rank(F, i) >= 1
      /\ \A e, f \in 0..L : e <= f => Rank(F, e) <= Rank(F, f)
      /\ \A q \in 1..Rank(F, L) : \E j \in F : j <= L /\ Rank(F, j) = q
  <2>1. L \in Nat /\ \A d \in 0..L : \A q \in 1..Rank(F, d) : \E j \in F : j <= d /\ Rank(F, j) = q
    BY <1>1, <1>2, <1>6, PlacesHold
  <2>2. L \in 0..L
    BY <2>1
  <2>3. /\ F \subseteq 1..L /\ \A e \in 0..L : Rank(F, e) \in Nat
        /\ \A i \in F : Rank(F, i) >= 1
        /\ \A e, f \in 0..L : e <= f => Rank(F, e) <= Rank(F, f)
    BY <1>1, <1>2, <1>6, RanksHold
  <2> QED  BY <2>1, <2>2, <2>3
<1>9. PICK i \in DOMAIN Setup(c) : /\ Hits(Setup(c)[i], p) /\ Setup(c)[i].arg.act = a
                                   /\ \A j \in DOMAIN Setup(c) : j < i => ~Hits(Setup(c)[j], p)
  BY <1>1 DEF Says
<1>10. i \in F /\ \A j \in F : j \in DOMAIN Setup(c) /\ Setup(c)[j].do = "add"
  BY <1>6, <1>9 DEF AddsAt, Hits
<1>11. PICK q \in Nat : q = Rank(F, i) /\ q >= 1 /\ q <= Rank(F, L) /\ i \in 1..L
  <2>1. i \in 1..L /\ L \in 0..L /\ i \in 0..L /\ i <= L
    BY <1>8, <1>10
  <2> QED  BY <1>8, <1>10, <2>1
<1>12. /\ m + q \in DOMAIN ch /\ ch[m + q] = Setup(c)[i].arg /\ Matches(ch[m + q], p)
       /\ ch[m + q].act = a
  <2>1. m + q \in 1..Len(ch)
    <3>1. Rank(F, L) \in Nat
      BY <1>8
    <3> QED  BY <1>7, <1>11, <3>1
  <2>2. ch[m + q] = Setup(c)[i].arg
    BY <1>7, <1>10, <1>11
  <2> QED  BY <1>2, <1>9, <2>1, <2>2 DEF Hits
<1>13. PICK h \in DOMAIN ch : /\ h <= m + q /\ Matches(ch[h], p)
                              /\ \A j \in DOMAIN ch : j < h => ~Matches(ch[j], p)
  BY <1>1, <1>2, <1>12, FirstHit
<1>14. Passes(p) <=> ch[h].act = "accept"
  BY <1>1, <1>2, <1>13, FirstHit
<1>15. CASE h <= m
  <2>1. h \in 1..m
    BY <1>2, <1>13, <1>15
  <2>2. ch[h].act = "accept" /\ p \in A
    BY <1>5, <1>13, <2>1, FrontHit
  <2> QED  BY <1>1, <1>14, <2>2
<1>16. CASE h > m
  <2>1. h = m + q
    <3>1. SUFFICES ASSUME h # m + q PROVE FALSE
      OBVIOUS
    <3>2. PICK r \in Nat : r >= 1 /\ r < q /\ h = m + r
      <4>1. h \in Nat
        BY <1>2, <1>13
      <4>2. h - m \in Nat /\ h - m >= 1 /\ h - m < q /\ h = m + (h - m)
        BY <1>11, <1>13, <1>16, <3>1, <4>1
      <4> QED  BY <4>2
    <3>3. r \in 1..Rank(F, L)
      BY <1>8, <1>11, <3>2
    <3>4. PICK j \in F : j <= L /\ Rank(F, j) = r
      BY <1>8, <3>3
    <3>5. ch[h] = Setup(c)[j].arg
      BY <1>7, <3>2, <3>4
    <3>6. j < i
      <4>1. i \in 0..L /\ j \in 0..L /\ i \in Nat /\ j \in Nat
        BY <1>8, <1>10, <3>4
      <4>2. i <= j => q <= r
        BY <1>8, <1>11, <3>4, <4>1
      <4> QED  BY <1>11, <3>2, <4>1, <4>2
    <3>7. ~Hits(Setup(c)[j], p)
      BY <1>9, <1>10, <3>4, <3>6
    <3> QED  BY <1>10, <1>13, <3>4, <3>5, <3>7 DEF Hits
  <2> QED  BY <1>12, <1>14, <2>1
<1> QED  BY <1>2, <1>13, <1>15, <1>16

\* In open mode every rule accepts.
LEMMA UpOpen ==
  ASSUME EgressInv, phase = "up", network.mode = "open", NEW p \in Packets, p.dst # Bridge
  PROVE  Passes(p)
<1>1. net.chain \in Seq(RuleType) /\ DOMAIN net.chain = 1..Len(net.chain) /\ Len(net.chain) \in Nat
  BY Fields DEF EgressInv
<1>2. PICK m \in Nat : Fronted(net.chain, Allowed, m, 0) /\ Policed(network, net.chain, m, Done)
  BY DEF EgressInv, ChainInv, Shaped
<1>3. ASSUME NEW h \in DOMAIN net.chain, Matches(net.chain[h], p) PROVE net.chain[h].act = "accept"
  <2>1. h \in 1..m \/ h \in m + 1..Len(net.chain)
    BY <1>1
  <2>2. CASE h \in 1..m
    BY <1>2, <1>3, <2>2, FrontHit
  <2>3. CASE h \in m + 1..Len(net.chain)
    BY <1>2, <2>3 DEF Policed
  <2> QED  BY <2>1, <2>2, <2>3
<1>4. CASE \A j \in DOMAIN net.chain : ~Matches(net.chain[j], p)
  BY <1>1, <1>4, FirstHit
<1>5. CASE \E j \in DOMAIN net.chain : Matches(net.chain[j], p)
  <2>1. PICK h \in DOMAIN net.chain : /\ Matches(net.chain[h], p)
                                      /\ \A j \in DOMAIN net.chain : j < h => ~Matches(net.chain[j], p)
    BY <1>1, <1>5, FirstHit
  <2> QED  BY <1>1, <1>3, <2>1, FirstHit
<1> QED  BY <1>4, <1>5

-----------------------------------------------------------------------------
(* The properties.                                                          *)

LEMMA MiddleSays ==
  ASSUME NEW c \in ConfigType, ~Unfit(c), NEW p \in Packets, p.dst # Bridge
  PROVE  /\ c.mode = "restricted" => Says(Setup(c), p, IF Promised(c, p) THEN "accept" ELSE "reject")
         /\ c.mode = "allowlist" => Says(Setup(c), p,
              IF p.svc = "dns" THEN "reject"
              ELSE IF c.local /\ p.dst \in Private /\ p.svc \in Scope({}, c.ports) THEN "accept"
              ELSE IF ~c.local /\ p.dst \in Private \cup Meta THEN "reject"
              ELSE IF InTheSets(p) THEN "accept" ELSE "reject")
<1>1. \A a : Says(Middle(c), p, a) => Says(Setup(c), p, a)
  BY SetupHolds
<1>2. ASSUME c.mode = "restricted"
      PROVE  Says(Setup(c), p, IF Promised(c, p) THEN "accept" ELSE "reject")
  <2>1. Middle(c) = Adds(RestrictedRules(c))
    BY <1>2 DEF Middle
  <2>2. PICK a : a = IF Promised(c, p) THEN "accept" ELSE "reject"
    OBVIOUS
  <2>3. Verdict(RestrictedRules(c), p, a)
    BY <1>2, <2>2, RestrictedSays
  <2>4. Says(Middle(c), p, a)
    BY <2>1, <2>3 DEF Verdict
  <2> QED  BY <1>1, <2>2, <2>4
<1>3. ASSUME c.mode = "allowlist"
      PROVE  Says(Setup(c), p,
              IF p.svc = "dns" THEN "reject"
              ELSE IF c.local /\ p.dst \in Private /\ p.svc \in Scope({}, c.ports) THEN "accept"
              ELSE IF ~c.local /\ p.dst \in Private \cup Meta THEN "reject"
              ELSE IF InTheSets(p) THEN "accept" ELSE "reject")
  <2>1. Middle(c) = AllowlistCommands(c)
    BY <1>3 DEF Middle
  <2>2. PICK a : a = IF p.svc = "dns" THEN "reject"
              ELSE IF c.local /\ p.dst \in Private /\ p.svc \in Scope({}, c.ports) THEN "accept"
              ELSE IF ~c.local /\ p.dst \in Private \cup Meta THEN "reject"
              ELSE IF InTheSets(p) THEN "accept" ELSE "reject"
    OBVIOUS
  <2>3. Says(AllowlistCommands(c), p, a)
    BY <1>3, <2>2, AllowlistHolds
  <2> QED  BY <1>1, <2>1, <2>2, <2>3
<1> QED  BY <1>2, <1>3

\* Every packet of an allowlist container, against what the setup says of it.
LEMMA AllowlistPromises ==
  ASSUME NEW c \in ConfigType, c.mode = "allowlist", NEW O, Filled(c, net, O), NEW p \in Packets, p.dst # Bridge,
         NEW a, a = IF p.svc = "dns" THEN "reject"
              ELSE IF c.local /\ p.dst \in Private /\ p.svc \in Scope({}, c.ports) THEN "accept"
              ELSE IF ~c.local /\ p.dst \in Private \cup Meta THEN "reject"
              ELSE IF InTheSets(p) THEN "accept" ELSE "reject"
  PROVE  /\ a \in {"accept", "reject"}
         /\ a = "accept" => \/ Promised(c, p) \/ p \in O \cup AskedBy(c)
                            \/ MetadataListed(c, p) \/ ScopeIgnored(c, p)
         /\ Promised(c, p) => a = "accept" \/ PingToLAN(c, p)
<1>1. /\ Promised(c, p) <=> /\ p.svc # "dns"
                            /\ p.dst \in Private => c.local
                            /\ p.dst \in Meta => c.local /\ ~c.meta
                            /\ \/ Listed(c, p)
                               \/ p.dst \in Private /\ Capped(c, p.svc) /\ ~Scoped(c, p.dst)
  BY DEF Promised
<1>2. c.ports \subseteq L4 /\ c.literals \subseteq Target /\ c.resolved \subseteq Target
  BY DEF ConfigType
<1>3. p = [dst |-> p.dst, svc |-> p.svc] /\ p.svc \in Services
  BY DEF Packets
<1>4. p.svc \in Scope({}, c.ports) => Capped(c, p.svc)
  BY DEF Scope, PortsOf, Capped
<1>5. Capped(c, p.svc) => p.svc \in Scope({}, c.ports) \/ (c.ports # {} /\ p.svc = "echo")
  BY <1>3 DEF Scope, PortsOf, Capped
<1>6. InTheSets(p) => Listed(c, p) \/ p \in O \cup AskedBy(c)
  <2>1. CASE p \in net.tuples
    <3>1. p \in O \cup AskedBy(c) \/ p \in Tuples(c.literals \cup c.resolved, c.ports)
      BY <2>1 DEF Filled
    <3>2. ASSUME p \in Tuples(c.literals \cup c.resolved, c.ports) PROVE Listed(c, p)
      <4>1. PICK t \in c.literals \cup c.resolved : p \in Via(t.dst, PortsOf(t.ports, c.ports))
        BY <3>2, TuplesHold
      <4>2. p.dst = t.dst /\ p.svc \in PortsOf(t.ports, c.ports)
        BY <4>1 DEF Via
      <4> QED  BY <4>2 DEF Listed
    <3> QED  BY <3>1, <3>2
  <2>2. CASE p.svc = "echo" /\ p.dst \in net.addresses
    <3>1. \/ [dst |-> p.dst, svc |-> "echo"] \in O \cup AskedBy(c)
          \/ \E t \in c.literals \cup c.resolved : t.dst = p.dst
      BY <2>2 DEF Filled
    <3> QED  BY <1>3, <2>2, <3>1 DEF Listed
  <2> QED  BY <2>1, <2>2 DEF InTheSets
<1>7. Listed(c, p) => InTheSets(p)
  <2>1. SUFFICES ASSUME NEW t \in c.literals \cup c.resolved, t.dst = p.dst,
                        p.svc = "echo" \/ p.svc \in PortsOf(t.ports, c.ports)
                 PROVE  InTheSets(p)
    BY DEF Listed
  <2>2. PICK ts \in {c.literals, c.resolved} : t \in ts
    BY <2>1
  <2>3. Tuples(ts, c.ports) \subseteq net.tuples /\ {u.dst : u \in ts} \subseteq net.addresses
    BY <2>2 DEF Filled
  <2>4. CASE p.svc = "echo"
    BY <2>1, <2>2, <2>3, <2>4 DEF InTheSets
  <2>5. CASE p.svc \in PortsOf(t.ports, c.ports)
    <3>1. t.ports \in SUBSET L4
      BY <1>2 DEF Target
    <3>2. p.svc \in L4
      BY <1>2, <2>5, <3>1, PortsHold
    <3>3. p \in Via(t.dst, PortsOf(t.ports, c.ports))
      BY <1>3, <2>1, <2>5 DEF Via
    <3>4. p \in Tuples(ts, c.ports)
      BY <2>2, <3>3, TuplesHold
    <3> QED  BY <2>3, <3>2, <3>4 DEF InTheSets
  <2> QED  BY <2>1, <2>4, <2>5
<1>8. a \in {"accept", "reject"}
  OBVIOUS
<1>9. ASSUME a = "accept"
      PROVE  \/ Promised(c, p) \/ p \in O \cup AskedBy(c)
             \/ MetadataListed(c, p) \/ ScopeIgnored(c, p)
  <2>1. p.svc # "dns"
    BY <1>9
  <2>2. CASE c.local /\ p.dst \in Private /\ p.svc \in Scope({}, c.ports)
    <3>1. p.dst \notin Meta /\ Capped(c, p.svc)
      BY <1>4, <2>2, EgressAssumption
    <3>2. CASE Scoped(c, p.dst)
      BY <2>2, <3>1, <3>2 DEF ScopeIgnored
    <3>3. CASE ~Scoped(c, p.dst)
      BY <1>1, <2>1, <2>2, <3>1, <3>3
    <3> QED  BY <3>2, <3>3
  <2>3. CASE ~(c.local /\ p.dst \in Private /\ p.svc \in Scope({}, c.ports))
    <3>1. ~(~c.local /\ p.dst \in Private \cup Meta) /\ InTheSets(p)
      BY <1>9, <2>1, <2>3
    <3>2. CASE p.dst \in Meta /\ c.meta /\ Listed(c, p)
      BY <3>1, <3>2 DEF MetadataListed
    <3>3. CASE ~(p.dst \in Meta /\ c.meta /\ Listed(c, p))
      <4>1. Listed(c, p) => Promised(c, p)
        BY <1>1, <2>1, <3>1, <3>3
      <4> QED  BY <1>6, <3>1, <4>1
    <3> QED  BY <3>2, <3>3
  <2> QED  BY <2>2, <2>3
<1>10. ASSUME Promised(c, p) PROVE a = "accept" \/ PingToLAN(c, p)
  <2>1. p.svc # "dns" /\ ~(~c.local /\ p.dst \in Private \cup Meta)
    BY <1>1, <1>10
  <2>2. CASE Listed(c, p)
    BY <1>7, <2>1, <2>2
  <2>3. CASE p.dst \in Private /\ Capped(c, p.svc)
    <3>1. c.local
      BY <2>1, <2>3
    <3>2. CASE p.svc \in Scope({}, c.ports)
      BY <2>1, <2>3, <3>1, <3>2
    <3>3. CASE c.ports # {} /\ p.svc = "echo"
      BY <2>3, <3>3 DEF PingToLAN
    <3> QED  BY <1>5, <2>3, <3>2, <3>3
  <2> QED  BY <1>1, <1>10, <2>2, <2>3
<1> QED  BY <1>8, <1>9, <1>10

LEMMA EnforcedHolds == EgressInv => Enforced
<1>1. SUFFICES ASSUME EgressInv, phase = "up", NEW p \in Packets
               PROVE  /\ Passes(p) => \/ Promised(network, p) \/ p \in AskedBy(network) \cup opened
                                       \/ MetadataListed(network, p) \/ ScopeIgnored(network, p)
                      /\ Promised(network, p) => Passes(p) \/ PingToLAN(network, p)
  BY DEF Enforced
<1>2. /\ network \in ConfigType /\ ~Unfit(network)
      /\ network.mode = "allowlist" => Filled(network, net, opened)
      /\ network.mode # "allowlist" => ~net.input
  BY <1>1, UpIsFit
<1>3. network.mode \in {"open", "restricted", "allowlist"}
  BY <1>2 DEF ConfigType
<1>4. CASE p.dst = Bridge
  <2>1. Passes(p) <=> ~(net.input /\ p.svc = "dns")
    BY <1>4 DEF Passes
  <2>2. CASE network.mode = "allowlist"
    <3>1. Promised(network, p) <=> p.svc # "dns"
      <4>1. p.dst \notin Private \cup Meta
        BY <1>4, EgressAssumption DEF Addresses
      <4> QED  BY <1>4, <2>2, <4>1 DEF Promised
    <3>2. net.input
      BY <1>2, <2>2 DEF Filled
    <3> QED  BY <2>1, <3>1, <3>2
  <2>3. CASE network.mode # "allowlist"
    <3>1. Promised(network, p)
      BY <1>3, <1>4, <2>3 DEF Promised
    <3>2. ~net.input
      BY <1>2, <2>3
    <3> QED  BY <2>1, <3>1, <3>2
  <2> QED  BY <2>2, <2>3
<1>5. CASE p.dst # Bridge /\ network.mode = "open"
  <2>1. Passes(p)
    BY <1>1, <1>5, UpOpen
  <2>2. Promised(network, p)
    BY <1>5 DEF Promised
  <2> QED  BY <2>1, <2>2
<1>6. CASE p.dst # Bridge /\ network.mode = "restricted"
  <2>1. PICK a : a = IF Promised(network, p) THEN "accept" ELSE "reject"
    OBVIOUS
  <2>2. a \in {"accept", "reject"} /\ Says(Setup(network), p, a)
    BY <1>2, <1>6, <2>1, MiddleSays
  <2>3. /\ a = "accept" => Passes(p)
        /\ a = "reject" /\ Passes(p) => p \in AskedBy(network) \cup opened
    BY <1>1, <1>6, <2>2, UpSays
  <2> QED  BY <2>1, <2>3
<1>7. CASE p.dst # Bridge /\ network.mode = "allowlist"
  <2>1. PICK c, a : c = network /\ a = IF p.svc = "dns" THEN "reject"
              ELSE IF c.local /\ p.dst \in Private /\ p.svc \in Scope({}, c.ports) THEN "accept"
              ELSE IF ~c.local /\ p.dst \in Private \cup Meta THEN "reject"
              ELSE IF InTheSets(p) THEN "accept" ELSE "reject"
    OBVIOUS
  <2>2. /\ c \in ConfigType /\ ~Unfit(c) /\ c.mode = "allowlist" /\ Filled(c, net, opened)
    BY <1>2, <1>7, <2>1
  <2>3. Says(Setup(c), p, a)
    BY <1>7, <2>1, <2>2, MiddleSays
  <2>4. /\ a \in {"accept", "reject"}
        /\ a = "accept" => \/ Promised(c, p) \/ p \in opened \cup AskedBy(c)
                           \/ MetadataListed(c, p) \/ ScopeIgnored(c, p)
        /\ Promised(c, p) => a = "accept" \/ PingToLAN(c, p)
    BY <1>7, <2>1, <2>2, AllowlistPromises
  <2>5. /\ a = "accept" => Passes(p)
        /\ a = "reject" /\ Passes(p) => p \in AskedBy(network) \cup opened
    BY <1>1, <1>7, <2>1, <2>3, <2>4, UpSays
  <2> QED  BY <2>1, <2>4, <2>5
<1> QED  BY <1>3, <1>4, <1>5, <1>6, <1>7

LEMMA BoundaryHolds == EgressInv => BoundaryHeld
<1>1. SUFFICES ASSUME EgressInv, network.mode = "allowlist", ~network.local,
                      flaws \cap {"blind", "early", "crossed"} = {}, phase = "up",
                      NEW p \in Packets, p.dst \in Private \cup Meta
               PROVE  ~Passes(p)
  BY DEF BoundaryHeld
<1>2. network \in ConfigType /\ ~Unfit(network)
  BY <1>1, UpIsFit
<1>3. p.dst # Bridge /\ p.dst \notin Public
  BY <1>1, EgressAssumption DEF Addresses
<1>4. Says(Setup(network), p, "reject")
  BY <1>1, <1>2, <1>3, MiddleSays
<1>5. Passes(p) => p \in AskedBy(network) \cup opened
  BY <1>1, <1>3, <1>4, UpSays
<1>6. \A q \in opened : q.dst \in Public
  BY <1>1 DEF EgressInv, BoundInv
<1>7. \A q \in AskedBy(network) : q.dst \in Public
  <2>1. SUFFICES ASSUME NEW i \in 1..2 * Len(network.hosts), NEW q \in Opens(Call(network, i))
                 PROVE  q.dst \in Public
    BY DEF AskedBy
  <2> QED  BY <1>1, <1>2, <2>1, CallHolds
<1> QED  BY <1>3, <1>5, <1>6, <1>7

LEMMA ShutHolds == EgressInv => StaysShut
<1>1. SUFFICES ASSUME EgressInv, phase \in {"setup", "failed"}, "crossed" \notin flaws,
                      NEW p \in Packets, p.dst # Bridge, Passes(p)
               PROVE  p \in AskedBy(network) \cup opened
  BY DEF StaysShut
<1>2. net.chain \in Seq(RuleType) /\ DOMAIN net.chain = 1..Len(net.chain) /\ Len(net.chain) \in Nat
  BY <1>1, Fields DEF EgressInv
<1>3. Allowed = AskedBy(network) \cup opened
  BY <1>1 DEF Allowed, Left
<1>4. PICK m \in Nat : Fronted(net.chain, Allowed, m, 1)
  BY <1>1 DEF EgressInv, ChainInv, Shaped
<1>5. m + 1 \in DOMAIN net.chain /\ net.chain[m + 1] = BootBlock
  BY <1>2, <1>4 DEF Fronted
<1>6. Matches(BootBlock, p) /\ BootBlock.act = "reject"
  <2>1. p.dst \in Addresses /\ p.svc \in Services
    BY <1>1 DEF Packets
  <2> QED  BY <2>1, BlockHolds DEF Matches
<1>7. PICK h \in DOMAIN net.chain : /\ h <= m + 1 /\ Matches(net.chain[h], p)
                                    /\ \A j \in DOMAIN net.chain : j < h => ~Matches(net.chain[j], p)
  BY <1>1, <1>2, <1>5, <1>6, FirstHit
<1>8. net.chain[h].act = "accept"
  BY <1>1, <1>2, <1>7, FirstHit
<1>9. h # m + 1
  BY <1>5, <1>6, <1>8
<1>10. h \in 1..m
  BY <1>2, <1>7, <1>9
<1> QED  BY <1>3, <1>4, <1>7, <1>10, FrontHit

\* Whatever the ports, pins, host entries and ranges of the configuration and
\* however many callers add hosts at once, a session that is up lets through
\* what its configuration promises, and besides only what host entries asked
\* for and what local access opens in an allowlist: a listed metadata address,
\* and the whole cap on a local host whose entry names its own ports
\* (nft_filter.go: ApplyRestricted, ApplyAllowlist; egress_ports.go).
THEOREM EgressAlwaysEnforced == ESpec => []Enforced
BY EgressAlwaysInv, EnforcedHolds, PTL

\* No host entry opens the local network or the metadata address of an
\* allowlist container, for any number of callers and configurations
\* (user_hosts.go: effectiveContainerMode, checkHostReachable).
THEOREM BoundaryAlwaysHeld == ESpec => []BoundaryHeld
BY EgressAlwaysInv, BoundaryHolds, PTL

\* A container whose network is not set up, or failed to be, stays shut, for
\* every configuration and every command that fails (manager.go:
\* SetupForContainer).
THEOREM StaysAlwaysShut == ESpec => []StaysShut
BY EgressAlwaysInv, ShutHolds, PTL
==============================================================================
