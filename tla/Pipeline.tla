------------------------------ MODULE Pipeline ------------------------------
(***************************************************************************)
(* The session pipeline of internal/session/pipeline.go, as driven by      *)
(* runPipelineWithSignals in internal/cli/common.go.  The main goroutine   *)
(* runs the phases in order and registers the teardown each may return;    *)
(* its deferred Teardown runs when Run has returned.  A second goroutine   *)
(* waits for SIGINT or SIGTERM and calls Teardown while Run may still be   *)
(* inside a phase.                                                         *)
(*                                                                         *)
(* A phase is its position in the argument list of Run; what it does is    *)
(* abstracted to what it returns: with or without a teardown, with or      *)
(* without an error.  A teardown is identified by its phase.  Every        *)
(* section under Pipeline.mu is one step; a teardown's execution is two    *)
(* (it begins and it ends), so that the goroutines overlap inside it.      *)
(***************************************************************************)
EXTENDS Naturals, Sequences

CONSTANT N  \* the number of phases given to Run

ASSUME PhaseCount == N \in Nat

Phases == 1..N

\* The two goroutines that may be inside Teardown.
Goroutines == {"main", "signal"}

VARIABLES
  pc,         \* where each goroutine is
  phase,      \* Run's loop variable: the phase to start, or being run
  failed,     \* the current phase returned an error
  cancelled,  \* ctx.Err() # nil
  interrupt,  \* "none", "pending" in sigChan, or "taken" from it
  teardowns,  \* Pipeline.teardowns
  torn,       \* Pipeline.torn
  once,       \* Pipeline.teardownOnce: "new", "busy" or "done"
  unwind,     \* the index i of the loop in Teardown
  acquired,   \* history: phases that returned a teardown
  late,       \* history: phases whose teardown came after the snapshot
  calls,      \* history: how often each teardown was invoked
  finished    \* history: phases whose teardown has returned

vars == <<pc, phase, failed, cancelled, interrupt, teardowns, torn, once,
          unwind, acquired, late, calls, finished>>

\* "teardown" is the call of Teardown, "unwind" its loop, "undo" a teardown
\* running in that loop, "register" the point after phase.Run returned a
\* teardown and "late" a teardown run by Run itself.
MainStates == {"loop", "phase", "register", "late", "teardown", "snapshot",
               "unwind", "undo", "exit"}
SignalStates == {"select", "teardown", "snapshot", "unwind", "undo", "exit"}

Init ==
  /\ pc = [g \in Goroutines |-> IF g = "main" THEN "loop" ELSE "select"]
  /\ phase = 1
  /\ failed = FALSE
  /\ cancelled = FALSE
  /\ interrupt = "none"
  /\ teardowns = <<>>
  /\ torn = FALSE
  /\ once = "new"
  /\ unwind = 0
  /\ acquired = {}
  /\ late = {}
  /\ calls = [p \in Phases |-> 0]
  /\ finished = {}

Goto(g, label) == pc' = [pc EXCEPT ![g] = label]

\* The process is alive until main has returned from its deferred Teardown.
Alive == pc["main"] # "exit"

-----------------------------------------------------------------------------
(* Run, on the main goroutine *)

\* The loop's head: the next phase starts unless the context is cancelled.
StartPhase ==
  /\ pc["main"] = "loop"
  /\ phase <= N
  /\ ~cancelled
  /\ Goto("main", "phase")
  /\ UNCHANGED <<phase, failed, cancelled, interrupt, teardowns, torn, once,
                 unwind, acquired, late, calls, finished>>

\* Run returns: no phase is left or the context is cancelled.  With it
\* runPipelineWithSignals closes done and stops the signal channel, and the
\* deferred pipeline.Teardown is called.
ReturnFromRun ==
  /\ pc["main"] = "loop"
  /\ phase > N \/ cancelled
  /\ Goto("main", "teardown")
  /\ UNCHANGED <<phase, failed, cancelled, interrupt, teardowns, torn, once,
                 unwind, acquired, late, calls, finished>>

\* phase.Run returns without a teardown; an error ends Run.
PhaseReturnsNothing(err) ==
  /\ pc["main"] = "phase"
  /\ IF err
       THEN Goto("main", "teardown") /\ phase' = phase
       ELSE Goto("main", "loop") /\ phase' = phase + 1
  /\ failed' = err
  /\ UNCHANGED <<cancelled, interrupt, teardowns, torn, once, unwind,
                 acquired, late, calls, finished>>

\* phase.Run returns a teardown, with or without an error.
PhaseReturnsTeardown(err) ==
  /\ pc["main"] = "phase"
  /\ failed' = err
  /\ acquired' = acquired \cup {phase}
  /\ Goto("main", "register")
  /\ UNCHANGED <<phase, cancelled, interrupt, teardowns, torn, once, unwind,
                 late, calls, finished>>

\* Where Run goes once the teardown of the current phase is dealt with.
AfterPhase ==
  IF failed
    THEN Goto("main", "teardown") /\ phase' = phase
    ELSE Goto("main", "loop") /\ phase' = phase + 1

\* Under mu, before Teardown's snapshot: the teardown joins the stack.
Register ==
  /\ pc["main"] = "register"
  /\ ~torn
  /\ teardowns' = Append(teardowns, phase)
  /\ AfterPhase
  /\ UNCHANGED <<failed, cancelled, interrupt, torn, once, unwind, acquired,
                 late, calls, finished>>

\* Mutant: Run ignores a teardown that comes after the snapshot.
DropLateTeardown ==
  /\ pc["main"] = "register"
  /\ torn
  /\ late' = late \cup {phase}
  /\ AfterPhase
  /\ UNCHANGED <<failed, cancelled, interrupt, teardowns, torn, once, unwind,
                 acquired, calls, finished>>

\* Under mu, after the snapshot: Run invokes the teardown itself.
RunLateTeardown ==
  /\ pc["main"] = "register"
  /\ torn
  /\ late' = late \cup {phase}
  /\ calls' = [calls EXCEPT ![phase] = @ + 1]
  /\ Goto("main", "late")
  /\ UNCHANGED <<phase, failed, cancelled, interrupt, teardowns, torn, once,
                 unwind, acquired, finished>>

LateTeardownReturns ==
  /\ pc["main"] = "late"
  /\ finished' = finished \cup {phase}
  /\ AfterPhase
  /\ UNCHANGED <<failed, cancelled, interrupt, teardowns, torn, once, unwind,
                 acquired, late, calls>>

-----------------------------------------------------------------------------
(* Teardown, on either goroutine *)

\* teardownOnce.Do: the first caller executes the body.
EnterOnce(g) ==
  /\ pc[g] = "teardown"
  /\ once = "new"
  /\ once' = "busy"
  /\ Goto(g, "snapshot")
  /\ UNCHANGED <<phase, failed, cancelled, interrupt, teardowns, torn, unwind,
                 acquired, late, calls, finished>>

\* sync.Once makes every other caller wait until the first has returned.
PassOnce(g) ==
  /\ pc[g] = "teardown"
  /\ once = "done"
  /\ Goto(g, "exit")
  /\ UNCHANGED <<phase, failed, cancelled, interrupt, teardowns, torn, once,
                 unwind, acquired, late, calls, finished>>

\* Under mu: mark the pipeline torn and copy the stack.  Nothing is appended
\* once torn is set, so the copy is teardowns itself.
TakeSnapshot(g) ==
  /\ pc[g] = "snapshot"
  /\ torn' = TRUE
  /\ unwind' = Len(teardowns)
  /\ Goto(g, "unwind")
  /\ UNCHANGED <<phase, failed, cancelled, interrupt, teardowns, once,
                 acquired, late, calls, finished>>

InvokeTeardown(g) ==
  /\ pc[g] = "unwind"
  /\ unwind > 0
  /\ calls' = [calls EXCEPT ![teardowns[unwind]] = @ + 1]
  /\ Goto(g, "undo")
  /\ UNCHANGED <<phase, failed, cancelled, interrupt, teardowns, torn, once,
                 unwind, acquired, late, finished>>

TeardownReturns(g) ==
  /\ pc[g] = "undo"
  /\ finished' = finished \cup {teardowns[unwind]}
  /\ unwind' = unwind - 1
  /\ Goto(g, "unwind")
  /\ UNCHANGED <<phase, failed, cancelled, interrupt, teardowns, torn, once,
                 acquired, late, calls>>

\* Mutant: the once is never marked done (a teardown that panics in a
\* recovered goroutine would do this to a hand-written once).
LeaveWithoutDone(g) ==
  /\ pc[g] = "unwind"
  /\ unwind = 0
  /\ Goto(g, "exit")
  /\ UNCHANGED <<phase, failed, cancelled, interrupt, teardowns, torn, once,
                 unwind, acquired, late, calls, finished>>

LeaveOnce(g) ==
  /\ pc[g] = "unwind"
  /\ unwind = 0
  /\ once' = "done"
  /\ Goto(g, "exit")
  /\ UNCHANGED <<phase, failed, cancelled, interrupt, teardowns, torn, unwind,
                 acquired, late, calls, finished>>

TeardownStep(g) ==
  \/ EnterOnce(g) \/ PassOnce(g) \/ TakeSnapshot(g)
  \/ InvokeTeardown(g) \/ TeardownReturns(g) \/ LeaveOnce(g)

-----------------------------------------------------------------------------
(* Signals *)

\* done is closed and sigChan stopped when Run has returned.
RunReturned == pc["main"] \in {"teardown", "snapshot", "unwind", "undo", "exit"}

\* The first SIGINT or SIGTERM; it is put into sigChan while that is notified.
SignalArrives ==
  /\ Alive
  /\ interrupt = "none"
  /\ interrupt' = IF RunReturned THEN "taken" ELSE "pending"
  /\ UNCHANGED <<pc, phase, failed, cancelled, teardowns, torn, once, unwind,
                 acquired, late, calls, finished>>

\* signal.NotifyContext's own goroutine cancels the context, in any order
\* with the delivery to sigChan.
CancelContext ==
  /\ Alive
  /\ interrupt # "none"
  /\ ~cancelled
  /\ cancelled' = TRUE
  /\ UNCHANGED <<pc, phase, failed, interrupt, teardowns, torn, once, unwind,
                 acquired, late, calls, finished>>

\* Mutant: the handler leaves the cleanup to the cancelled context.
OnlyCancel ==
  /\ Alive
  /\ pc["signal"] = "select"
  /\ interrupt = "pending"
  /\ interrupt' = "taken"
  /\ Goto("signal", "exit")
  /\ UNCHANGED <<phase, failed, cancelled, teardowns, torn, once, unwind,
                 acquired, late, calls, finished>>

\* The select of the signal goroutine: the signal, or Run's return.
TakeSignal ==
  /\ Alive
  /\ pc["signal"] = "select"
  /\ interrupt = "pending"
  /\ interrupt' = "taken"
  /\ Goto("signal", "teardown")
  /\ UNCHANGED <<phase, failed, cancelled, teardowns, torn, once, unwind,
                 acquired, late, calls, finished>>

SeeRunReturned ==
  /\ Alive
  /\ pc["signal"] = "select"
  /\ RunReturned
  /\ Goto("signal", "exit")
  /\ UNCHANGED <<phase, failed, cancelled, interrupt, teardowns, torn, once,
                 unwind, acquired, late, calls, finished>>

-----------------------------------------------------------------------------
RunStep ==
  \/ StartPhase \/ ReturnFromRun
  \/ Register \/ RunLateTeardown \/ LateTeardownReturns

PhaseReturns ==
  \E err \in BOOLEAN : PhaseReturnsNothing(err) \/ PhaseReturnsTeardown(err)

SignalStep ==
  TakeSignal \/ SeeRunReturned \/ (Alive /\ TeardownStep("signal"))

Next ==
  \/ RunStep \/ PhaseReturns \/ TeardownStep("main")
  \/ SignalArrives \/ CancelContext \/ SignalStep

Spec == Init /\ [][Next]_vars

\* Both goroutines are scheduled and the teardowns terminate (their waits are
\* bounded by timeouts); a phase need not return: run-tool lasts as long as
\* the user's session, and a blocking incus exec ignores the cancellation.
FairSpec ==
  /\ Spec
  /\ WF_vars(RunStep)
  /\ WF_vars(TeardownStep("main"))
  /\ WF_vars(SignalStep)
  /\ WF_vars(CancelContext)

\* Every phase returns in the end.
PhasesReturn == WF_vars(PhaseReturns)

-----------------------------------------------------------------------------
(* Properties *)

\* Every variable keeps its type.
TypeOK ==
  /\ pc \in [Goroutines -> MainStates \cup SignalStates]
  /\ pc["main"] \in MainStates
  /\ pc["signal"] \in SignalStates
  /\ phase \in 1..(N + 1)
  /\ failed \in BOOLEAN
  /\ cancelled \in BOOLEAN
  /\ interrupt \in {"none", "pending", "taken"}
  /\ teardowns \in Seq(Phases)
  /\ torn \in BOOLEAN
  /\ once \in {"new", "busy", "done"}
  /\ unwind \in 0..Len(teardowns)
  /\ acquired \in SUBSET Phases
  /\ late \in SUBSET Phases
  /\ calls \in [Phases -> Nat]
  /\ finished \in SUBSET Phases

\* No teardown is invoked twice, although two goroutines may call Teardown
\* while Run hands over a late one ("only the first call executes").
AtMostOnce == \A p \in Phases : calls[p] <= 1

\* When the process leaves, every teardown a phase returned has run to its
\* end: neither the snapshot nor the once loses one, and main does not exit
\* while the signal goroutine is still unwinding.
NothingLost == ~Alive => acquired = finished

\* LIFO: a registered teardown is invoked only when the teardowns registered
\* after it have returned, whichever goroutine unwinds the stack.
ReverseOrder ==
  \A i, j \in 1..Len(teardowns) :
    i < j /\ calls[teardowns[i]] > 0 => teardowns[j] \in finished

\* An interrupt runs every registered teardown to its end, even when the
\* phase in progress never returns.
InterruptUnwinds ==
  \A p \in Phases :
    (interrupt # "none" /\ \E i \in 1..Len(teardowns) : teardowns[i] = p)
      ~> p \in finished

\* If the phases return, the process ends, interrupted or not: no goroutine
\* waits forever on the once.
Terminates == PhasesReturn => <>~Alive

=============================================================================
