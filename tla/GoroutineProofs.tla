--------------------------- MODULE GoroutineProofs ---------------------------
(***************************************************************************)
(* What the goroutines of one process rely on.  The pipeline of a command  *)
(* (Pipeline): every teardown a phase returns is run exactly once and in   *)
(* reverse order, whichever goroutine tears it down and whenever the       *)
(* signal arrives, for any number of phases.  The watchers of a session    *)
(* (Collecting, LogRules, LogTail): that nothing allowed is blamed,        *)
(* nothing alarming is missed and every line of a log is told once, for    *)
(* any number of names, daemons, addresses, lines and failures.            *)
(***************************************************************************)
EXTENDS Pipeline, Collecting, LogRules, LogTail, PickingProofs

-----------------------------------------------------------------------------
(* The phases and their teardowns: Pipeline *)

\* Inside the body of Teardown.
Unwinding(g) == pc[g] \in {"snapshot", "unwind", "undo"}

\* Between the start of the loop over the phases and Run's return.
Running == pc["main"] \in {"loop", "phase", "register", "late"}

\* The goroutine that is executing a teardown of the snapshot.
Undoing == \E g \in Goroutines : pc[g] = "undo"

\* The once lets one goroutine unwind, and torn follows the snapshot.
UnwindInv ==
  /\ once = "busy" <=> \E g \in Goroutines : Unwinding(g)
  /\ Unwinding("main") => ~Unwinding("signal")
  /\ once = "done" => torn /\ unwind = 0
  /\ once = "new" => ~torn
  /\ torn => ~ \E g \in Goroutines : pc[g] = "snapshot"
  /\ (\E g \in Goroutines : pc[g] \in {"unwind", "undo"}) => torn
  /\ Undoing => unwind > 0
  /\ pc["main"] = "exit" => once = "done"

\* The stack holds phases in the order they ran, all of them past.
StackInv ==
  /\ \A i, j \in 1..Len(teardowns) : i < j => teardowns[i] < teardowns[j]
  /\ \A i \in 1..Len(teardowns) : teardowns[i] <= phase
  /\ \A i \in 1..Len(teardowns) : Running => teardowns[i] < phase
  /\ \A p \in late : p <= phase
  /\ pc["main"] \in {"loop", "phase", "register"} => \A p \in late : p < phase
  /\ \A i \in 1..Len(teardowns) : teardowns[i] \notin late
  /\ late # {} => torn
  /\ pc["main"] \in {"phase", "register", "late"} => phase <= N
  /\ pc["main"] = "late" => phase \in late

\* The teardown at position i of the stack has been invoked.
Invoked(i) == torn /\ (i > unwind \/ (i = unwind /\ Undoing))

\* What has been invoked: the late teardowns and the stack above unwind.
CallsInv ==
  /\ \A p \in late : calls[p] = 1
  /\ \A i \in 1..Len(teardowns) :
       /\ Invoked(i) => calls[teardowns[i]] = 1
       /\ ~Invoked(i) => calls[teardowns[i]] = 0
  /\ \A p \in Phases :
       p \notin late /\ (\A i \in 1..Len(teardowns) : teardowns[i] # p)
         => calls[p] = 0

\* Every teardown is on the stack, late, or about to be registered.
AcquiredInv ==
  \A p \in acquired :
    \/ p \in late
    \/ \E i \in 1..Len(teardowns) : teardowns[i] = p
    \/ pc["main"] = "register" /\ p = phase

\* What has returned: late teardowns but the one running, and the stack
\* above unwind; and nothing was run that no phase returned.
FinishedInv ==
  /\ \A p \in late : p \in finished \/ (pc["main"] = "late" /\ p = phase)
  /\ \A i \in 1..Len(teardowns) : torn /\ i > unwind => teardowns[i] \in finished
  /\ finished \subseteq acquired
  /\ late \subseteq acquired
  /\ \A i \in 1..Len(teardowns) : teardowns[i] \in acquired
  /\ pc["main"] = "register" => phase \in acquired

IInv ==
  /\ TypeOK /\ UnwindInv /\ StackInv /\ CallsInv /\ AcquiredInv /\ FinishedInv

-----------------------------------------------------------------------------
(* Pipeline: Run *)

\* The invariant is kept when the next phase starts.
LEMMA KeepsStartPhase ==
  ASSUME IInv, StartPhase
  PROVE  IInv'
<1>1. TypeOK'
  BY PhaseCount DEF IInv, TypeOK, StartPhase, Goto, Goroutines, MainStates,
     SignalStates, Phases
<1>2. UnwindInv'
  BY PhaseCount DEF IInv, TypeOK, UnwindInv, StartPhase, Goto, Unwinding,
     Undoing, Goroutines
<1>3. StackInv'
  BY PhaseCount DEF IInv, TypeOK, StackInv, StartPhase, Goto, Running,
     Phases, Goroutines
<1>4. CallsInv'
  BY PhaseCount DEF IInv, TypeOK, CallsInv, StartPhase, Goto, Invoked,
     Undoing, Goroutines, Phases
<1>5. AcquiredInv'
  BY PhaseCount DEF IInv, TypeOK, AcquiredInv, StartPhase, Goto, Goroutines,
     Phases
<1>6. FinishedInv'
  BY PhaseCount DEF IInv, TypeOK, FinishedInv, StartPhase, Goto, Goroutines,
     Phases
<1> QED BY <1>1, <1>2, <1>3, <1>4, <1>5, <1>6 DEF IInv

\* The invariant is kept when Run returns.
LEMMA KeepsReturnFromRun ==
  ASSUME IInv, ReturnFromRun
  PROVE  IInv'
<1>1. TypeOK'
  BY PhaseCount DEF IInv, TypeOK, ReturnFromRun, Goto, Goroutines,
     MainStates, SignalStates, Phases
<1>2. UnwindInv'
  BY PhaseCount DEF IInv, TypeOK, UnwindInv, ReturnFromRun, Goto, Unwinding,
     Undoing, Goroutines
<1>3. StackInv'
  BY PhaseCount DEF IInv, TypeOK, StackInv, ReturnFromRun, Goto, Running,
     Phases, Goroutines
<1>4. CallsInv'
  BY PhaseCount DEF IInv, TypeOK, CallsInv, ReturnFromRun, Goto, Invoked,
     Undoing, Goroutines, Phases
<1>5. AcquiredInv'
  BY PhaseCount DEF IInv, TypeOK, AcquiredInv, ReturnFromRun, Goto,
     Goroutines, Phases
<1>6. FinishedInv'
  BY PhaseCount DEF IInv, TypeOK, FinishedInv, ReturnFromRun, Goto,
     Goroutines, Phases
<1> QED BY <1>1, <1>2, <1>3, <1>4, <1>5, <1>6 DEF IInv

\* The invariant is kept when a phase returns no teardown.
LEMMA KeepsPhaseReturnsNothing ==
  ASSUME IInv, NEW err \in BOOLEAN, PhaseReturnsNothing(err)
  PROVE  IInv'
<1>1. TypeOK'
  BY PhaseCount DEF IInv, TypeOK, StackInv, PhaseReturnsNothing, Goto,
     Goroutines, MainStates, SignalStates, Phases
<1>2. UnwindInv'
  BY PhaseCount DEF IInv, TypeOK, UnwindInv, PhaseReturnsNothing, Goto,
     Unwinding, Undoing, Goroutines
<1>3. StackInv'
  <2>1. /\ pc["main"] = "phase" /\ phase \in 1..N
        /\ teardowns' = teardowns /\ late' = late /\ torn' = torn
    BY PhaseCount DEF IInv, TypeOK, StackInv, PhaseReturnsNothing
  <2>2. \A i \in 1..Len(teardowns) : teardowns[i] \in Phases /\ teardowns[i] < phase
    BY <2>1 DEF IInv, TypeOK, StackInv, Running
  <2>3. \A p \in late : p \in Phases /\ p < phase
    BY <2>1 DEF IInv, TypeOK, StackInv
  <2>4. CASE err
    <3>1. pc'["main"] = "teardown" /\ phase' = phase
      BY <2>4 DEF IInv, TypeOK, PhaseReturnsNothing, Goto, Goroutines
    <3> QED BY <2>1, <2>2, <2>3, <3>1 DEF IInv, StackInv, Running, Phases
  <2>5. CASE ~err
    <3>1. pc'["main"] = "loop" /\ phase' = phase + 1
      BY <2>5 DEF IInv, TypeOK, PhaseReturnsNothing, Goto, Goroutines
    <3> QED BY <2>1, <2>2, <2>3, <3>1 DEF IInv, StackInv, Running, Phases
  <2> QED BY <2>4, <2>5
<1>4. CallsInv'
  BY PhaseCount DEF IInv, TypeOK, CallsInv, PhaseReturnsNothing, Goto,
     Invoked, Undoing, Goroutines, Phases
<1>5. AcquiredInv'
  BY PhaseCount DEF IInv, TypeOK, AcquiredInv, PhaseReturnsNothing, Goto,
     Goroutines, Phases
<1>6. FinishedInv'
  BY PhaseCount DEF IInv, TypeOK, FinishedInv, PhaseReturnsNothing, Goto,
     Goroutines, Phases
<1> QED BY <1>1, <1>2, <1>3, <1>4, <1>5, <1>6 DEF IInv

\* The invariant is kept when a phase returns a teardown.
LEMMA KeepsPhaseReturnsTeardown ==
  ASSUME IInv, NEW err \in BOOLEAN, PhaseReturnsTeardown(err)
  PROVE  IInv'
<1>1. TypeOK'
  BY PhaseCount DEF IInv, TypeOK, StackInv, PhaseReturnsTeardown, Goto,
     Goroutines, MainStates, SignalStates, Phases
<1>2. UnwindInv'
  BY PhaseCount DEF IInv, TypeOK, UnwindInv, PhaseReturnsTeardown, Goto,
     Unwinding, Undoing, Goroutines
<1>3. StackInv'
  BY PhaseCount DEF IInv, TypeOK, StackInv, PhaseReturnsTeardown, Goto,
     Running, Phases, Goroutines
<1>4. CallsInv'
  BY PhaseCount DEF IInv, TypeOK, CallsInv, PhaseReturnsTeardown, Goto,
     Invoked, Undoing, Goroutines, Phases
<1>5. AcquiredInv'
  BY PhaseCount DEF IInv, TypeOK, AcquiredInv, PhaseReturnsTeardown, Goto,
     Goroutines, Phases
<1>6. FinishedInv'
  BY PhaseCount DEF IInv, TypeOK, FinishedInv, PhaseReturnsTeardown, Goto,
     Goroutines, Phases
<1> QED BY <1>1, <1>2, <1>3, <1>4, <1>5, <1>6 DEF IInv

\* The invariant is kept when a teardown is pushed on the stack.
LEMMA KeepsRegister ==
  ASSUME IInv, Register
  PROVE  IInv'
<1>1. TypeOK'
  <2>1. phase \in Phases
    BY PhaseCount DEF IInv, TypeOK, StackInv, Register, Phases
  <2>2. teardowns' \in Seq(Phases) /\ Len(teardowns') = Len(teardowns) + 1
    BY <2>1 DEF IInv, TypeOK, Register
  <2>3. unwind' \in 0..Len(teardowns')
    BY <2>2 DEF IInv, TypeOK, Register
  <2>4. phase' \in 1..(N + 1)
    BY <2>1, PhaseCount DEF Register, AfterPhase, Phases
  <2>5. /\ pc' \in [Goroutines -> MainStates \cup SignalStates]
        /\ pc'["main"] \in MainStates /\ pc'["signal"] \in SignalStates
    BY DEF IInv, TypeOK, Register, AfterPhase, Goto, Goroutines, MainStates
  <2> QED BY <2>2, <2>3, <2>4, <2>5 DEF IInv, TypeOK, Register
<1>2. UnwindInv'
  BY PhaseCount DEF IInv, TypeOK, UnwindInv, Register, AfterPhase, Goto,
     Unwinding, Undoing, Goroutines
<1>3. StackInv'
  <2> DEFINE n == Len(teardowns)
  <2>1. /\ pc["main"] = "register" /\ ~torn /\ phase \in Phases
        /\ late' = late /\ torn' = torn /\ calls' = calls /\ unwind' = unwind
        /\ acquired' = acquired
    BY PhaseCount DEF IInv, TypeOK, StackInv, Register, Phases
  <2>2. /\ n \in Nat /\ Len(teardowns') = n + 1 /\ teardowns'[n + 1] = phase
        /\ \A i \in 1..n : teardowns'[i] = teardowns[i] /\ teardowns[i] \in Phases
    BY <2>1 DEF IInv, TypeOK, Register
  <2>3. late = {}
    BY <2>1 DEF IInv, StackInv
  <2>4. \A i \in 1..n : teardowns[i] < phase
    BY <2>1 DEF IInv, StackInv, Running
  <2>5. \A i \in 1..(n + 1) : i = n + 1 \/ i \in 1..n
    BY <2>2
  <2>6. \A i, j \in 1..Len(teardowns') : i < j => teardowns'[i] < teardowns'[j]
    <3> SUFFICES ASSUME NEW i \in 1..(n + 1), NEW j \in 1..(n + 1), i < j
                 PROVE  teardowns'[i] < teardowns'[j]
      BY <2>2
    <3>1. i \in 1..n
      BY <2>2
    <3>2. CASE j \in 1..n
      BY <2>2, <3>1, <3>2 DEF IInv, StackInv
    <3>3. CASE j = n + 1
      BY <2>2, <2>4, <3>1, <3>3
    <3> QED BY <2>5, <3>2, <3>3
  <2>7. \A i \in 1..Len(teardowns') : teardowns'[i] \in Phases /\ teardowns'[i] <= phase
    BY <2>1, <2>2, <2>4, <2>5 DEF Phases
  <2>8. CASE failed
    <3>1. pc'["main"] = "teardown" /\ phase' = phase
      BY <2>8 DEF IInv, TypeOK, Register, AfterPhase, Goto, Goroutines
    <3> QED BY <2>1, <2>3, <2>6, <2>7, <3>1 DEF StackInv, Running
  <2>9. CASE ~failed
    <3>1. pc'["main"] = "loop" /\ phase' = phase + 1
      BY <2>9 DEF IInv, TypeOK, Register, AfterPhase, Goto, Goroutines
    <3> QED BY <2>1, <2>3, <2>6, <2>7, <3>1 DEF StackInv, Running, Phases
  <2> QED BY <2>8, <2>9
<1>4. CallsInv'
  <2> DEFINE n == Len(teardowns)
  <2>1. /\ pc["main"] = "register" /\ ~torn /\ phase \in Phases
        /\ late' = late /\ torn' = torn /\ calls' = calls /\ unwind' = unwind
        /\ acquired' = acquired
    BY PhaseCount DEF IInv, TypeOK, StackInv, Register, Phases
  <2>2. /\ n \in Nat /\ Len(teardowns') = n + 1 /\ teardowns'[n + 1] = phase
        /\ \A i \in 1..n : teardowns'[i] = teardowns[i] /\ teardowns[i] \in Phases
    BY <2>1 DEF IInv, TypeOK, Register
  <2>3. calls[phase] = 0
    <3>1. phase \notin late /\ \A i \in 1..n : teardowns[i] # phase
      BY <2>1 DEF IInv, TypeOK, StackInv, Running, Phases
    <3> QED BY <2>1, <3>1 DEF IInv, CallsInv
  <2>4. \A i \in 1..Len(teardowns') : ~Invoked(i)'
    BY <2>1 DEF Invoked
  <2>5. \A i \in 1..n : calls[teardowns[i]] = 0
    BY <2>1 DEF IInv, CallsInv, Invoked
  <2>6. \A i \in 1..Len(teardowns') : calls'[teardowns'[i]] = 0
    <3> SUFFICES ASSUME NEW i \in 1..(n + 1) PROVE calls[teardowns'[i]] = 0
      BY <2>1, <2>2
    <3>1. CASE i = n + 1
      BY <2>2, <2>3, <3>1
    <3>2. CASE i \in 1..n
      BY <2>2, <2>5, <3>2
    <3> QED BY <2>2, <3>1, <3>2
  <2>7. \A q \in late' : calls'[q] = 1
    BY <2>1 DEF IInv, CallsInv
  <2>8. \A q \in Phases : q \notin late' /\ (\A i \in 1..Len(teardowns') : teardowns'[i] # q)
          => calls'[q] = 0
    <3> SUFFICES ASSUME NEW q \in Phases, q \notin late,
                        \A i \in 1..Len(teardowns') : teardowns'[i] # q
                 PROVE  calls[q] = 0
      BY <2>1
    <3>1. \A i \in 1..n : teardowns[i] # q
      BY <2>2
    <3> QED BY <3>1 DEF IInv, CallsInv
  <2> QED BY <2>4, <2>6, <2>7, <2>8 DEF CallsInv
<1>5. AcquiredInv'
  <2> DEFINE n == Len(teardowns)
  <2>1. /\ pc["main"] = "register" /\ ~torn /\ phase \in Phases
        /\ late' = late /\ torn' = torn /\ calls' = calls /\ unwind' = unwind
        /\ acquired' = acquired
    BY PhaseCount DEF IInv, TypeOK, StackInv, Register, Phases
  <2>2. /\ n \in Nat /\ Len(teardowns') = n + 1 /\ teardowns'[n + 1] = phase
        /\ \A i \in 1..n : teardowns'[i] = teardowns[i] /\ teardowns[i] \in Phases
    BY <2>1 DEF IInv, TypeOK, Register
  <2>3. ASSUME NEW p \in acquired
        PROVE  p \in late \/ \E i \in 1..Len(teardowns') : teardowns'[i] = p
    <3>1. CASE \E i \in 1..n : teardowns[i] = p
      <4> PICK i \in 1..n : teardowns[i] = p
        BY <3>1
      <4>1. i \in 1..Len(teardowns') /\ teardowns'[i] = p
        BY <2>2
      <4> QED BY <4>1
    <3>2. CASE p = phase
      <4>1. n + 1 \in 1..Len(teardowns') /\ teardowns'[n + 1] = p
        BY <2>2, <3>2
      <4> QED BY <4>1
    <3> QED BY <3>1, <3>2 DEF IInv, AcquiredInv
  <2> QED BY <2>1, <2>3 DEF AcquiredInv
<1>6. FinishedInv'
  BY PhaseCount DEF IInv, TypeOK, FinishedInv, Register, AfterPhase, Goto,
     Goroutines, Phases
<1> QED BY <1>1, <1>2, <1>3, <1>4, <1>5, <1>6 DEF IInv

\* The invariant is kept when Run invokes a teardown that came after the snapshot.
LEMMA KeepsRunLateTeardown ==
  ASSUME IInv, RunLateTeardown
  PROVE  IInv'
<1>1. TypeOK'
  BY PhaseCount DEF IInv, TypeOK, StackInv, RunLateTeardown, Goto,
     Goroutines, MainStates, SignalStates, Phases
<1>2. UnwindInv'
  BY PhaseCount DEF IInv, TypeOK, UnwindInv, RunLateTeardown, Goto, Unwinding,
     Undoing, Goroutines
<1>3. StackInv'
  BY PhaseCount DEF IInv, TypeOK, StackInv, RunLateTeardown, Goto, Running,
     Phases, Goroutines
<1>4. CallsInv'
  <2>1. /\ phase \in Phases /\ phase \notin late
        /\ \A i \in 1..Len(teardowns) : teardowns[i] # phase
    BY PhaseCount DEF IInv, TypeOK, StackInv, Running, RunLateTeardown, Phases
  <2>2. calls[phase] = 0
    BY <2>1 DEF IInv, CallsInv
  <2>3. /\ calls' = [calls EXCEPT ![phase] = @ + 1] /\ late' = late \cup {phase}
        /\ teardowns' = teardowns /\ torn' = torn /\ unwind' = unwind
    BY DEF RunLateTeardown
  <2>4. calls'[phase] = 1 /\ \A q \in Phases \ {phase} : calls'[q] = calls[q]
    BY <2>1, <2>2, <2>3 DEF IInv, TypeOK
  <2>5. Undoing' <=> Undoing
    BY DEF IInv, TypeOK, Undoing, RunLateTeardown, Goto, Goroutines
  <2>6. \A i \in 1..Len(teardowns) : Invoked(i)' <=> Invoked(i)
    BY <2>3, <2>5 DEF Invoked
  <2>7. \A q \in late' : calls'[q] = 1
    BY <2>3, <2>4 DEF IInv, TypeOK, CallsInv
  <2>8. \A i \in 1..Len(teardowns) : teardowns[i] \in Phases \ {phase}
    BY <2>1 DEF IInv, TypeOK
  <2>9. \A i \in 1..Len(teardowns) :
          /\ Invoked(i)' => calls'[teardowns[i]] = 1
          /\ ~Invoked(i)' => calls'[teardowns[i]] = 0
    BY <2>4, <2>6, <2>8 DEF IInv, CallsInv
  <2>10. \A q \in Phases : q \notin late' /\ (\A i \in 1..Len(teardowns) : teardowns[i] # q)
           => calls'[q] = 0
    BY <2>3, <2>4 DEF IInv, CallsInv
  <2> QED BY <2>3, <2>7, <2>9, <2>10 DEF CallsInv
<1>5. AcquiredInv'
  BY PhaseCount DEF IInv, TypeOK, AcquiredInv, RunLateTeardown, Goto,
     Goroutines, Phases
<1>6. FinishedInv'
  BY PhaseCount DEF IInv, TypeOK, FinishedInv, RunLateTeardown, Goto,
     Goroutines, Phases
<1> QED BY <1>1, <1>2, <1>3, <1>4, <1>5, <1>6 DEF IInv

\* The invariant is kept when the late teardown ends.
LEMMA KeepsLateTeardownReturns ==
  ASSUME IInv, LateTeardownReturns
  PROVE  IInv'
<1>1. TypeOK'
  BY PhaseCount DEF IInv, TypeOK, StackInv, LateTeardownReturns, AfterPhase,
     Goto, Goroutines, MainStates, SignalStates, Phases
<1>2. UnwindInv'
  BY PhaseCount DEF IInv, TypeOK, UnwindInv, LateTeardownReturns, AfterPhase,
     Goto, Unwinding, Undoing, Goroutines
<1>3. StackInv'
  <2>1. /\ pc["main"] = "late" /\ phase \in 1..N
        /\ teardowns' = teardowns /\ late' = late /\ torn' = torn
    BY PhaseCount DEF IInv, TypeOK, StackInv, LateTeardownReturns
  <2>2. \A i \in 1..Len(teardowns) : teardowns[i] \in Phases /\ teardowns[i] < phase
    BY <2>1 DEF IInv, TypeOK, StackInv, Running
  <2>3. \A p \in late : p \in Phases /\ p <= phase
    BY DEF IInv, TypeOK, StackInv
  <2>4. CASE failed
    <3>1. pc'["main"] = "teardown" /\ phase' = phase
      BY <2>4 DEF IInv, TypeOK, LateTeardownReturns, AfterPhase, Goto, Goroutines
    <3> QED BY <2>1, <2>2, <2>3, <3>1 DEF IInv, StackInv, Running, Phases
  <2>5. CASE ~failed
    <3>1. pc'["main"] = "loop" /\ phase' = phase + 1
      BY <2>5 DEF IInv, TypeOK, LateTeardownReturns, AfterPhase, Goto, Goroutines
    <3> QED BY <2>1, <2>2, <2>3, <3>1 DEF IInv, StackInv, Running, Phases
  <2> QED BY <2>4, <2>5
<1>4. CallsInv'
  BY PhaseCount DEF IInv, TypeOK, CallsInv, LateTeardownReturns, AfterPhase,
     Goto, Invoked, Undoing, Goroutines, Phases
<1>5. AcquiredInv'
  BY PhaseCount DEF IInv, TypeOK, AcquiredInv, LateTeardownReturns,
     AfterPhase, Goto, Goroutines, Phases
<1>6. FinishedInv'
  BY PhaseCount DEF IInv, TypeOK, FinishedInv, StackInv,
     LateTeardownReturns, AfterPhase, Goto, Goroutines, Phases
<1> QED BY <1>1, <1>2, <1>3, <1>4, <1>5, <1>6 DEF IInv

-----------------------------------------------------------------------------
(* Pipeline: Teardown *)

\* The invariant is kept when a goroutine enters the body of Teardown.
LEMMA KeepsEnterOnce ==
  ASSUME IInv, NEW g \in Goroutines, EnterOnce(g), Alive
  PROVE  IInv'
<1>1. TypeOK'
  BY PhaseCount DEF IInv, TypeOK, EnterOnce, Goto, Goroutines, MainStates,
     SignalStates, Phases, Alive
<1>2. UnwindInv'
  BY PhaseCount DEF IInv, TypeOK, UnwindInv, EnterOnce, Goto, Unwinding,
     Undoing, Goroutines, Alive
<1>3. StackInv'
  BY PhaseCount DEF IInv, TypeOK, StackInv, EnterOnce, Goto, Running,
     Phases, Goroutines, Alive
<1>4. CallsInv'
  BY PhaseCount DEF IInv, TypeOK, CallsInv, EnterOnce, Goto, Invoked,
     Undoing, Goroutines, Phases, Alive
<1>5. AcquiredInv'
  BY PhaseCount DEF IInv, TypeOK, AcquiredInv, EnterOnce, Goto, Goroutines,
     Phases, Alive
<1>6. FinishedInv'
  BY PhaseCount DEF IInv, TypeOK, FinishedInv, EnterOnce, Goto, Goroutines,
     Phases, Alive
<1> QED BY <1>1, <1>2, <1>3, <1>4, <1>5, <1>6 DEF IInv

\* The invariant is kept when a goroutine passes the finished once.
LEMMA KeepsPassOnce ==
  ASSUME IInv, NEW g \in Goroutines, PassOnce(g), Alive
  PROVE  IInv'
<1>1. TypeOK'
  BY PhaseCount DEF IInv, TypeOK, PassOnce, Goto, Goroutines, MainStates,
     SignalStates, Phases, Alive
<1>2. UnwindInv'
  BY PhaseCount DEF IInv, TypeOK, UnwindInv, PassOnce, Goto, Unwinding,
     Undoing, Goroutines, Alive
<1>3. StackInv'
  BY PhaseCount DEF IInv, TypeOK, StackInv, PassOnce, Goto, Running, Phases,
     Goroutines, Alive
<1>4. CallsInv'
  BY PhaseCount DEF IInv, TypeOK, CallsInv, PassOnce, Goto, Invoked,
     Undoing, Goroutines, Phases, Alive
<1>5. AcquiredInv'
  BY PhaseCount DEF IInv, TypeOK, AcquiredInv, PassOnce, Goto, Goroutines,
     Phases, Alive
<1>6. FinishedInv'
  BY PhaseCount DEF IInv, TypeOK, FinishedInv, PassOnce, Goto, Goroutines,
     Phases, Alive
<1> QED BY <1>1, <1>2, <1>3, <1>4, <1>5, <1>6 DEF IInv

\* The invariant is kept when the stack is copied and the pipeline marked torn.
LEMMA KeepsTakeSnapshot ==
  ASSUME IInv, NEW g \in Goroutines, TakeSnapshot(g), Alive
  PROVE  IInv'
<1>1. TypeOK'
  BY PhaseCount DEF IInv, TypeOK, TakeSnapshot, Goto, Goroutines,
     MainStates, SignalStates, Phases, Alive
<1>2. UnwindInv'
  BY PhaseCount DEF IInv, TypeOK, UnwindInv, TakeSnapshot, Goto, Unwinding,
     Undoing, Goroutines, Alive
<1>3. StackInv'
  BY PhaseCount DEF IInv, TypeOK, StackInv, TakeSnapshot, Goto, Running,
     Phases, Goroutines, Alive
<1>4. CallsInv'
  BY PhaseCount DEF IInv, TypeOK, CallsInv, UnwindInv, Unwinding,
     TakeSnapshot, Goto, Invoked, Undoing, Goroutines, Phases, Alive
<1>5. AcquiredInv'
  BY PhaseCount DEF IInv, TypeOK, AcquiredInv, TakeSnapshot, Goto,
     Goroutines, Phases, Alive
<1>6. FinishedInv'
  BY PhaseCount DEF IInv, TypeOK, FinishedInv, TakeSnapshot, Goto,
     Goroutines, Phases, Alive
<1> QED BY <1>1, <1>2, <1>3, <1>4, <1>5, <1>6 DEF IInv

\* The invariant is kept when the loop invokes the next teardown.
LEMMA KeepsInvokeTeardown ==
  ASSUME IInv, NEW g \in Goroutines, InvokeTeardown(g), Alive
  PROVE  IInv'
<1>1. TypeOK'
  BY PhaseCount DEF IInv, TypeOK, InvokeTeardown, Goto, Goroutines,
     MainStates, SignalStates, Phases, Alive
<1>2. UnwindInv'
  BY PhaseCount DEF IInv, TypeOK, UnwindInv, InvokeTeardown, Goto, Unwinding,
     Undoing, Goroutines, Alive
<1>3. StackInv'
  BY PhaseCount DEF IInv, TypeOK, StackInv, InvokeTeardown, Goto, Running,
     Phases, Goroutines, Alive
<1>4. CallsInv'
  <2> DEFINE p == teardowns[unwind]
  <2>1. /\ unwind \in 1..Len(teardowns) /\ torn
        /\ ~Undoing /\ Undoing'
        /\ teardowns' = teardowns /\ late' = late /\ torn' = torn /\ unwind' = unwind
    BY DEF IInv, TypeOK, UnwindInv, Undoing, Unwinding, InvokeTeardown, Goto, Goroutines
  <2>2. p \in Phases /\ p \notin late
    BY <2>1 DEF IInv, TypeOK, StackInv
  <2>3. calls' = [calls EXCEPT ![p] = @ + 1]
    BY DEF InvokeTeardown
  <2>4. calls[p] = 0
    BY <2>1 DEF IInv, CallsInv, Invoked, TypeOK
  <2>5. calls'[p] = 1 /\ \A q \in Phases \ {p} : calls'[q] = calls[q]
    BY <2>2, <2>3, <2>4 DEF IInv, TypeOK
  <2>6. ASSUME NEW i \in 1..Len(teardowns), i # unwind
        PROVE  teardowns[i] \in Phases \ {p} /\ (Invoked(i)' <=> Invoked(i))
    <3>1. teardowns[i] # p
      <4>1. i < unwind \/ unwind < i
        BY <2>1, <2>6
      <4>2. teardowns[i] < p \/ p < teardowns[i]
        BY <2>1, <2>6, <4>1 DEF IInv, StackInv
      <4> QED BY <2>1, <2>2, <4>2 DEF IInv, TypeOK, Phases
    <3> QED BY <2>1, <2>6, <3>1 DEF IInv, TypeOK, Invoked
  <2>7. Invoked(unwind)'
    BY <2>1 DEF Invoked
  <2>8. \A q \in late' : calls'[q] = 1
    BY <2>1, <2>2, <2>5 DEF IInv, TypeOK, CallsInv
  <2>9. ASSUME NEW i \in 1..Len(teardowns)
        PROVE  /\ Invoked(i)' => calls'[teardowns[i]] = 1
               /\ ~Invoked(i)' => calls'[teardowns[i]] = 0
    <3>1. CASE i = unwind
      BY <2>1, <2>5, <3>1 DEF Invoked
    <3>2. CASE i # unwind
      BY <3>2, <2>5, <2>6 DEF IInv, CallsInv
    <3> QED BY <3>1, <3>2
  <2>10. \A q \in Phases : q \notin late /\ (\A i \in 1..Len(teardowns) : teardowns[i] # q)
           => calls'[q] = 0
    BY <2>1, <2>5 DEF IInv, CallsInv
  <2> QED BY <2>1, <2>8, <2>9, <2>10 DEF CallsInv
<1>5. AcquiredInv'
  BY PhaseCount DEF IInv, TypeOK, AcquiredInv, InvokeTeardown, Goto,
     Goroutines, Phases, Alive
<1>6. FinishedInv'
  BY PhaseCount DEF IInv, TypeOK, FinishedInv, InvokeTeardown, Goto,
     Goroutines, Phases, Alive
<1> QED BY <1>1, <1>2, <1>3, <1>4, <1>5, <1>6 DEF IInv

\* The invariant is kept when that teardown ends.
LEMMA KeepsTeardownReturns ==
  ASSUME IInv, NEW g \in Goroutines, TeardownReturns(g), Alive
  PROVE  IInv'
<1>1. TypeOK'
  <2>1. unwind \in 1..Len(teardowns)
    BY DEF IInv, TypeOK, UnwindInv, Undoing, TeardownReturns
  <2>2. teardowns[unwind] \in Phases
    BY <2>1 DEF IInv, TypeOK
  <2> QED
    BY <2>1, <2>2 DEF IInv, TypeOK, TeardownReturns, Goto, Goroutines, MainStates,
                      SignalStates
<1>2. UnwindInv'
  BY PhaseCount DEF IInv, TypeOK, UnwindInv, TeardownReturns, Goto, Unwinding,
     Undoing, Goroutines, Alive
<1>3. StackInv'
  BY PhaseCount DEF IInv, TypeOK, StackInv, TeardownReturns, Goto, Running,
     Phases, Goroutines, Alive
<1>4. CallsInv'
  BY PhaseCount DEF IInv, TypeOK, CallsInv, UnwindInv, Unwinding,
     TeardownReturns, Goto, Invoked, Undoing, Goroutines, Phases, Alive
<1>5. AcquiredInv'
  BY PhaseCount DEF IInv, TypeOK, AcquiredInv, TeardownReturns, Goto,
     Goroutines, Phases, Alive
<1>6. FinishedInv'
  <2>1. unwind \in 1..Len(teardowns) /\ teardowns' = teardowns /\ torn' = torn
    BY DEF IInv, TypeOK, UnwindInv, Undoing, TeardownReturns
  <2>2. finished' = finished \cup {teardowns[unwind]} /\ unwind' = unwind - 1
    BY DEF TeardownReturns
  <2>3. ASSUME NEW i \in 1..Len(teardowns), torn, i > unwind - 1
        PROVE  teardowns[i] \in finished'
    <3>1. i = unwind \/ i > unwind
      BY <2>1, <2>3
    <3> QED BY <2>2, <2>3, <3>1 DEF IInv, FinishedInv
  <2>4. finished' \subseteq acquired'
    BY <2>1, <2>2 DEF IInv, FinishedInv, TeardownReturns
  <2>5. g # "main" => pc'["main"] = pc["main"]
    BY DEF IInv, TypeOK, TeardownReturns, Goto, Goroutines
  <2>6. pc'["main"] = "late" <=> pc["main"] = "late"
    BY <2>5 DEF IInv, TypeOK, TeardownReturns, Goto, Goroutines
  <2>7. pc'["main"] = "register" <=> pc["main"] = "register"
    BY <2>5 DEF IInv, TypeOK, TeardownReturns, Goto, Goroutines
  <2> QED
    BY <2>1, <2>2, <2>3, <2>4, <2>6, <2>7 DEF IInv, FinishedInv, TeardownReturns
<1> QED BY <1>1, <1>2, <1>3, <1>4, <1>5, <1>6 DEF IInv

\* The invariant is kept when the loop is over.
LEMMA KeepsLeaveOnce ==
  ASSUME IInv, NEW g \in Goroutines, LeaveOnce(g), Alive
  PROVE  IInv'
<1>1. TypeOK'
  BY PhaseCount DEF IInv, TypeOK, LeaveOnce, Goto, Goroutines, MainStates,
     SignalStates, Phases, Alive
<1>2. UnwindInv'
  BY PhaseCount DEF IInv, TypeOK, UnwindInv, LeaveOnce, Goto, Unwinding,
     Undoing, Goroutines, Alive
<1>3. StackInv'
  BY PhaseCount DEF IInv, TypeOK, StackInv, LeaveOnce, Goto, Running,
     Phases, Goroutines, Alive
<1>4. CallsInv'
  BY PhaseCount DEF IInv, TypeOK, CallsInv, LeaveOnce, Goto, Invoked,
     Undoing, Goroutines, Phases, Alive
<1>5. AcquiredInv'
  BY PhaseCount DEF IInv, TypeOK, AcquiredInv, LeaveOnce, Goto, Goroutines,
     Phases, Alive
<1>6. FinishedInv'
  BY PhaseCount DEF IInv, TypeOK, FinishedInv, LeaveOnce, Goto, Goroutines,
     Phases, Alive
<1> QED BY <1>1, <1>2, <1>3, <1>4, <1>5, <1>6 DEF IInv

-----------------------------------------------------------------------------
(* Pipeline: signals *)

\* The invariant is kept when a signal arrives.
LEMMA KeepsSignalArrives ==
  ASSUME IInv, SignalArrives
  PROVE  IInv'
<1>1. TypeOK'
  BY PhaseCount DEF IInv, TypeOK, SignalArrives, Goto, Alive, RunReturned,
     Goroutines, MainStates, SignalStates, Phases
<1>2. UnwindInv'
  BY PhaseCount DEF IInv, TypeOK, UnwindInv, SignalArrives, Goto, Alive,
     RunReturned, Unwinding, Undoing, Goroutines
<1>3. StackInv'
  BY PhaseCount DEF IInv, TypeOK, StackInv, SignalArrives, Goto, Alive,
     RunReturned, Running, Phases, Goroutines
<1>4. CallsInv'
  BY PhaseCount DEF IInv, TypeOK, CallsInv, SignalArrives, Goto, Alive,
     RunReturned, Invoked, Undoing, Goroutines, Phases
<1>5. AcquiredInv'
  BY PhaseCount DEF IInv, TypeOK, AcquiredInv, SignalArrives, Goto, Alive,
     RunReturned, Goroutines, Phases
<1>6. FinishedInv'
  BY PhaseCount DEF IInv, TypeOK, FinishedInv, SignalArrives, Goto, Alive,
     RunReturned, Goroutines, Phases
<1> QED BY <1>1, <1>2, <1>3, <1>4, <1>5, <1>6 DEF IInv

\* The invariant is kept when the context is cancelled.
LEMMA KeepsCancelContext ==
  ASSUME IInv, CancelContext
  PROVE  IInv'
<1>1. TypeOK'
  BY PhaseCount DEF IInv, TypeOK, CancelContext, Goto, Alive, RunReturned,
     Goroutines, MainStates, SignalStates, Phases
<1>2. UnwindInv'
  BY PhaseCount DEF IInv, TypeOK, UnwindInv, CancelContext, Goto, Alive,
     RunReturned, Unwinding, Undoing, Goroutines
<1>3. StackInv'
  BY PhaseCount DEF IInv, TypeOK, StackInv, CancelContext, Goto, Alive,
     RunReturned, Running, Phases, Goroutines
<1>4. CallsInv'
  BY PhaseCount DEF IInv, TypeOK, CallsInv, CancelContext, Goto, Alive,
     RunReturned, Invoked, Undoing, Goroutines, Phases
<1>5. AcquiredInv'
  BY PhaseCount DEF IInv, TypeOK, AcquiredInv, CancelContext, Goto, Alive,
     RunReturned, Goroutines, Phases
<1>6. FinishedInv'
  BY PhaseCount DEF IInv, TypeOK, FinishedInv, CancelContext, Goto, Alive,
     RunReturned, Goroutines, Phases
<1> QED BY <1>1, <1>2, <1>3, <1>4, <1>5, <1>6 DEF IInv

\* The invariant is kept when the handler takes the signal.
LEMMA KeepsTakeSignal ==
  ASSUME IInv, TakeSignal
  PROVE  IInv'
<1>1. TypeOK'
  BY PhaseCount DEF IInv, TypeOK, TakeSignal, Goto, Alive, RunReturned,
     Goroutines, MainStates, SignalStates, Phases
<1>2. UnwindInv'
  BY PhaseCount DEF IInv, TypeOK, UnwindInv, TakeSignal, Goto, Alive,
     RunReturned, Unwinding, Undoing, Goroutines
<1>3. StackInv'
  BY PhaseCount DEF IInv, TypeOK, StackInv, TakeSignal, Goto, Alive,
     RunReturned, Running, Phases, Goroutines
<1>4. CallsInv'
  BY PhaseCount DEF IInv, TypeOK, CallsInv, TakeSignal, Goto, Alive,
     RunReturned, Invoked, Undoing, Goroutines, Phases
<1>5. AcquiredInv'
  BY PhaseCount DEF IInv, TypeOK, AcquiredInv, TakeSignal, Goto, Alive,
     RunReturned, Goroutines, Phases
<1>6. FinishedInv'
  BY PhaseCount DEF IInv, TypeOK, FinishedInv, TakeSignal, Goto, Alive,
     RunReturned, Goroutines, Phases
<1> QED BY <1>1, <1>2, <1>3, <1>4, <1>5, <1>6 DEF IInv

\* The invariant is kept when the handler sees that Run returned.
LEMMA KeepsSeeRunReturned ==
  ASSUME IInv, SeeRunReturned
  PROVE  IInv'
<1>1. TypeOK'
  BY PhaseCount DEF IInv, TypeOK, SeeRunReturned, Goto, Alive, RunReturned,
     Goroutines, MainStates, SignalStates, Phases
<1>2. UnwindInv'
  BY PhaseCount DEF IInv, TypeOK, UnwindInv, SeeRunReturned, Goto, Alive,
     RunReturned, Unwinding, Undoing, Goroutines
<1>3. StackInv'
  BY PhaseCount DEF IInv, TypeOK, StackInv, SeeRunReturned, Goto, Alive,
     RunReturned, Running, Phases, Goroutines
<1>4. CallsInv'
  BY PhaseCount DEF IInv, TypeOK, CallsInv, SeeRunReturned, Goto, Alive,
     RunReturned, Invoked, Undoing, Goroutines, Phases
<1>5. AcquiredInv'
  BY PhaseCount DEF IInv, TypeOK, AcquiredInv, SeeRunReturned, Goto, Alive,
     RunReturned, Goroutines, Phases
<1>6. FinishedInv'
  BY PhaseCount DEF IInv, TypeOK, FinishedInv, SeeRunReturned, Goto, Alive,
     RunReturned, Goroutines, Phases
<1> QED BY <1>1, <1>2, <1>3, <1>4, <1>5, <1>6 DEF IInv

-----------------------------------------------------------------------------
(* Pipeline: the theorems *)

\* The invariant holds when the command starts.
LEMMA InitIInv == Init => IInv
<1> SUFFICES ASSUME Init PROVE IInv
  OBVIOUS
<1>1. TypeOK
  <2>1. /\ pc \in [Goroutines -> MainStates \cup SignalStates]
        /\ pc["main"] \in MainStates /\ pc["signal"] \in SignalStates
    BY DEF Init, Goroutines, MainStates, SignalStates
  <2>2. phase \in 1..(N + 1) /\ teardowns \in Seq(Phases) /\ unwind \in 0..Len(teardowns)
    BY PhaseCount DEF Init
  <2> QED BY <2>1, <2>2 DEF Init, TypeOK
<1>2. UnwindInv /\ StackInv /\ CallsInv /\ AcquiredInv /\ FinishedInv
  BY PhaseCount DEF Init, UnwindInv, StackInv, CallsInv, AcquiredInv, FinishedInv,
     Unwinding, Undoing, Running, Invoked, Goroutines, Phases
<1> QED BY <1>1, <1>2 DEF IInv

\* Every step of either goroutine keeps the invariant.
LEMMA NextIInv == IInv /\ [Next]_vars => IInv'
<1> SUFFICES ASSUME IInv, [Next]_vars PROVE IInv'
  OBVIOUS
<1>1. CASE RunStep
  BY <1>1, KeepsStartPhase, KeepsReturnFromRun, KeepsRegister,
     KeepsRunLateTeardown, KeepsLateTeardownReturns DEF RunStep
<1>2. CASE PhaseReturns
  BY <1>2, KeepsPhaseReturnsNothing, KeepsPhaseReturnsTeardown DEF PhaseReturns
<1>3. ASSUME NEW g \in Goroutines, TeardownStep(g), Alive
      PROVE  IInv'
  BY <1>3, KeepsEnterOnce, KeepsPassOnce, KeepsTakeSnapshot,
     KeepsInvokeTeardown, KeepsTeardownReturns, KeepsLeaveOnce DEF TeardownStep
<1>4. CASE TeardownStep("main")
  <2>1. Alive
    BY <1>4 DEF TeardownStep, EnterOnce, PassOnce, TakeSnapshot, InvokeTeardown,
       TeardownReturns, LeaveOnce, Alive
  <2> QED BY <1>3, <1>4, <2>1 DEF Goroutines
<1>5. CASE SignalStep
  BY <1>3, <1>5, KeepsTakeSignal, KeepsSeeRunReturned DEF SignalStep, Goroutines
<1>6. CASE SignalArrives \/ CancelContext
  BY <1>6, KeepsSignalArrives, KeepsCancelContext
<1>7. CASE UNCHANGED vars
  BY <1>7 DEF vars, IInv, TypeOK, UnwindInv, StackInv, CallsInv, AcquiredInv,
     FinishedInv, Unwinding, Undoing, Running, Invoked
<1> QED BY <1>1, <1>2, <1>4, <1>5, <1>6, <1>7 DEF Next

\* The invariant is one of the specification.
THEOREM Invariance == Spec => []IInv
BY InitIInv, NextIInv, PTL DEF Spec

\* Type correctness for any number of phases.
THEOREM TypeCorrect == Spec => []TypeOK
<1>1. IInv => TypeOK
  BY DEF IInv
<1> QED BY <1>1, Invariance, PTL

\* For any number of phases no teardown is invoked twice, although Teardown
\* may run on two goroutines and beside Run.
THEOREM TeardownOnce == Spec => []AtMostOnce
<1>1. IInv => AtMostOnce
  <2> SUFFICES ASSUME IInv, NEW p \in Phases PROVE calls[p] <= 1
    BY DEF AtMostOnce
  <2>1. CASE p \in late
    BY <2>1 DEF IInv, CallsInv
  <2>2. CASE \E i \in 1..Len(teardowns) : teardowns[i] = p
    BY <2>2 DEF IInv, CallsInv
  <2>3. CASE p \notin late /\ \A i \in 1..Len(teardowns) : teardowns[i] # p
    BY <2>3 DEF IInv, CallsInv
  <2> QED BY <2>1, <2>2, <2>3
<1> QED BY <1>1, Invariance, PTL

\* For any number of phases the process does not leave before every teardown
\* that a phase returned has run to its end.
THEOREM TeardownsComplete == Spec => []NothingLost
<1>1. IInv => NothingLost
  <2> SUFFICES ASSUME IInv, ~Alive PROVE acquired = finished
    BY DEF NothingLost
  <2>1. pc["main"] = "exit" /\ torn /\ unwind = 0
    BY DEF Alive, IInv, UnwindInv
  <2>2. ASSUME NEW p \in acquired PROVE p \in finished
    <3>1. CASE p \in late
      BY <2>1, <3>1 DEF IInv, FinishedInv
    <3>2. CASE \E i \in 1..Len(teardowns) : teardowns[i] = p
      BY <2>1, <3>2 DEF IInv, FinishedInv
    <3> QED BY <2>1, <3>1, <3>2 DEF IInv, AcquiredInv
  <2> QED BY <2>2 DEF IInv, FinishedInv
<1> QED BY <1>1, Invariance, PTL

\* For any number of phases the stack is unwound from its top: a teardown is
\* invoked only when those registered after it have returned.
THEOREM TeardownLIFO == Spec => []ReverseOrder
<1>1. IInv => ReverseOrder
  <2> SUFFICES ASSUME IInv, NEW i \in 1..Len(teardowns), NEW j \in 1..Len(teardowns),
                      i < j, calls[teardowns[i]] > 0
               PROVE  teardowns[j] \in finished
    BY DEF ReverseOrder
  <2>1. Invoked(i)
    BY DEF IInv, CallsInv
  <2>2. torn /\ j > unwind
    BY <2>1 DEF Invoked, IInv, TypeOK
  <2> QED BY <2>2 DEF IInv, FinishedInv
<1> QED BY <1>1, Invariance, PTL

-----------------------------------------------------------------------------
(* The poll: Collecting *)


\* What the records of the poll hold besides.
Noted ==
  /\ DOMAIN poll = {"pc", "allowed", "away", "unread"}
  /\ since \in [moved: Nat, processes: {None} \union 1..MaxProcesses, blip: BOOLEAN]

\* While a poll is under way, the list it works with lacks no literal address
\* of the allowlist, and of the names' addresses only those that were away
\* from the firewall's set at some moment since it was read.
ListInv ==
  poll.pc = "allowed" /\ session.known /\ ~poll.unread /\ poll.allowed # {} =>
    /\ session.fixed \subseteq poll.allowed
    /\ \A a \in Names : a \notin poll.allowed => a \in poll.away

\* The remembered counter is behind the present one by what was moved since,
\* at most, unless the poll that remembered it could not read io.stat; a
\* restart only puts the present one further back.
CounterInv ==
  base.io # None => counter - base.io <= since.moved \/ since.blip

\* A remembered number of processes is that of the last poll.
BaselineInv ==
  base.processes # None => since.processes = base.processes

PollInv == CTypeOK /\ Noted /\ ListInv /\ CounterInv /\ BaselineInv
CInv == PollInv /\ AllowedNotBlamed /\ AlarmsAreReal

\* Before the first poll nothing is remembered and nothing was reported.
LEMMA FirstPoll == CInit => CInv
<1> SUFFICES ASSUME CInit PROVE CInv
  OBVIOUS
<1> USE CollectingAssumption DEF CollectingAssumption, CInit
<1>1. CTypeOK
  BY DEF CTypeOK
<1>2. Noted
  BY DEF Noted
<1>3. ListInv /\ CounterInv /\ BaselineInv
  BY DEF ListInv, CounterInv, BaselineInv
<1>4. AllowedNotBlamed /\ AlarmsAreReal
  BY DEF AllowedNotBlamed, AlarmsAreReal
<1> QED
  BY <1>1, <1>2, <1>3, <1>4 DEF CInv, PollInv

\* Only a poll that ends reports threats: the last ones stay what they were.
LEMMA LastStands ==
  ASSUME CInv, World
  PROVE  (AllowedNotBlamed /\ AlarmsAreReal)' /\ session' = session /\ base' = base
BY DEF CInv, AllowedNotBlamed, AlarmsAreReal, World

\* An address learned is one more that the list may lack without blame, or not.
LEMMA LearnKeeps == ASSUME NEW a \in Names, CInv, Learn(a) PROVE PollInv'
BY DEF CInv, PollInv, CTypeOK, Noted, ListInv, CounterInv, BaselineInv, Learn, World

\* An address that leaves the set while a poll is under way is noted as away.
LEMMA ExpireKeeps == ASSUME NEW a \in Names, CInv, Expire(a) PROVE PollInv'
<1> USE DEF CInv, PollInv, Expire, World
<1>1. /\ poll'.pc = poll.pc /\ poll'.allowed = poll.allowed /\ poll'.unread = poll.unread
      /\ poll'.away = poll.away \union {a} /\ DOMAIN poll' = DOMAIN poll
  BY DEF Noted
<1>2. CTypeOK'
  BY <1>1 DEF CTypeOK
<1>3. Noted'
  BY <1>1 DEF Noted
<1>4. ListInv'
  BY <1>1 DEF ListInv
<1>5. CounterInv' /\ BaselineInv'
  BY DEF CounterInv, BaselineInv
<1> QED
  BY <1>2, <1>3, <1>4, <1>5

\* A connection changes nothing a poll remembers.
LEMMA ConnectKeeps == ASSUME NEW d \in Destinations, CInv, Connect(d) PROVE PollInv'
BY DEF CInv, PollInv, CTypeOK, Noted, ListInv, CounterInv, BaselineInv, Connect, World

\* I/O moves the counter and what was moved since by the same amount.
LEMMA MoveKeeps == ASSUME NEW n \in 1..MaxIO, CInv, Move(n) PROVE PollInv'
<1> USE CollectingAssumption DEF CollectingAssumption, CInv, PollInv, Move, World
<1>1. since' = [moved |-> since.moved + n, processes |-> since.processes, blip |-> since.blip]
  BY DEF Noted
<1>2. CTypeOK'
  BY DEF CTypeOK
<1>3. Noted'
  BY <1>1 DEF Noted
<1>4. CounterInv'
  BY <1>1 DEF CounterInv, CTypeOK, Noted
<1>5. ListInv' /\ BaselineInv'
  BY <1>1 DEF ListInv, BaselineInv
<1> QED
  BY <1>2, <1>3, <1>4, <1>5

\* Processes come and go between two polls.
LEMMA ForkKeeps == ASSUME NEW n \in -MaxProcesses..MaxProcesses, CInv, Fork(n) PROVE PollInv'
BY DEF CInv, PollInv, CTypeOK, Noted, ListInv, CounterInv, BaselineInv, Fork, World

\* A restart sets the counter back, which only brings it nearer to what was remembered.
LEMMA RestartKeeps == ASSUME CInv, Restart PROVE PollInv'
<1> USE CollectingAssumption DEF CollectingAssumption, CInv, PollInv, Restart, World
<1>1. CTypeOK' /\ Noted'
  BY DEF CTypeOK, Noted
<1>2. CounterInv'
  BY DEF CounterInv, CTypeOK, Noted, None
<1>3. ListInv' /\ BaselineInv'
  BY DEF ListInv, BaselineInv
<1> QED
  BY <1>1, <1>2, <1>3

\* currentAllowedCIDRs: a list that is not empty holds the literal addresses and what the
\* firewall's set holds now.  With nothing in the sets there is the snapshot, which then has
\* no literal address to lack, and every name is away.
LEMMA ListCovers ==
  ASSUME CTypeOK, session.known, CurrentAllowed(FALSE) # {}
  PROVE  /\ session.fixed \subseteq CurrentAllowed(FALSE)
         /\ \A a \in Names : a \notin CurrentAllowed(FALSE) => a \in Names \ dynamic
BY DEF CurrentAllowed, Listed

\* The poll begins with a list that covers what the firewall lets through.
LEMMA ReadAllowedKeeps == ASSUME CInv, ReadAllowed PROVE PollInv'
<1> USE DEF CInv, PollInv
<1>1. PICK unread \in BOOLEAN :
        poll' = [pc |-> "allowed", allowed |-> CurrentAllowed(unread),
                 away |-> Names \ dynamic, unread |-> unread]
  BY DEF ReadAllowed
<1>2. UNCHANGED <<session, base, last, dynamic, connected, counter, processes, since>>
  BY DEF ReadAllowed, World
<1>3. CTypeOK' /\ Noted'
  BY <1>1, <1>2 DEF CTypeOK, Noted
<1>4. ListInv'
  <2>1. CASE unread
    BY <1>1, <2>1 DEF ListInv
  <2>2. CASE ~unread
    BY <1>1, <1>2, <2>2, ListCovers DEF ListInv
  <2> QED
    BY <2>1, <2>2
<1>5. CounterInv' /\ BaselineInv'
  BY <1>2 DEF CounterInv, BaselineInv
<1> QED
  BY <1>3, <1>4, <1>5

\* checkSuspicious blames an address for not being listed only when there is a list without it.
LEMMA WhyOfNetwork ==
  ASSUME NEW seen, NEW allowed, NEW t \in NetworkThreats(seen, allowed)
  PROVE  /\ t.why \notin {"io", "spawn"}
         /\ t.why = "unlisted" => allowed # {} /\ t.addr \notin allowed
<1>1. PICK d \in seen : Reason(d, allowed) # "none" /\ t.why = Reason(d, allowed) /\ t.addr = d.addr
  BY DEF NetworkThreats
<1> QED
  BY <1>1 DEF Reason

\* DetectLargeReads: a difference above the threshold to a remembered counter.
LEMMA WhyOfIO ==
  ASSUME NEW io, NEW t \in IOThreats(io)
  PROVE  t.why = "io" /\ base.io # None /\ Delta(io, base.io) > Large
BY DEF IOThreats

\* DetectProcessSpawnRate: a difference above the threshold to a remembered number.
LEMMA WhyOfProcesses ==
  ASSUME NEW count, NEW t \in ProcessThreats(count)
  PROVE  /\ t.why \in {"crowd", "spawn"}
         /\ t.why = "spawn" => base.processes # None /\ count - base.processes > Spawn
BY DEF ProcessThreats

\* The rest of the poll: every reading may fail, and what it remembers is what it read.
LEMMA SampleKeeps == ASSUME CInv, Sample PROVE CInv'
<1> USE CollectingAssumption DEF CollectingAssumption
<1>1. PICK seen \in Visible, io \in Readings("io", counter, {0, None}),
           count \in Readings("processes", processes, {None}) :
        /\ last' = [threats |-> NetworkThreats(seen, poll.allowed)
                     \union (IF io = None THEN {} ELSE IOThreats(io))
                     \union (IF count = None THEN {} ELSE ProcessThreats(count)),
                   moved |-> since.moved,
                   grown |-> IF since.processes = None THEN 0
                             ELSE processes - since.processes,
                   away |-> poll.away, unread |-> poll.unread, blip |-> since.blip]
        /\ base' = [io |-> IF io = None THEN base.io ELSE io,
                    processes |-> NextBaseline(count)]
        /\ since' = [moved |-> IF io = None THEN since.moved ELSE 0,
                     processes |-> processes,
                     blip |-> IF io = None THEN since.blip ELSE io # counter]
  BY DEF Sample
<1>2. /\ poll.pc = "allowed"
      /\ poll' = [poll EXCEPT !.pc = "idle", !.allowed = {}, !.away = {}, !.unread = FALSE]
      /\ UNCHANGED <<session, dynamic, connected, counter, processes>>
  BY DEF Sample
<1>3. io \in {counter, 0, None} /\ count \in {processes, None}
  BY DEF Readings
<1>4. CTypeOK /\ Noted /\ ListInv /\ CounterInv /\ BaselineInv
  BY DEF CInv, PollInv
<1>5. poll'.pc = "idle" /\ poll'.away = {} /\ DOMAIN poll' = DOMAIN poll
  BY <1>2, <1>4 DEF Noted
<1>6. CTypeOK'
  BY <1>1, <1>2, <1>3, <1>4, <1>5 DEF CTypeOK, None, NextBaseline
<1>7. Noted'
  BY <1>1, <1>2, <1>3, <1>4, <1>5 DEF Noted, CTypeOK, None
<1>8. ListInv'
  BY <1>5 DEF ListInv
<1>9. CounterInv'
  <2>1. CASE io = None
    BY <1>1, <1>2, <1>4, <2>1 DEF CounterInv
  <2>2. CASE io = counter
    <3>1. base'.io = counter /\ since'.moved = 0
      BY <1>1, <1>4, <2>2 DEF CTypeOK, None
    <3> QED
      BY <1>2, <1>4, <3>1 DEF CounterInv, CTypeOK
  <2>3. CASE io # None /\ io # counter
    <3>1. since'.blip = TRUE
      BY <1>1, <2>3
    <3> QED
      BY <3>1 DEF CounterInv
  <2> QED
    BY <2>1, <2>2, <2>3
<1>10. BaselineInv'
  BY <1>1, <1>2, <1>3, <1>4 DEF BaselineInv, NextBaseline
<1>11. ASSUME NEW t \in last'.threats
       PROVE  \/ t \in NetworkThreats(seen, poll.allowed)
              \/ io # None /\ t \in IOThreats(io)
              \/ count # None /\ t \in ProcessThreats(count)
  BY <1>1, <1>11
<1>12. AllowedNotBlamed'
  <2> SUFFICES ASSUME NEW t \in last'.threats, t.why = "unlisted", session.known, ~poll.unread
               PROVE  t.addr \notin session.fixed /\ (t.addr \in Names => t.addr \in poll.away)
    BY <1>1, <1>2 DEF AllowedNotBlamed
  <2>1. t \in NetworkThreats(seen, poll.allowed)
    BY <1>11, WhyOfIO, WhyOfProcesses
  <2>2. poll.allowed # {} /\ t.addr \notin poll.allowed
    BY <2>1, WhyOfNetwork
  <2> QED
    BY <1>2, <1>4, <2>2 DEF ListInv
<1>13. ASSUME NEW t \in last'.threats, t.why = "io"
       PROVE  since.moved > Large \/ since.blip
  <2>1. io # None /\ t \in IOThreats(io)
    BY <1>11, <1>13, WhyOfNetwork, WhyOfProcesses
  <2>2. base.io # None /\ Delta(io, base.io) > Large
    BY <2>1, WhyOfIO
  <2>3. io = counter
    BY <1>3, <1>4, <2>1, <2>2 DEF Delta, CTypeOK, None
  <2> QED
    BY <1>4, <2>2, <2>3 DEF CounterInv, Delta, CTypeOK, Noted, None
<1>14. ASSUME NEW t \in last'.threats, t.why = "spawn"
       PROVE  last'.grown > Spawn
  <2>1. count # None /\ t \in ProcessThreats(count)
    BY <1>11, <1>14, WhyOfNetwork, WhyOfIO
  <2>2. base.processes # None /\ count - base.processes > Spawn
    BY <1>14, <2>1, WhyOfProcesses
  <2> QED
    BY <1>1, <1>3, <1>4, <2>1, <2>2 DEF BaselineInv
<1>15. AlarmsAreReal'
  BY <1>1, <1>13, <1>14 DEF AlarmsAreReal
<1> QED
  BY <1>6, <1>7, <1>8, <1>9, <1>10, <1>12, <1>15 DEF CInv, PollInv

\* The invariant of the poll.
LEMMA CInvariance == CSpec => []CInv
<1>1. ASSUME CInv, [CNext]_cvars PROVE CInv'
  <2>1. CASE UNCHANGED cvars
    BY <1>1, <2>1 DEF CInv, PollInv, CTypeOK, Noted, ListInv, CounterInv, BaselineInv,
      AllowedNotBlamed, AlarmsAreReal, cvars
  <2>2. CASE Sample
    BY <1>1, <2>2, SampleKeeps
  <2>3. ASSUME World, PollInv' PROVE CInv'
    BY <1>1, <2>3, LastStands DEF CInv
  <2>4. CASE \E a \in Names : Learn(a) \/ Expire(a)
    BY <1>1, <2>3, <2>4, LearnKeeps, ExpireKeeps DEF Learn, Expire
  <2>5. CASE \E d \in Destinations : Connect(d)
    BY <1>1, <2>3, <2>5, ConnectKeeps DEF Connect
  <2>6. CASE \E n \in 1..MaxIO : Move(n)
    BY <1>1, <2>3, <2>6, MoveKeeps DEF Move
  <2>7. CASE \E n \in -MaxProcesses..MaxProcesses : Fork(n)
    BY <1>1, <2>3, <2>7, ForkKeeps DEF Fork
  <2>8. CASE Restart
    BY <1>1, <2>3, <2>8, RestartKeeps DEF Restart
  <2>9. CASE ReadAllowed
    BY <1>1, <2>3, <2>9, ReadAllowedKeeps DEF ReadAllowed
  <2> QED
    BY <1>1, <2>1, <2>2, <2>4, <2>5, <2>6, <2>7, <2>8, <2>9 DEF CNext
<1> QED
  BY <1>1, FirstPoll, PTL DEF CSpec

\* Type correctness of the container, the poll and what it remembers.
THEOREM PolledTypeCorrect == CSpec => []CTypeOK
<1>1. CInv => CTypeOK
  BY DEF CInv, PollInv
<1> QED
  BY <1>1, CInvariance, PTL

\* AllowedNotBlamed: whatever the sets, the names and the timing of the readings, no address
\* that the firewall let through all the time a poll took is reported as not allowed.
THEOREM BlamesNoAllowed == CSpec => []AllowedNotBlamed
<1>1. CInv => AllowedNotBlamed
  BY DEF CInv
<1> QED
  BY <1>1, CInvariance, PTL

\* AlarmsAreReal: a pause for I/O and a kill for spawned processes are about what happened
\* since the poll before, across restarts and polls that saw nothing.
THEOREM AlarmsAlwaysReal == CSpec => []AlarmsAreReal
<1>1. CInv => AlarmsAreReal
  BY DEF CInv
<1> QED
  BY <1>1, CInvariance, PTL

-----------------------------------------------------------------------------
(* The LOG rules: LogRules *)


KindSet == {"private", "ports", "dns", "all"}
Rule == [kind: KindSet, by: Daemons]
Tag(ip) == [ip: {ip}, rule: Rule]
Lists == Seq(KindSet) \union UNION {Seq(Tag(ip)) : ip \in Addresses}
Work == [pc: {"none", "check", "insert", "up", "delete", "off"}, ip: Addresses \union {Free},
         todo: Lists, excuse: {"none", "killed", "partial", "robbed"}]

\* What is left of Kinds while they are inserted.
Rests == {<<"private", "ports", "dns", "all">>, <<"ports", "dns", "all">>, <<"dns", "all">>,
          <<"all">>}

LTyped ==
  /\ lease \in [Boxes -> Addresses \union {Free}] /\ watches \in [Daemons -> Boxes]
  /\ chain \in [Addresses -> Seq(Rule)]
  /\ daemon \in [Daemons -> Work]
  /\ killing \subseteq Addresses

\* A daemon at work has an address; what it has yet to insert is an end of
\* Kinds, and what it has yet to delete are rules of its own address.
TodoInv ==
  \A d \in Daemons :
    /\ Of(d).pc \in {"check", "insert", "up", "delete"} => Of(d).ip \in Addresses
    /\ Of(d).pc = "insert" => Of(d).todo \in Rests
    /\ Of(d).pc = "delete" => Of(d).todo \in Seq(Tag(Of(d).ip)) /\ Of(d).todo # <<>>

\* Whoever has no excuse has the rules of every kind, those it has yet to
\* insert excepted.
Has(d, left) == \A kind \in KindSet : kind \in KindsOf(Of(d).ip) \/ kind \in left
RulesInv ==
  \A d \in Daemons : Of(d).excuse = "none" =>
    /\ Of(d).pc = "up" => Has(d, {})
    /\ Of(d).pc = "insert" => Has(d, ToSet(Of(d).todo))

LInv == LTyped /\ TodoInv /\ RulesInv

\* The kinds that AddRules inserts.
LEMMA KindsAll == /\ Kinds = <<"private", "ports", "dns", "all">> /\ ToSet(Kinds) = KindSet
                  /\ Kinds \in Rests /\ Kinds \in Lists
<1>1. Kinds \in Seq(KindSet)
  BY DEF Kinds, KindSet
<1>2. ToSet(Kinds) = KindSet
  BY DEF Kinds, KindSet, ToSet
<1> QED
  BY <1>1, <1>2 DEF Kinds, Rests, Lists

\* What is left of the kinds after one more insertion.
LEMMA RestShrinks ==
  ASSUME NEW rest \in Rests
  PROVE  /\ rest \in Lists /\ Head(rest) \in KindSet
         /\ ToSet(rest) = {Head(rest)} \union ToSet(Tail(rest))
         /\ Len(rest) # 1 => Tail(rest) \in Rests
         /\ Len(rest) = 1 => ToSet(Tail(rest)) = {}
         /\ Tail(rest) \in Lists
<1>1. CASE rest = <<"private", "ports", "dns", "all">>
  <2> DEFINE tail == <<"ports", "dns", "all">>
  <2>1. Tail(rest) = tail
    BY <1>1
  <2>2. rest \in Seq(KindSet) /\ tail \in Seq(KindSet)
    BY <1>1 DEF KindSet
  <2>3. DOMAIN rest = 1..4 /\ rest[1] = "private"
        /\ rest[2] = "ports" /\ rest[3] = "dns" /\ rest[4] = "all"
    BY <1>1
  <2>4. DOMAIN tail = 1..3 /\ tail[1] = "ports" /\ tail[2] = "dns" /\ tail[3] = "all"
    OBVIOUS
  <2>5. ToSet(rest) = {"private", "ports", "dns", "all"}
    BY <2>3 DEF ToSet
  <2> HIDE DEF tail
  <2>6. ToSet(tail) = {"ports", "dns", "all"}
    BY <2>4 DEF ToSet
  <2>7. tail \in Lists /\ rest \in Lists
    BY <2>2 DEF Lists
  <2>8. Len(rest) # 1 => tail \in Rests
    BY <1>1 DEF tail, Rests
  <2> QED
    BY <1>1, <2>1, <2>5, <2>6, <2>7, <2>8 DEF KindSet
<1>2. CASE rest = <<"ports", "dns", "all">>
  <2> DEFINE tail == <<"dns", "all">>
  <2>1. Tail(rest) = tail
    BY <1>2
  <2>2. rest \in Seq(KindSet) /\ tail \in Seq(KindSet)
    BY <1>2 DEF KindSet
  <2>3. DOMAIN rest = 1..3 /\ rest[1] = "ports" /\ rest[2] = "dns" /\ rest[3] = "all"
    BY <1>2
  <2>4. DOMAIN tail = 1..2 /\ tail[1] = "dns" /\ tail[2] = "all"
    OBVIOUS
  <2>5. ToSet(rest) = {"ports", "dns", "all"}
    BY <2>3 DEF ToSet
  <2> HIDE DEF tail
  <2>6. ToSet(tail) = {"dns", "all"}
    BY <2>4 DEF ToSet
  <2>7. tail \in Lists /\ rest \in Lists
    BY <2>2 DEF Lists
  <2>8. Len(rest) # 1 => tail \in Rests
    BY <1>2 DEF tail, Rests
  <2> QED
    BY <1>2, <2>1, <2>5, <2>6, <2>7, <2>8 DEF KindSet
<1>3. CASE rest = <<"dns", "all">>
  <2> DEFINE tail == <<"all">>
  <2>1. Tail(rest) = tail
    BY <1>3
  <2>2. rest \in Seq(KindSet) /\ tail \in Seq(KindSet)
    BY <1>3 DEF KindSet
  <2>3. DOMAIN rest = 1..2 /\ rest[1] = "dns" /\ rest[2] = "all"
    BY <1>3
  <2>4. DOMAIN tail = 1..1 /\ tail[1] = "all"
    OBVIOUS
  <2>5. ToSet(rest) = {"dns", "all"}
    BY <2>3 DEF ToSet
  <2> HIDE DEF tail
  <2>6. ToSet(tail) = {"all"}
    BY <2>4 DEF ToSet
  <2>7. tail \in Lists /\ rest \in Lists
    BY <2>2 DEF Lists
  <2>8. Len(rest) # 1 => tail \in Rests
    BY <1>3 DEF tail, Rests
  <2> QED
    BY <1>3, <2>1, <2>5, <2>6, <2>7, <2>8 DEF KindSet
<1>4. CASE rest = <<"all">>
  <2> DEFINE tail == <<>>
  <2>1. Tail(rest) = tail
    BY <1>4
  <2>2. rest \in Seq(KindSet) /\ tail \in Seq(KindSet)
    BY <1>4 DEF KindSet
  <2>3. DOMAIN rest = 1..1 /\ rest[1] = "all"
    BY <1>4
  <2>4. DOMAIN tail = {}
    OBVIOUS
  <2>5. ToSet(rest) = {"all"}
    BY <2>3 DEF ToSet
  <2> HIDE DEF tail
  <2>6. ToSet(tail) = {}
    BY <2>4 DEF ToSet
  <2>7. tail \in Lists /\ rest \in Lists
    BY <2>2 DEF Lists
  <2>8. Len(rest) # 1 => tail \in Rests
    BY <1>4 DEF tail, Rests
  <2> QED
    BY <1>4, <2>1, <2>5, <2>6, <2>7, <2>8 DEF KindSet
<1> QED
  BY <1>1, <1>2, <1>3, <1>4 DEF Rests

\* Before any daemon is up there is nothing to have.
LEMMA NobodyUp == LInit => LInv
<1> SUFFICES ASSUME LInit PROVE LInv
  OBVIOUS
<1> USE LogRulesAssumption DEF LogRulesAssumption, LInit
<1>1. <<>> \in Lists /\ <<>> \in Seq(Rule)
  BY DEF Lists
<1>2. NotYet \in Work
  BY <1>1 DEF NotYet, Work
<1>3. LTyped
  BY <1>1, <1>2 DEF LTyped
<1>4. \A d \in Daemons : Of(d).pc = "none"
  BY DEF Of, NotYet
<1>5. TodoInv /\ RulesInv
  BY <1>4 DEF TodoInv, RulesInv
<1> QED
  BY <1>3, <1>5 DEF LInv

\* A daemon that ended.
LEMMA EndedTyped == Ended \in Work /\ Ended.pc = "off"
<1>1. <<>> \in Lists
  BY DEF Lists
<1> QED
  BY <1>1 DEF Ended, NotYet, Work

\* A step that leaves the rules alone and changes one daemon at most.
LEMMA OneDaemon ==
  ASSUME LInv, UNCHANGED <<chain, watches>>, NEW d \in Daemons, NEW changed \in Work,
         daemon' = [daemon EXCEPT ![d] = changed],
         lease' \in [Boxes -> Addresses \union {Free}], killing' \subseteq Addresses,
         changed.pc \in {"check", "insert", "up", "delete"} => changed.ip \in Addresses,
         changed.pc = "insert" => changed.todo \in Rests,
         changed.pc = "delete" => changed.todo \in Seq(Tag(changed.ip)) /\ changed.todo # <<>>,
         changed.pc = "up" /\ changed.excuse = "none" =>
           \A kind \in KindSet : kind \in KindsOf(changed.ip),
         changed.pc = "insert" /\ changed.excuse = "none" =>
           \A kind \in KindSet : kind \in KindsOf(changed.ip) \/ kind \in ToSet(changed.todo)
  PROVE  LInv'
<1>1. LTyped /\ TodoInv /\ RulesInv
  BY DEF LInv
<1>2. daemon'[d] = changed /\ \A e \in Daemons : e # d => daemon'[e] = daemon[e]
  BY <1>1 DEF LTyped
<1>3. LTyped'
  BY <1>1 DEF LTyped
<1>4. TodoInv'
  BY <1>1, <1>2 DEF TodoInv, Of
<1>5. \A ip : KindsOf(ip)' = KindsOf(ip)
  BY DEF KindsOf
<1>6. RulesInv'
  BY <1>1, <1>2, <1>5 DEF RulesInv, Has, Of
<1> QED
  BY <1>3, <1>4, <1>6 DEF LInv

\* Containers come and go under the daemons' feet; the rules and the daemons stay.
LEMMA BoxKeeps == ASSUME NEW b \in Boxes, LInv, Boot(b) \/ Halt(b) PROVE LInv'
<1>1. LTyped /\ TodoInv /\ RulesInv
  BY DEF LInv
<1>2. UNCHANGED <<chain, watches, daemon>>
  BY DEF Boot, Halt
<1>3. lease' \in [Boxes -> Addresses \union {Free}]
  BY <1>1 DEF Boot, Halt, LTyped
<1>4. killing' \subseteq Addresses
  BY <1>1 DEF Boot, Halt, LTyped
<1>5. LTyped'
  BY <1>1, <1>2, <1>3, <1>4 DEF LTyped
<1>6. TodoInv' /\ RulesInv'
  BY <1>1, <1>2 DEF TodoInv, RulesInv, Of, Has, KindsOf
<1> QED
  BY <1>5, <1>6 DEF LInv

\* A daemon has asked for the address of its container.
LEMMA StartKeeps == ASSUME NEW d \in Daemons, LInv, Start(d) PROVE LInv'
<1> DEFINE changed == [Of(d) EXCEPT !.pc = "check", !.ip = lease[watches[d]]]
<1>1. LTyped
  BY DEF LInv
<1>2. lease[watches[d]] \in Addresses
  BY <1>1 DEF LTyped, Start
<1>3. changed \in Work /\ changed.pc = "check" /\ changed.ip \in Addresses
  BY <1>1, <1>2 DEF LTyped, Of, Work
<1>4. /\ UNCHANGED <<chain, watches>> /\ daemon' = [daemon EXCEPT ![d] = changed]
      /\ lease' \in [Boxes -> Addresses \union {Free}] /\ killing' \subseteq Addresses
  BY <1>1 DEF Start, Set, LTyped
<1> HIDE DEF changed
<1> QED
  BY <1>3, <1>4, OneDaemon

\* A daemon that finds rules of its address has all kinds, or the excuse of an incomplete set.
LEMMA FoundKeeps ==
  ASSUME NEW d \in Daemons, LInv, Of(d).pc = "check", Found(d),
         UNCHANGED <<lease, chain, watches, killing>>
  PROVE  LInv'
<1> DEFINE ip == Of(d).ip
           why == IF KindsOf(ip) \in {{}, ToSet(Kinds)} THEN Of(d).excuse ELSE "partial"
           changed == [Of(d) EXCEPT !.pc = "up", !.excuse = why]
<1>1. LTyped /\ TodoInv
  BY DEF LInv
<1>2. Of(d) \in Work /\ ip \in Addresses
  BY <1>1 DEF LTyped, TodoInv, Of
<1>3. changed \in Work /\ changed.pc = "up" /\ changed.ip = ip /\ changed.excuse = why
  BY <1>2 DEF Work
<1>4. daemon' = [daemon EXCEPT ![d] = changed]
  BY DEF Found, Set
<1>5. KindsOf(ip) # {}
  <2>1. chain[ip] \in Seq(Rule) /\ chain[ip] # <<>>
    BY <1>1, <1>2 DEF LTyped, Found, Present
  <2>2. 1 \in DOMAIN chain[ip]
    BY <2>1
  <2> QED
    BY <2>2 DEF KindsOf
<1>6. why = "none" => KindsOf(ip) = KindSet
  BY <1>5, KindsAll
<1>7. lease' \in [Boxes -> Addresses \union {Free}] /\ killing' \subseteq Addresses
  BY <1>1 DEF LTyped
<1> HIDE DEF changed, why
<1>8. changed.pc = "up" /\ changed.excuse = "none" =>
        \A kind \in KindSet : kind \in KindsOf(changed.ip)
  BY <1>3, <1>6
<1> QED
  BY <1>2, <1>3, <1>4, <1>7, <1>8, OneDaemon

\* One that finds none has everything yet to insert.
LEMMA NotFoundKeeps ==
  ASSUME NEW d \in Daemons, LInv, Of(d).pc = "check", NotFound(d),
         UNCHANGED <<lease, chain, watches, killing>>
  PROVE  LInv'
<1> DEFINE changed == [Of(d) EXCEPT !.pc = "insert", !.todo = Kinds]
<1>1. LTyped /\ TodoInv
  BY DEF LInv
<1>2. Of(d) \in Work /\ Of(d).ip \in Addresses
  BY <1>1 DEF LTyped, TodoInv, Of
<1>3. changed \in Work /\ changed.pc = "insert" /\ changed.ip = Of(d).ip /\ changed.todo = Kinds
  BY <1>2, KindsAll DEF Work
<1>4. daemon' = [daemon EXCEPT ![d] = changed]
  BY DEF NotFound, Set
<1>5. lease' \in [Boxes -> Addresses \union {Free}] /\ killing' \subseteq Addresses
  BY <1>1 DEF LTyped
<1> HIDE DEF changed
<1>6. \A kind \in KindSet : kind \in ToSet(changed.todo)
  BY <1>3, KindsAll
<1> QED
  BY <1>2, <1>3, <1>4, <1>5, <1>6, KindsAll, OneDaemon

\* Where a daemon ends, it relies on nothing any more.
LEMMA EndsKeeps ==
  ASSUME NEW d \in Daemons, LInv, Set(d, Ended), UNCHANGED <<lease, chain, watches, killing>>
  PROVE  LInv'
<1>1. daemon' = [daemon EXCEPT ![d] = Ended]
  BY DEF Set
<1>2. lease' \in [Boxes -> Addresses \union {Free}] /\ killing' \subseteq Addresses
  BY DEF LInv, LTyped
<1> QED
  BY <1>1, <1>2, EndedTyped, OneDaemon

\* RemoveRules lists the rules of its own address, and of no other.
LEMMA StopKeeps == ASSUME NEW d \in Daemons, LInv, Stop(d) PROVE LInv'
<1> DEFINE ip == Of(d).ip
           found == Tagged(ip)
           changed == [NotYet EXCEPT !.pc = "delete", !.ip = ip, !.todo = found]
<1>1. LTyped /\ TodoInv
  BY DEF LInv
<1>2. ip \in Addresses /\ chain[ip] \in Seq(Rule)
  BY <1>1 DEF TodoInv, LTyped, Stop
<1>3. found \in Seq(Tag(ip))
  <2>1. DOMAIN chain[ip] = 1..Len(chain[ip]) /\ Len(chain[ip]) \in Nat
    BY <1>2
  <2>2. \A i \in DOMAIN chain[ip] : chain[ip][i] \in Rule
    BY <1>2
  <2>3. \A i \in DOMAIN chain[ip] : [ip |-> ip, rule |-> chain[ip][i]] \in Tag(ip)
    BY <2>2 DEF Tag
  <2>4. found \in [1..Len(chain[ip]) -> Tag(ip)]
    BY <2>1, <2>3 DEF Tagged
  <2> QED
    BY <2>1, <2>4
<1>4. found \in Lists
  BY <1>2, <1>3 DEF Lists
<1> HIDE DEF found
<1>5. NotYet \in Work
  <2>1. <<>> \in Lists
    BY DEF Lists
  <2> QED
    BY <2>1 DEF NotYet, Work
<1>6. changed \in Work /\ changed.pc = "delete" /\ changed.ip = ip /\ changed.todo = found
  BY <1>2, <1>4, <1>5 DEF Work
<1>7. CASE found = <<>>
  BY <1>7, EndsKeeps DEF Stop, RulesOf, found
<1>8. CASE found # <<>>
  <2>1. daemon' = [daemon EXCEPT ![d] = changed]
    BY <1>8 DEF Stop, RulesOf, Set, found
  <2>2. lease' \in [Boxes -> Addresses \union {Free}] /\ killing' \subseteq Addresses
    BY <1>1 DEF LTyped, Stop
  <2>3. UNCHANGED <<chain, watches>>
    BY DEF Stop
  <2>4. /\ changed.pc = "delete" /\ changed.ip = ip /\ changed.ip \in Addresses
        /\ changed.todo \in Seq(Tag(changed.ip)) /\ changed.todo # <<>>
    BY <1>2, <1>3, <1>6, <1>8
  <2> HIDE DEF changed
  <2> QED
    BY <1>6, <2>1, <2>2, <2>3, <2>4, OneDaemon
<1> QED
  BY <1>7, <1>8

\* The kinds of a chain with a rule in front.
LEMMA InFront ==
  ASSUME NEW rule \in Rule, NEW rules \in Seq(Rule)
  PROVE  {(<<rule>> \o rules)[i].kind : i \in DOMAIN (<<rule>> \o rules)}
           = {rules[i].kind : i \in DOMAIN rules} \union {rule.kind}
<1> DEFINE longer == <<rule>> \o rules
<1>1. /\ DOMAIN longer = 1..(Len(rules) + 1) /\ DOMAIN rules = 1..Len(rules) /\ Len(rules) \in Nat
      /\ longer[1] = rule /\ \A i \in 1..Len(rules) : longer[i + 1] = rules[i]
  OBVIOUS
<1> HIDE DEF longer
<1>2. \A i \in DOMAIN longer : i = 1 \/ (i - 1 \in DOMAIN rules /\ longer[i] = rules[i - 1])
  BY <1>1
<1>3. \A i \in DOMAIN rules : i + 1 \in DOMAIN longer /\ longer[i + 1] = rules[i]
  BY <1>1
<1>4. 1 \in DOMAIN longer
  BY <1>1
<1>5. {longer[i].kind : i \in DOMAIN longer} \subseteq
        {rules[i].kind : i \in DOMAIN rules} \union {rule.kind}
  BY <1>1, <1>2
<1>6. {rules[i].kind : i \in DOMAIN rules} \union {rule.kind} \subseteq
        {longer[i].kind : i \in DOMAIN longer}
  BY <1>1, <1>3, <1>4
<1> QED
  BY <1>5, <1>6 DEF longer

\* A rule inserted is one kind fewer to insert; a failure ends the daemon.
LEMMA InsertKeeps == ASSUME NEW d \in Daemons, LInv, Insert(d) PROVE LInv'
<1>1. LTyped /\ TodoInv /\ RulesInv
  BY DEF LInv
<1>2. PICK ip \in Addresses, rest \in Rests : ip = Of(d).ip /\ rest = Of(d).todo
  BY <1>1 DEF TodoInv, Insert
<1>3. Of(d) \in Work /\ Of(d).pc = "insert" /\ chain[ip] \in Seq(Rule)
      /\ Of(d).ip = ip /\ Of(d).todo = rest
  BY <1>2, <1>1 DEF LTyped, Of, Insert
<1> DEFINE rule == [kind |-> Head(rest), by |-> d]
           label == IF Len(rest) = 1 THEN "up" ELSE "insert"
           changed == [Of(d) EXCEPT !.todo = Tail(rest), !.pc = label]
<1>4. CASE UNCHANGED chain /\ Set(d, Ended)
  BY <1>4, EndsKeeps DEF Insert
<1>5. CASE /\ chain' = [chain EXCEPT ![ip] = <<rule>> \o @]
           /\ daemon' = [daemon EXCEPT ![d] = changed]
  <2>1. rule \in Rule
    BY <1>3, RestShrinks DEF Rule
  <2>2. changed \in Work /\ changed.ip = ip /\ changed.todo = Tail(rest) /\ changed.pc = label
        /\ changed.excuse = Of(d).excuse
    BY <1>3, RestShrinks DEF Work
  <2> HIDE DEF changed
  <2>3. daemon'[d] = changed /\ \A e \in Daemons : e # d => daemon'[e] = daemon[e]
    BY <1>1, <1>5 DEF LTyped
  <2>4. LTyped'
    BY <1>1, <1>3, <1>5, <2>1, <2>2 DEF LTyped, Insert
  <2>5. /\ \A a \in Addresses : a # ip => chain'[a] = chain[a]
        /\ chain'[ip] = <<rule>> \o chain[ip]
    BY <1>1, <1>3, <1>5 DEF LTyped
  <2>6. KindsOf(ip)' = KindsOf(ip) \union {Head(rest)}
    <3>1. {chain'[ip][i].kind : i \in DOMAIN chain'[ip]}
            = {chain[ip][i].kind : i \in DOMAIN chain[ip]} \union {rule.kind}
      <4> HIDE DEF rule
      <4>1. {(<<rule>> \o chain[ip])[i].kind : i \in DOMAIN (<<rule>> \o chain[ip])}
              = {chain[ip][i].kind : i \in DOMAIN chain[ip]} \union {rule.kind}
        BY <1>3, <2>1, InFront
      <4> QED
        BY <2>5, <4>1
    <3> QED
      BY <3>1 DEF KindsOf
  <2>7. \A a \in Addresses : KindsOf(a) \subseteq KindsOf(a)'
    <3> SUFFICES ASSUME NEW a \in Addresses, a # ip PROVE KindsOf(a)' = KindsOf(a)
      BY <2>6
    <3> QED
      BY <2>5 DEF KindsOf
  <2>8. TodoInv'
    <3>1. label = "insert" => Tail(rest) \in Rests
      BY RestShrinks
    <3>2. label \in {"insert", "up"}
      OBVIOUS
    <3> HIDE DEF label
    <3> SUFFICES ASSUME NEW e \in Daemons
                 PROVE  (/\ Of(e).pc \in {"check", "insert", "up", "delete"} =>
                              Of(e).ip \in Addresses
                         /\ Of(e).pc = "insert" => Of(e).todo \in Rests
                         /\ Of(e).pc = "delete" =>
                              Of(e).todo \in Seq(Tag(Of(e).ip)) /\ Of(e).todo # <<>>)'
      BY DEF TodoInv
    <3>3. CASE e = d
      BY <2>2, <2>3, <3>1, <3>2, <3>3 DEF Of
    <3>4. CASE e # d
      BY <1>1, <2>3, <3>4 DEF TodoInv, Of
    <3> QED
      BY <3>3, <3>4
  <2>9. RulesInv'
    <3> SUFFICES ASSUME NEW e \in Daemons, Of(e)'.excuse = "none"
                 PROVE  (/\ Of(e).pc = "up" => Has(e, {})
                         /\ Of(e).pc = "insert" => Has(e, ToSet(Of(e).todo)))'
      BY DEF RulesInv
    <3>1. CASE e # d
      <4>1. Of(e)' = Of(e)
        BY <2>3, <3>1 DEF Of
      <4> QED
        BY <1>1, <2>7, <4>1 DEF RulesInv, Has, TodoInv
    <3>2. CASE e = d
      <4>1. Of(d)' = changed
        BY <2>3 DEF Of
      <4>2. \A kind \in KindSet : kind \in KindsOf(ip) \/ kind \in ToSet(rest)
        BY <1>1, <1>3, <2>2, <3>2, <4>1 DEF RulesInv, Has
      <4>3. \A kind \in KindSet : kind \in KindsOf(ip)' \/ kind \in ToSet(Tail(rest))
        BY <1>3, <2>6, <4>2, RestShrinks
      <4>4. Len(rest) = 1 => ToSet(Tail(rest)) = {}
        BY <1>3, RestShrinks
      <4> QED
        <5>1. /\ label = "up" => Has(d, {})'
              /\ label = "insert" =>
                   \A kind \in KindSet : kind \in KindsOf(ip)' \/ kind \in ToSet(Tail(rest))
          BY <2>2, <4>1, <4>3, <4>4 DEF Has
        <5> QED
          BY <2>2, <3>2, <4>1, <5>1 DEF Has
    <3> QED
      BY <3>1, <3>2
  <2> QED
    BY <2>4, <2>8, <2>9 DEF LInv
<1> QED
  BY <1>3, <1>4, <1>5 DEF Insert, Set

\* An excuse changes nothing but the excuse.
LEMMA ExcusedTyped ==
  ASSUME LTyped, NEW ip, NEW why \in {"killed", "robbed"}
  PROVE  Excused(ip, why) \in [Daemons -> Work]
<1>1. ASSUME NEW e \in Daemons PROVE Excused(ip, why)[e] \in Work
  <2>1. Of(e) \in Work
    BY DEF LTyped, Of
  <2> QED
    BY <2>1 DEF Excused, Work
<1> QED
  BY <1>1 DEF Excused

\* When the rules of one address go and whoever relied on them is excused, the
\* others have theirs.
LEMMA RobbedKeeps ==
  ASSUME LInv, NEW ip \in Addresses, NEW left \in Seq(Rule), NEW why \in {"killed", "robbed"},
         chain' = [chain EXCEPT ![ip] = left], UNCHANGED <<lease, watches>>,
         killing' \subseteq Addresses,
         NEW D \in SUBSET Daemons, daemon' \in [Daemons -> Work],
         \A e \in Daemons \ D : daemon'[e] = Excused(ip, why)[e],
         \A e \in D : /\ daemon'[e].pc \in {"delete", "off"}
                      /\ daemon'[e].pc = "delete" =>
                           /\ daemon'[e].ip \in Addresses /\ daemon'[e].todo # <<>>
                           /\ daemon'[e].todo \in Seq(Tag(daemon'[e].ip))
  PROVE  LInv'
<1>1. LTyped /\ TodoInv /\ RulesInv
  BY DEF LInv
<1>2. LTyped'
  BY <1>1 DEF LTyped
<1>3. ASSUME NEW e \in Daemons \ D
      PROVE  /\ daemon'[e].pc = Of(e).pc /\ daemon'[e].ip = Of(e).ip /\ daemon'[e].todo = Of(e).todo
             /\ daemon'[e].excuse = Of(e).excuse \/ daemon'[e].excuse = why
             /\ Of(e).ip = ip /\ Of(e).pc \in {"insert", "up"} => daemon'[e].excuse = why
  <2>1. Of(e) \in Work
    BY <1>1 DEF LTyped, Of
  <2> QED
    BY <2>1 DEF Excused, Work
<1>4. TodoInv'
  BY <1>1, <1>3 DEF TodoInv, Of
<1>5. \A a \in Addresses : a # ip => chain'[a] = chain[a]
  BY <1>1 DEF LTyped
<1>6. RulesInv'
  <2> SUFFICES ASSUME NEW e \in Daemons, daemon'[e].excuse = "none",
                      daemon'[e].pc \in {"up", "insert"}
               PROVE  (/\ Of(e).pc = "up" => Has(e, {})
                       /\ Of(e).pc = "insert" => Has(e, ToSet(Of(e).todo)))'
    BY DEF RulesInv, Of
  <2>1. e \notin D
    OBVIOUS
  <2>2. Of(e).ip # ip /\ Of(e).ip \in Addresses /\ Of(e).excuse = "none"
    BY <1>1, <1>3, <2>1 DEF TodoInv
  <2>3. KindsOf(Of(e).ip)' = KindsOf(Of(e).ip)
    BY <1>3, <1>5, <2>1, <2>2 DEF KindsOf, Of
  <2> QED
    BY <1>1, <1>3, <2>1, <2>2, <2>3 DEF RulesInv, Has, Of
<1> QED
  BY <1>2, <1>4, <1>6 DEF LInv

\* The rules of a killed container's address go at once.
LEMMA KillRulesKeeps == ASSUME NEW ip \in Addresses, LInv, KillRules(ip) PROVE LInv'
<1>1. LTyped
  BY DEF LInv
<1>2. <<>> \in Seq(Rule)
  OBVIOUS
<1>3. /\ chain' = [chain EXCEPT ![ip] = <<>>] /\ UNCHANGED <<lease, watches>>
      /\ daemon' = Excused(ip, "killed") /\ killing' \subseteq Addresses
  BY <1>1 DEF KillRules, LTyped
<1>4. daemon' \in [Daemons -> Work]
  BY <1>1, <1>3, ExcusedTyped
<1>5. \A e \in Daemons \ {} : daemon'[e] = Excused(ip, "killed")[e]
  BY <1>3
<1> DEFINE none == {}
<1>6. none \in SUBSET Daemons /\ \A e \in Daemons \ none : daemon'[e] = Excused(ip, "killed")[e]
  BY <1>5
<1>7. \A e \in none : /\ daemon'[e].pc \in {"delete", "off"}
                      /\ daemon'[e].pc = "delete" =>
                           /\ daemon'[e].ip \in Addresses /\ daemon'[e].todo # <<>>
                           /\ daemon'[e].todo \in Seq(Tag(daemon'[e].ip))
  OBVIOUS
<1>8. "killed" \in {"killed", "robbed"}
  OBVIOUS
<1> HIDE DEF none
<1> QED
  BY <1>2, <1>3, <1>4, <1>6, <1>7, <1>8, RobbedKeeps

\* What is left of a list of rules to delete.
LEMMA Shorter ==
  ASSUME NEW S, NEW s \in Seq(S), s # <<>>
  PROVE  Tail(s) \in Seq(S) /\ (Len(s) # 1 => Tail(s) # <<>>)
<1>1. Len(s) \in Nat /\ Len(s) > 0
  OBVIOUS
<1>2. Tail(s) \in Seq(S) /\ Len(Tail(s)) = Len(s) - 1
  BY <1>1
<1>3. Len(<<>>) = 0
  OBVIOUS
<1> DEFINE rest == Tail(s)
<1>4. rest \in Seq(S) /\ Len(rest) = Len(s) - 1
  BY <1>2
<1> HIDE DEF rest
<1>5. Len(s) # 1 => rest # <<>>
  BY <1>1, <1>3, <1>4
<1> QED
  BY <1>2, <1>5 DEF rest

\* A delete by handle touches the chain of the daemon's own address only.
LEMMA DeleteKeeps == ASSUME NEW d \in Daemons, LInv, Delete(d) PROVE LInv'
<1> DEFINE ip == Of(d).ip
           todo == Of(d).todo
           at == Head(todo).ip
           rule == Head(todo).rule
           shorter == [Of(d) EXCEPT !.todo = Tail(@)]
           done == IF Len(todo) = 1 THEN Ended ELSE shorter
           left == Pick(chain[at], {i \in DOMAIN chain[at] : chain[at][i] # rule})
<1>1. LTyped /\ TodoInv
  BY DEF LInv
<1>2. Of(d) \in Work /\ ip \in Addresses /\ todo \in Seq(Tag(ip)) /\ todo # <<>>
      /\ Of(d).pc = "delete"
  BY <1>1 DEF LTyped, TodoInv, Of, Delete
<1>3. Head(todo) \in Tag(ip)
  BY <1>2
<1>4. at = ip
  BY <1>3 DEF Tag
<1>5. CASE UNCHANGED chain /\ Set(d, Ended)
  BY <1>5, EndsKeeps DEF Delete
<1>6. CASE /\ chain' = [chain EXCEPT ![at] = left]
           /\ daemon' = [Excused(ip, "robbed") EXCEPT ![d] = done]
  <2>1. left \in Seq(Rule)
    <3>1. chain[at] \in Seq(Rule)
          /\ {i \in DOMAIN chain[at] : chain[at][i] # rule} \in SUBSET DOMAIN chain[at]
      BY <1>1, <1>2, <1>4 DEF LTyped
    <3> QED
      BY <3>1, PickHolds
  <2>2. Tail(todo) \in Seq(Tag(ip)) /\ (Len(todo) # 1 => Tail(todo) # <<>>)
    BY <1>2, Shorter
  <2>3. Tail(todo) \in Lists
    BY <1>2, <2>2 DEF Lists
  <2>4. shorter \in Work /\ shorter.pc = "delete" /\ shorter.ip = ip /\ shorter.todo = Tail(todo)
    BY <1>2, <2>3 DEF Work
  <2> HIDE DEF shorter
  <2>5. done \in Work /\ done.pc \in {"delete", "off"}
        /\ (done.pc = "delete" => /\ done.ip \in Addresses /\ done.todo # <<>>
                                  /\ done.todo \in Seq(Tag(done.ip)))
    BY <1>2, <2>2, <2>4, EndedTyped
  <2> HIDE DEF done, left
  <2>6. Excused(ip, "robbed") \in [Daemons -> Work]
    BY <1>1, ExcusedTyped
  <2>7. daemon' \in [Daemons -> Work] /\ daemon'[d] = done
        /\ \A e \in Daemons \ {d} : daemon'[e] = Excused(ip, "robbed")[e]
    BY <1>6, <2>5, <2>6
  <2> DEFINE alone == {d}
  <2>8. alone \in SUBSET Daemons
        /\ \A e \in Daemons \ alone : daemon'[e] = Excused(ip, "robbed")[e]
    BY <2>7
  <2>9. \A e \in alone : /\ daemon'[e].pc \in {"delete", "off"}
                         /\ daemon'[e].pc = "delete" =>
                              /\ daemon'[e].ip \in Addresses /\ daemon'[e].todo # <<>>
                              /\ daemon'[e].todo \in Seq(Tag(daemon'[e].ip))
    BY <2>5, <2>7
  <2>10. chain' = [chain EXCEPT ![ip] = left]
    BY <1>4, <1>6
  <2>11. UNCHANGED <<lease, watches>> /\ killing' \subseteq Addresses
    BY <1>1 DEF Delete, LTyped
  <2>12. daemon' \in [Daemons -> Work]
    BY <2>7
  <2> HIDE DEF alone
  <2>13. "robbed" \in {"killed", "robbed"}
    OBVIOUS
  <2> QED
    BY <1>2, <2>1, <2>8, <2>9, <2>10, <2>11, <2>12, <2>13, RobbedKeeps
<1> QED
  BY <1>5, <1>6 DEF Delete

\* The invariant of the rules.
LEMMA LInvariance == LSpec => []LInv
<1>1. ASSUME LInv, [LNext]_lvars PROVE LInv'
  <2>1. CASE UNCHANGED lvars
    BY <1>1, <2>1 DEF LInv, LTyped, TodoInv, RulesInv, Of, Has, KindsOf, lvars
  <2>2. CASE \E b \in Boxes : Boot(b) \/ Halt(b)
    BY <1>1, <2>2, BoxKeeps
  <2>3. CASE \E ip \in Addresses : KillRules(ip)
    BY <1>1, <2>3, KillRulesKeeps
  <2>4. ASSUME NEW d \in Daemons, Check(d) PROVE LInv'
    BY <1>1, <2>4, FoundKeeps, NotFoundKeeps DEF Check
  <2>5. ASSUME NEW d \in Daemons, Crash(d) PROVE LInv'
    BY <1>1, <2>5, EndsKeeps DEF Crash
  <2> QED
    BY <1>1, <2>1, <2>2, <2>3, <2>4, <2>5, StartKeeps, InsertKeeps, StopKeeps, DeleteKeeps DEF LNext
<1> QED
  BY <1>1, NobodyUp, PTL DEF LSpec

\* Type correctness of the leases, the LOG rules and the daemons.
THEOREM RulesTypeCorrect == LSpec => []LTypeOK
<1>1. ASSUME LInv PROVE LTypeOK
  <2>1. LTyped
    BY <1>1 DEF LInv
  <2>2. \A ip \in Addresses : ToSet(chain[ip]) \subseteq [kind: ToSet(Kinds), by: Daemons]
    <3> SUFFICES ASSUME NEW ip \in Addresses, NEW i \in DOMAIN chain[ip]
                 PROVE  chain[ip][i] \in [kind: ToSet(Kinds), by: Daemons]
      BY DEF ToSet
    <3>1. chain[ip] \in Seq(Rule)
      BY <2>1 DEF LTyped
    <3>2. chain[ip][i] \in Rule
      BY <3>1
    <3> QED
      BY <3>2, KindsAll DEF Rule
  <2>3. \A d \in Daemons : Of(d) \in Work
    BY <2>1 DEF LTyped, Of
  <2> QED
    BY <2>1, <2>2, <2>3 DEF LTypeOK, LTyped, Work
<1> QED
  BY <1>1, LInvariance, PTL

\* NothingMissed: for any number of daemons, containers and addresses, whose texts may be part
\* of each other, a daemon that is up without an excuse hears and judges every alarming packet.
THEOREM NothingEverMissed == LSpec => []NothingMissed
<1>1. ASSUME LInv PROVE NothingMissed
  <2> SUFFICES ASSUME NEW d \in Daemons, Of(d).pc = "up", Of(d).excuse = "none",
                      NEW target \in Alarming
               PROVE  Verdict(d, target) \in {"high", "critical"}
    BY DEF NothingMissed
  <2>1. Has(d, {})
    BY <1>1 DEF LInv, RulesInv
  <2>2. {"private", "ports"} \subseteq KindsOf(Of(d).ip) \ {"all"}
    BY <2>1 DEF Has, KindSet
  <2>3. \E kind \in {"private", "ports"} : Logs(kind, target)
    BY DEF Logs, Alarming
  <2>4. Heard(d, target)
    BY <2>2, <2>3 DEF Heard
  <2>5. Analyze(target) \in {"high", "critical"}
    BY DEF Analyze, Alarming
  <2> QED
    BY <2>4, <2>5 DEF Verdict
<1> QED
  BY <1>1, LInvariance, PTL

-----------------------------------------------------------------------------
(* The log: LogTail *)


\* The file ends where the writing is; it begins between two lines.
FileInv ==
  /\ file.start + file.size = written
  /\ file.inode = 0 => file.size = 0
  /\ file.start % 2 = 0

\* The offset is the end of a line, and of one already written; when the file
\* is no longer the one it is about, of one before the file.
OffsetInv ==
  /\ held.offset % 2 = 0
  /\ held.from + held.offset <= written
  /\ held.from # file.start => held.from + held.offset <= file.start
  /\ held.of = held.inode

\* The lines reported so far; line l ends at 2 * l.
Known == {l \in 1..MaxLines : reported[l] > 0}

\* Nothing beyond the offset has been reported; nothing at all of the file, if
\* its inode is not the one held, so that it is about to be read from its start.
BeyondInv ==
  "repeat" \notin waived =>
    /\ \A l \in Known : 2 * l <= held.from + held.offset
    /\ held.from = file.start /\ held.inode \notin {0, file.inode} =>
         \A l \in Known : 2 * l <= file.start

OnceInv == "repeat" \notin waived => \A l \in 1..MaxLines : reported[l] <= 1

\* Everything of the file before the offset has been reported.
BeforeInv ==
  "unseen" \notin waived /\ held.from = file.start =>
    \A i \in 1..held.offset : i % 2 = 0 => reported[(file.start + i) \div 2] > 0

Typed == TTypeOK /\ reported \in [1..MaxLines -> Nat]

LinesInv == FileInv /\ OffsetInv /\ BeyondInv /\ OnceInv /\ BeforeInv
TInv == Typed /\ LinesInv

\* Nothing has been read yet.
LEMMA FirstLines == TInit => TInv
<1> SUFFICES ASSUME TInit PROVE TInv
  OBVIOUS
<1> USE LogTailAssumption DEF LogTailAssumption, TInit
<1>1. reported \in [1..MaxLines -> Nat] /\ Known = {}
  BY DEF Known
<1>2. TTypeOK
  BY DEF TTypeOK
<1>3. FileInv /\ OffsetInv
  BY DEF FileInv, OffsetInv
<1>4. BeyondInv /\ OnceInv /\ BeforeInv
  BY <1>1 DEF BeyondInv, OnceInv, BeforeInv
<1> QED
  BY <1>1, <1>2, <1>3, <1>4 DEF TInv, LinesInv, Typed

\* Where a read ends: the last even position of the file, which is the end of a line.
LEMMA Greatest ==
  ASSUME NEW first \in Nat, first % 2 = 0, first <= file.size, file.size \in Nat
  PROVE  LET final == IF file.size % 2 = 0 THEN file.size ELSE file.size - 1
         IN  LastNL(first) = final /\ final % 2 = 0 /\ final >= first
<1> DEFINE ends == {first} \union {i \in first..file.size : i % 2 = 0}
           final == IF file.size % 2 = 0 THEN file.size ELSE file.size - 1
<1>1. final % 2 = 0 /\ final >= first /\ final \in Int
  OBVIOUS
<1>2. final \in ends
  BY <1>1
<1>3. \A i \in ends : i \in Int /\ i <= final
  OBVIOUS
<1>4. LastNL(first) = Max(ends)
  BY DEF LastNL
<1>5. \A x \in ends : (\A y \in ends : x >= y) => x = final
  BY <1>1, <1>2, <1>3
<1>6. \A y \in ends : final >= y
  BY <1>1, <1>3
<1> HIDE DEF ends, final
<1>7. Max(ends) = final
  BY <1>2, <1>5, <1>6 DEF Max
<1> QED
  BY <1>1, <1>4, <1>7 DEF final

\* Line l ends at position 2 * l.
LEMMA LineEnds ==
  ASSUME NEW start \in Nat, start % 2 = 0, NEW i \in Nat, i % 2 = 0
  PROVE  2 * ((start + i) \div 2) = start + i /\ (start + i) \div 2 \in Nat
OBVIOUS

\* The log was rotated away, created or truncated: the file now begins where the writing is,
\* behind everything that has been read.
LEMMA NewFileKeeps ==
  ASSUME TInv, UNCHANGED <<written, held, reported, waived>>, written % 2 = 0,
         NEW new, file' = [inode |-> new, start |-> written, size |-> 0]
  PROVE  LinesInv'
<1> USE LogTailAssumption DEF LogTailAssumption
<1>1. TTypeOK /\ FileInv /\ OffsetInv /\ BeyondInv /\ OnceInv
  BY DEF TInv, LinesInv, Typed
<1>2. FileInv'
  BY <1>1 DEF FileInv, TTypeOK
<1>3. OffsetInv'
  BY <1>1 DEF OffsetInv, TTypeOK
<1>4. Known' = Known /\ \A l \in Known : l \in Nat
  BY DEF Known
<1>5. BeyondInv'
  <2> SUFFICES ASSUME "repeat" \notin waived
               PROVE  \A l \in Known : 2 * l <= held.from + held.offset /\ 2 * l <= written
    BY <1>4 DEF BeyondInv
  <2> QED
    BY <1>1, <1>4 DEF BeyondInv, OffsetInv, TTypeOK
<1>6. OnceInv'
  BY <1>1 DEF OnceInv
<1>7. BeforeInv'
  <2> SUFFICES ASSUME held.from = written PROVE held.offset = 0
    BY <1>1 DEF BeforeInv, TTypeOK
  <2> QED
    BY <1>1 DEF OffsetInv, TTypeOK
<1> QED
  BY <1>2, <1>3, <1>5, <1>6, <1>7 DEF LinesInv

\* Half a line more.
LEMMA LongerKeeps ==
  ASSUME TInv, UNCHANGED <<held, reported, waived>>, file.inode # 0,
         written' = written + 1, file' = [file EXCEPT !.size = @ + 1]
  PROVE  LinesInv'
<1>1. TTypeOK /\ FileInv /\ OffsetInv /\ BeyondInv /\ OnceInv /\ BeforeInv
  BY DEF TInv, LinesInv, Typed
<1>2. file'.start = file.start /\ file'.inode = file.inode /\ file'.size = file.size + 1
  BY <1>1 DEF TTypeOK
<1>3. FileInv'
  BY <1>1, <1>2 DEF FileInv, TTypeOK
<1>4. OffsetInv'
  BY <1>1, <1>2 DEF OffsetInv, TTypeOK
<1>5. Known' = Known
  BY DEF Known
<1>6. BeyondInv' /\ OnceInv' /\ BeforeInv'
  BY <1>1, <1>2, <1>5 DEF BeyondInv, OnceInv, BeforeInv
<1> QED
  BY <1>3, <1>4, <1>6 DEF LinesInv

\* A step that touches neither the log nor what was read of it.
LEMMA SameLines ==
  ASSUME TInv, UNCHANGED <<written, file, held, reported, waived>>
  PROVE  LinesInv'
BY DEF TInv, LinesInv, FileInv, OffsetInv, BeyondInv, OnceInv, BeforeInv, Known

\* What a read does, host's or pulled.
Reads(first, pulled) ==
  /\ file.inode # 0
  /\ first = IF pulled THEN PullBase ELSE HostBase
  /\ Read(first, IF pulled THEN PullInode ELSE file.inode, pulled)

\* A read begins at the end of a line, and not beyond the file.
LEMMA BaseFits ==
  ASSUME TInv, NEW first, NEW pulled \in BOOLEAN, Reads(first, pulled)
  PROVE  /\ first \in {0, held.offset} /\ first \in Nat /\ first % 2 = 0 /\ first <= file.size
         /\ file.size \in Nat /\ file.start \in Nat /\ written \in Nat
<1>1. TTypeOK /\ FileInv /\ OffsetInv
  BY DEF TInv, LinesInv, Typed
<1>2. held.offset \in Nat /\ file.size \in Nat /\ file.start \in Nat /\ written \in Nat
  BY <1>1, LogTailAssumption DEF TTypeOK, LogTailAssumption
<1> QED
  BY <1>1, <1>2 DEF Reads, PullBase, HostBase, OffsetInv

\* The lines a read reports end behind its base and within the file; every such line is one.
LEMMA InComplete ==
  ASSUME NEW first \in Nat, first % 2 = 0, file.size \in Nat, file.start \in Nat,
         file.start % 2 = 0, NEW l
  PROVE  /\ l \in Complete(first) =>
              l \in Nat /\ file.start + first < 2 * l /\ 2 * l <= file.start + file.size
         /\ \A i \in (first + 2)..file.size :
              i % 2 = 0 => (file.start + i) \div 2 \in Complete(first)
<1>1. ASSUME l \in Complete(first)
      PROVE  l \in Nat /\ file.start + first < 2 * l /\ 2 * l <= file.start + file.size
  <2>1. PICK j \in (first + 2)..file.size : j % 2 = 0 /\ l = (file.start + j) \div 2
    BY <1>1 DEF Complete
  <2>2. 2 * l = file.start + j /\ l \in Nat
    BY <2>1, LineEnds
  <2> QED
    BY <2>1, <2>2
<1>2. \A i \in (first + 2)..file.size :
        i % 2 = 0 => (file.start + i) \div 2 \in Complete(first)
  BY DEF Complete
<1> QED
  BY <1>1, <1>2

\* Whether a read starts anew in the file it is about, or in another.
LEMMA NewLines ==
  ASSUME TInv, NEW first, NEW pulled \in BOOLEAN, Reads(first, pulled), "repeat" \notin waived,
         NEW l \in Known
  PROVE  2 * l <= file.start + first
<1>1. TTypeOK /\ FileInv /\ OffsetInv /\ BeyondInv
  BY DEF TInv, LinesInv, Typed
<1>2. /\ held.offset \in Nat /\ held.from \in Nat /\ file.size \in Nat /\ file.start \in Nat
      /\ l \in Nat /\ written \in Nat /\ first \in {0, held.offset}
  BY <1>1, BaseFits, LogTailAssumption DEF TTypeOK, LogTailAssumption, Known
<1>3. 2 * l <= held.from + held.offset
  BY <1>1 DEF BeyondInv
<1>4. CASE held.from # file.start
  BY <1>1, <1>2, <1>3, <1>4 DEF OffsetInv
<1>5. CASE held.from = file.start /\ first = held.offset
  BY <1>2, <1>3, <1>5
<1>6. CASE held.from = file.start /\ first # held.offset
  <2>1. held.offset <= file.size
    BY <1>1, <1>2, <1>6 DEF FileInv, OffsetInv
  <2>2. held.inode \notin {0, file.inode}
    BY <1>2, <1>6, <2>1 DEF Reads, PullBase, HostBase
  <2> QED
    BY <1>1, <1>2, <1>6, <2>2 DEF BeyondInv
<1> QED
  BY <1>4, <1>5, <1>6

\* A read, on the host or pulled: it reports what lies between its base and the last newline.
LEMMA ReadKeeps ==
  ASSUME TInv, NEW first, NEW pulled \in BOOLEAN, Reads(first, pulled),
         UNCHANGED <<written, file, inodes>>
  PROVE  LinesInv' /\ reported' \in [1..MaxLines -> Nat]
<1> DEFINE final == IF file.size % 2 = 0 THEN file.size ELSE file.size - 1
           inode == IF pulled THEN PullInode ELSE file.inode
<1>1. TTypeOK /\ FileInv /\ OffsetInv /\ BeyondInv /\ OnceInv /\ BeforeInv
      /\ reported \in [1..MaxLines -> Nat]
  BY DEF TInv, LinesInv, Typed
<1>2. /\ held.offset \in Nat /\ held.from \in Nat /\ file.size \in Nat /\ file.start \in Nat
      /\ written \in Nat /\ first \in Nat /\ first % 2 = 0 /\ first <= file.size
      /\ first \in {0, held.offset} /\ file.start % 2 = 0
  BY <1>1, BaseFits, LogTailAssumption DEF TTypeOK, LogTailAssumption, FileInv
<1>3. LastNL(first) = final /\ final % 2 = 0 /\ final >= first /\ final <= file.size
      /\ final \in Nat /\ file.size <= final + 1
  BY <1>2, Greatest
<1>4. first \in Nat /\ file.size \in Nat /\ file.start \in Nat /\ final \in Nat /\ written \in Nat
  BY <1>2, <1>3
<1>5. first % 2 = 0 /\ final % 2 = 0 /\ file.start % 2 = 0
  BY <1>2, <1>3
<1>6. /\ held'.offset = final /\ held'.from = file.start /\ held'.inode = inode
      /\ held'.of = IF pulled THEN held.of ELSE file.inode
      /\ reported' = [l \in 1..MaxLines |-> reported[l] + (IF l \in Complete(first) THEN 1 ELSE 0)]
  BY <1>3 DEF Reads, Read
<1>7. reported' \in [1..MaxLines -> Nat]
  BY <1>1, <1>6
<1>8. Known' = Known \union (Complete(first) \cap (1..MaxLines)) /\ \A l \in Known' : l \in Nat
  BY <1>1, <1>6 DEF Known
<1>9. "repeat" \notin waived' => "repeat" \notin waived
  BY DEF Reads, Read
<1>10. "unseen" \notin waived' => "unseen" \notin waived /\ ~Disguised(pulled)
  BY DEF Reads, Read
<1> HIDE DEF final
<1>11. FileInv'
  BY <1>1 DEF FileInv
<1>12. OffsetInv'
  <2>1. held'.of = held'.inode
    BY <1>1, <1>6 DEF OffsetInv, PullInode
  <2>2. file.start + final <= written
    BY <1>1, <1>2, <1>3 DEF FileInv
  <2> QED
    BY <1>3, <1>6, <2>1, <2>2 DEF OffsetInv
<1>13. BeyondInv'
  <2> SUFFICES ASSUME "repeat" \notin waived'
               PROVE  /\ \A l \in Known' : 2 * l <= file.start + final
                      /\ inode \notin {0, file.inode} => \A l \in Known' : 2 * l <= file.start
    BY <1>6 DEF BeyondInv
  <2>1. \A l \in Known : 2 * l <= file.start + first
    BY <1>9, NewLines
  <2>2. \A l \in Complete(first) : l \in Nat /\ 2 * l <= file.start + final
    <3> SUFFICES ASSUME NEW l \in Complete(first) PROVE l \in Nat /\ 2 * l <= file.start + final
      OBVIOUS
    <3>1. PICK j \in (first + 2)..file.size : j % 2 = 0 /\ l = (file.start + j) \div 2
      BY DEF Complete
    <3>2. j \in Nat
      BY <1>4, <3>1
    <3>3. 2 * l = file.start + j /\ l \in Nat
      BY <1>4, <1>5, <3>1, <3>2, LineEnds
    <3>4. j <= final
      BY <1>2, <3>1 DEF final
    <3> QED
      BY <1>4, <3>2, <3>3, <3>4
  <2>3. \A l \in Known' : 2 * l <= file.start + final
    BY <1>2, <1>3, <1>8, <2>1, <2>2
  <2>4. ASSUME inode \notin {0, file.inode}, NEW l \in Known'
        PROVE  2 * l <= file.start
    <3>1. pulled /\ held.inode \notin {0, file.inode}
      BY <2>4 DEF PullInode
    <3>2. Complete(first) = {}
      BY <3>1 DEF Reads, Read
    <3>3. l \in Known
      BY <1>8, <2>4, <3>2
    <3>4. CASE held.from = file.start
      BY <1>1, <1>9, <3>1, <3>3, <3>4 DEF BeyondInv
    <3>5. CASE held.from # file.start
      <4>1. held.from + held.offset <= file.start
        BY <1>1, <3>5 DEF OffsetInv
      <4>2. 2 * l <= held.from + held.offset
        BY <1>1, <1>9, <3>3 DEF BeyondInv
      <4> QED
        BY <1>2, <1>8, <4>1, <4>2
    <3> QED
      BY <3>4, <3>5
  <2> QED
    BY <2>3, <2>4
<1>14. OnceInv'
  <2> SUFFICES ASSUME "repeat" \notin waived', NEW l \in 1..MaxLines PROVE reported'[l] <= 1
    BY DEF OnceInv
  <2>1. CASE l \in Complete(first)
    <3>1. file.start + first < 2 * l
      BY <1>2, <2>1, InComplete
    <3>2. l \notin Known
      BY <1>2, <1>9, <3>1, NewLines
    <3>3. reported[l] = 0
      BY <1>1, <3>2 DEF Known
    <3> QED
      BY <1>6, <2>1, <3>3
  <2>2. CASE l \notin Complete(first)
    BY <1>1, <1>6, <1>9, <2>2 DEF OnceInv
  <2> QED
    BY <2>1, <2>2
<1>15. BeforeInv'
  <2> SUFFICES ASSUME "unseen" \notin waived', NEW i \in 1..final, i % 2 = 0
               PROVE  reported'[(file.start + i) \div 2] > 0
    BY <1>6 DEF BeforeInv
  <2> DEFINE l == (file.start + i) \div 2
  <2>1. 2 * l = file.start + i /\ l \in Nat
    BY <1>2, <1>3, LineEnds
  <2>2. l \in 1..MaxLines
    <3>1. written <= 2 * MaxLines /\ MaxLines \in Nat
      BY <1>1, LogTailAssumption DEF TTypeOK, LogTailAssumption
    <3>2. file.start + file.size = written
      BY <1>1 DEF FileInv
    <3>3. file.start + i <= written /\ i > 0 /\ i \in Nat
      BY <1>2, <1>3, <3>2
    <3> QED
      BY <1>2, <2>1, <3>1, <3>3
  <2> HIDE DEF l
  <2>3. CASE i > first
    <3>1. i >= first + 2
      BY <1>4, <1>5, <2>3
    <3>2. i \in (first + 2)..file.size
      BY <1>3, <1>4, <3>1
    <3>3. l \in Complete(first)
      BY <1>2, <3>2, InComplete DEF l
    <3> QED
      BY <1>1, <1>6, <2>2, <3>3 DEF l
  <2>4. CASE i <= first
    <3>1. first = held.offset /\ held.offset > 0 /\ i \in 1..held.offset
      BY <1>2, <1>3, <2>4
    <3>2. pulled \/ held.of \in {0, file.inode}
      BY <1>1, <3>1 DEF Reads, HostBase, OffsetInv
    <3>3. held.from = file.start
      BY <1>2, <1>10, <3>1, <3>2 DEF Disguised
    <3>4. reported[l] > 0
      BY <1>1, <1>10, <3>1, <3>3 DEF BeforeInv, l
    <3> QED
      BY <1>1, <1>6, <2>2, <3>4 DEF l
  <2> QED
    BY <1>2, <1>3, <2>3, <2>4
<1> QED
  BY <1>7, <1>11, <1>12, <1>13, <1>14, <1>15 DEF LinesInv

\* What is in the way of a read, what it finds and what it remembers.
LEMMA PollReads ==
  ASSUME NEW known, Poll(known)
  PROVE  \/ UNCHANGED <<held, reported, waived>>
         \/ \E pulled \in BOOLEAN : \E first : Reads(first, pulled)
<1>1. CASE file.inode # 0 /\ Read(HostBase, file.inode, FALSE)
  BY <1>1 DEF Reads
<1>2. CASE file.inode # 0 /\ Read(PullBase, PullInode, TRUE)
  BY <1>2 DEF Reads
<1> QED
  BY <1>1, <1>2 DEF Poll, eyes

\* Every step is one of the log's or one of the watcher's.
LEMMA TailSteps ==
  ASSUME TInv, TNext
  PROVE  \/ /\ UNCHANGED <<written, held, reported, waived>>
            /\ written % 2 = 0
            /\ \E new \in 0..MaxInodes : file' = [inode |-> new, start |-> written, size |-> 0]
         \/ /\ UNCHANGED <<held, reported, waived>> /\ file.inode # 0
            /\ written' = written + 1 /\ file' = [file EXCEPT !.size = @ + 1]
         \/ UNCHANGED <<written, file, inodes, held, reported, waived>>
         \/ /\ UNCHANGED <<written, file, inodes>>
            /\ \E pulled \in BOOLEAN : \E first : Reads(first, pulled)
<1>1. FileInv /\ TTypeOK
  BY DEF TInv, LinesInv, Typed
<1>2. CASE Write
  BY <1>2 DEF Write, others
<1>3. CASE Rotate
  BY <1>3, LogTailAssumption DEF Rotate, others, LogTailAssumption
<1>4. CASE Create
  <2>1. file.inode = 0 /\ UNCHANGED <<written, held, reported, waived>>
    BY <1>4 DEF Create, others
  <2>2. \E new \in 0..MaxInodes : file' = [inode |-> new, start |-> written, size |-> 0]
    BY <1>1, <1>4, LogTailAssumption DEF Create, TTypeOK, LogTailAssumption
  <2>3. written % 2 = 0
    <3>1. file.start + 0 = written /\ file.start \in Nat
      BY <1>1, <2>1, LogTailAssumption DEF FileInv, TTypeOK, LogTailAssumption
    <3>2. file.start = written
      BY <3>1
    <3> QED
      BY <1>1, <3>2 DEF FileInv
  <2> QED
    BY <2>1, <2>2, <2>3
<1>5. CASE Truncate
  BY <1>1, <1>5 DEF Truncate, others, TTypeOK
<1>6. CASE NewPid \/ Hide \/ Die
  BY <1>6 DEF NewPid, Hide, Die, world, eyes
<1>7. CASE Begin
  BY <1>7, PollReads DEF Begin, world, eyes
<1>8. CASE Event
  BY <1>8, PollReads DEF Event, Handle, world, eyes
<1>9. CASE Backstop
  BY <1>9, PollReads DEF Backstop, world
<1>10. CASE Tick
  BY <1>10, PollReads DEF Tick, world
<1> QED
  BY <1>2, <1>3, <1>4, <1>5, <1>6, <1>7, <1>8, <1>9, <1>10 DEF TNext

\* Every step keeps what was reported in order.
LEMMA LinesStep == TInv /\ TNext => LinesInv'
<1> SUFFICES ASSUME TInv, TNext PROVE LinesInv'
  OBVIOUS
<1>1. ASSUME NEW pulled \in BOOLEAN, NEW first, Reads(first, pulled),
             UNCHANGED <<written, file, inodes>>
      PROVE  LinesInv'
  BY <1>1, ReadKeeps
<1> QED
  BY <1>1, TailSteps, NewFileKeeps, LongerKeeps, SameLines

\* Type correctness has a part of its own for what decides when to read.
LEMMA TypedStep == TInv /\ TNext => Typed'
<1> SUFFICES ASSUME TInv, TNext PROVE Typed'
  OBVIOUS
<1> USE LogTailAssumption DEF LogTailAssumption
<1>1. TTypeOK /\ FileInv /\ OffsetInv /\ reported \in [1..MaxLines -> Nat]
  BY DEF TInv, LinesInv, Typed
<1>2. FileInv' /\ OffsetInv'
  BY LinesStep DEF LinesInv
<1>3. reported' \in [1..MaxLines -> Nat]
  BY <1>1, TailSteps, ReadKeeps
<1>4. written' \in 0..(2 * MaxLines) /\ inodes' \in 0..MaxInodes
  <2>1. written \in 0..(2 * MaxLines) /\ inodes \in 0..MaxInodes
    BY <1>1 DEF TTypeOK
  <2>2. CASE Write
    BY <2>1, <2>2 DEF Write
  <2>3. CASE Create
    BY <2>1, <2>3 DEF Create
  <2>4. CASE ~Write /\ ~Create
    <3>1. UNCHANGED <<written, inodes>>
      BY <2>4 DEF TNext, Rotate, Truncate, NewPid, Hide, Begin, Event, Backstop, Tick, Die, world
    <3> QED
      BY <2>1, <3>1
  <2> QED
    BY <2>2, <2>3, <2>4
<1>5. file' \in [inode: 0..MaxInodes, start: 0..(2 * MaxLines), size: 0..(2 * MaxLines)]
  <2>1. CASE \E new \in 0..MaxInodes : file' = [inode |-> new, start |-> written, size |-> 0]
    BY <1>1, <2>1 DEF TTypeOK
  <2>2. CASE file' = [file EXCEPT !.size = @ + 1]
    <3>1. file'.start + file'.size = written' /\ file'.size = file.size + 1
      BY <1>1, <1>2, <2>2 DEF FileInv, TTypeOK
    <3>2. file'.start = file.start /\ file.start \in Nat /\ file.size \in Nat
      BY <1>1, <2>2 DEF TTypeOK
    <3>3. file'.size \in 0..(2 * MaxLines)
      BY <1>4, <3>1, <3>2
    <3> QED
      BY <1>1, <2>2, <3>1, <3>3 DEF TTypeOK
  <2>3. CASE file' = file
    BY <1>1, <2>3 DEF TTypeOK
  <2> QED
    BY <2>1, <2>2, <2>3, TailSteps
<1>6. watcher' \in {"new", "inotify", "polling", "dead"}
  BY <1>1 DEF TTypeOK, TNext, Write, Rotate, Create, Truncate, NewPid, Hide, Begin, Event, Backstop,
    Tick, Die, others
<1>7. watch' \in [log: 0..MaxInodes, dir: BOOLEAN]
  <2> DEFINE Kind == [log: 0..MaxInodes, dir: BOOLEAN]
  <2>1. watch \in Kind /\ file.inode \in 0..MaxInodes
    BY <1>1 DEF TTypeOK
  <2>2. \A known : Watches(known) \in Kind
    BY <2>1 DEF Watches
  <2>3. ASSUME NEW known PROVE Merged(known) \in Kind
    <3>1. Watches(known).log \in 0..MaxInodes /\ Watches(known).dir \in BOOLEAN
      BY <2>2
    <3> QED
      BY <2>1, <3>1, Zenon DEF Merged
  <2>4. [watch EXCEPT !.log = 0] \in Kind /\ [log |-> 0, dir |-> FALSE] \in Kind
    BY <2>1
  <2>5. \/ watch' \in {watch, [watch EXCEPT !.log = 0], [log |-> 0, dir |-> FALSE]}
        \/ \E known : watch' \in {Watches(known), Merged(known)}
    BY DEF TNext, Write, Rotate, Create, Truncate, NewPid, Hide, Begin, Event, Handle, Backstop,
      Tick, Die, others
  <2> QED
    BY <2>1, <2>2, <2>3, <2>4, <2>5
<1>8. held' \in [offset: 0..(2 * MaxLines), inode: 0..MaxInodes, usingFallback: BOOLEAN,
                 from: 0..(2 * MaxLines), of: 0..MaxInodes]
  <2>1. CASE held' = held
    BY <1>1, <2>1 DEF TTypeOK
  <2>2. CASE UNCHANGED <<written, file, inodes>>
             /\ \E pulled \in BOOLEAN : \E first : Reads(first, pulled)
    <3>1. PICK pulled \in BOOLEAN : \E first : Reads(first, pulled)
      BY <2>2
    <3>2. PICK first : Reads(first, pulled)
      BY <3>1
    <3>3. /\ first \in Nat /\ first % 2 = 0 /\ first <= file.size /\ file.size \in 0..(2 * MaxLines)
      BY <1>1, <3>2, BaseFits DEF TTypeOK
    <3>4. LastNL(first) \in 0..(2 * MaxLines)
      BY <3>3, Greatest
    <3>5. held' = [offset |-> LastNL(first), inode |-> IF pulled THEN PullInode ELSE file.inode,
                   usingFallback |-> pulled, from |-> file.start,
                   of |-> IF pulled THEN held.of ELSE file.inode]
      BY <3>2 DEF Reads, Read
    <3> QED
      BY <1>1, <3>4, <3>5 DEF TTypeOK, PullInode
  <2> QED
    BY <2>1, <2>2, TailSteps
<1>9. waived' \subseteq {"repeat", "unseen"}
  <2>1. CASE waived' = waived
    BY <1>1, <2>1 DEF TTypeOK
  <2>2. CASE \E pulled \in BOOLEAN : \E first : Reads(first, pulled)
    BY <1>1, <2>2 DEF Reads, Read, TTypeOK
  <2> QED
    BY <2>1, <2>2, TailSteps
<1> QED
  BY <1>3, <1>4, <1>5, <1>6, <1>7, <1>8, <1>9 DEF Typed, TTypeOK

\* The invariant of the log and the watcher.
LEMMA TInvariance == TSpec => []TInv
<1>1. ASSUME TInv, [TNext]_tvars PROVE TInv'
  <2>1. CASE UNCHANGED tvars
    BY <1>1, <2>1 DEF TInv, LinesInv, FileInv, OffsetInv, BeyondInv, OnceInv, BeforeInv, Known,
      Typed, TTypeOK, tvars
  <2>2. CASE TNext
    BY <1>1, <2>2, LinesStep, TypedStep DEF TInv
  <2> QED
    BY <1>1, <2>1, <2>2
<1> QED
  BY <1>1, FirstLines, PTL DEF TSpec

\* Type correctness of the log and the watcher.
THEOREM LinesTypeCorrect == TSpec => []TTypeOK
<1>1. TInv => TTypeOK
  BY DEF TInv, Typed
<1> QED
  BY <1>1, TInvariance, PTL

\* EachLineOnce: for logs of any length, any number of rotations, truncations, restarts and
\* failures, no line is reported twice and none before the offset is left out.
THEOREM LinesToldOnce == TSpec => []EachLineOnce
<1>1. ASSUME TInv PROVE EachLineOnce
  <2>1. ASSUME "unseen" \notin waived, held.from = file.start,
               NEW i \in 1..Min({held.offset, file.size}), i % 2 = 0
        PROVE  reported[(file.start + i) \div 2] > 0
    <3>1. held.offset \in Nat /\ file.size \in Nat
      BY <1>1, LogTailAssumption DEF TInv, Typed, TTypeOK, LogTailAssumption
    <3>2. Min({held.offset, file.size}) <= held.offset
      <4>1. \E x \in {held.offset, file.size} : \A y \in {held.offset, file.size} : x <= y
        BY <3>1
      <4> QED
        BY <4>1 DEF Min
    <3>3. Min({held.offset, file.size}) \in {held.offset, file.size}
      <4>1. \E x \in {held.offset, file.size} : \A y \in {held.offset, file.size} : x <= y
        BY <3>1
      <4> QED
        BY <4>1 DEF Min
    <3>4. i \in 1..held.offset
      BY <3>1, <3>2, <3>3
    <3> QED
      BY <1>1, <2>1, <3>4 DEF TInv, LinesInv, BeforeInv
  <2> QED
    BY <1>1, <2>1 DEF EachLineOnce, TInv, LinesInv, OnceInv
<1> QED
  BY <1>1, TInvariance, PTL
=============================================================================
