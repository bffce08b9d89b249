------------------------ MODULE DispatchLedgerProofs ------------------------
(***************************************************************************)
(* Theorems about DispatchLedger for every set of tasks, terminals and     *)
(* gates, every bound on the dispatch rows and every family of calls.      *)
(***************************************************************************)
EXTENDS DispatchLedger, TLAPS

USE DispatchLedgerAssumption

-----------------------------------------------------------------------------
(***************************************************************************)
(* Type correctness.                                                       *)
(***************************************************************************)
\* A new row is typed: the statement of createDispatchContext and of
\* createStartingWorkerDispatch that inserts it keeps the columns in range.
LEMMA InsertRowType ==
  ASSUME TypeOK, NEW t \in Task, NEW s \in ActiveStatus,
         NEW term \in Terminal \cup {NoTerminal}, NEW n \in Nat,
         InsertRow(t, s, term, n)
  PROVE  /\ rows + 1 \in Row
         /\ rows' \in 0 .. MaxDispatches
         /\ rowTask' \in [Row -> Task \cup {NoTask}]
         /\ rowStatus' \in [Row -> DispatchStatus \cup {"absent"}]
         /\ assignee' \in [Row -> Terminal \cup {NoTerminal}]
         /\ failures' \in [Row -> Nat]
  BY DEF TypeOK, InsertRow, Row, DispatchStatus, ActiveStatus

LEMMA InsertContextType ==
  ASSUME TypeOK, NEW t \in Task, NEW term \in Terminal, InsertContext(t, term)
  PROVE  /\ rows + 1 \in Row
         /\ rows' \in 0 .. MaxDispatches
         /\ rowTask' \in [Row -> Task \cup {NoTask}]
         /\ rowStatus' \in [Row -> DispatchStatus \cup {"absent"}]
         /\ assignee' \in [Row -> Terminal \cup {NoTerminal}]
         /\ failures' \in [Row -> Nat]
<1>1. PICK n \in {0} \cup {failures[r] : r \in Row} : InsertRow(t, "dispatched", term, n)
  BY DEF InsertContext
<1>2. n \in Nat
  BY DEF TypeOK
<1> QED BY <1>1, <1>2, InsertRowType DEF ActiveStatus

\* What the two updates of failDispatch write is typed.
LEMMA FailedType ==
  ASSUME TypeOK, NEW r \in Row
  PROVE  /\ failures[r] + 1 \in Nat
         /\ FailedRow(r) \in {"failed", "circuit_broken"}
         /\ FailedTask(r) \in {"failed", "ready"}
  BY DEF TypeOK, FailedRow, FailedTask

LEMMA FailDispatchType ==
  ASSUME TypeOK, NEW r \in Row, FailDispatch(r)
  PROVE  /\ taskStatus' \in [Task -> TaskStatus \cup {"absent"}]
         /\ rowStatus' \in [Row -> DispatchStatus \cup {"absent"}]
         /\ failures' \in [Row -> Nat]
         /\ capability' \in [Row -> {"none", "live", "revoked"}]
<1>1. taskStatus' \in [Task -> TaskStatus \cup {"absent"}]
  BY FailedType DEF TypeOK, FailDispatch, SetTask, TaskStatus
<1>2. rowStatus' \in [Row -> DispatchStatus \cup {"absent"}]
  BY FailedType DEF TypeOK, FailDispatch, SetRow, DispatchStatus
<1>3. failures' \in [Row -> Nat]
  BY FailedType DEF TypeOK, FailDispatch
<1>4. capability' \in [Row -> {"none", "live", "revoked"}]
  BY DEF TypeOK, FailDispatch, Revoke
<1> QED BY <1>1, <1>2, <1>3, <1>4

LEMMA TypeStep == TypeOK /\ [Next]_vars => TypeOK'
<1> SUFFICES ASSUME TypeOK, [Next]_vars PROVE TypeOK'
  OBVIOUS
<1> USE DEF TypeOK
<1>1. CASE TaskStep
  <2> PICK t \in Task :
        \/ \E D \in SUBSET (Task \ {t}) : CreateTask(t, D)
        \/ \E s \in TaskStatus : UpdateTask(t, s)
        \/ \E term \in Terminal, inject \in BOOLEAN : Dispatch(t, term, inject)
        \/ \E fed \in BOOLEAN : StartWorker(t, fed)
    BY <1>1 DEF TaskStep
  <2>1. ASSUME NEW D \in SUBSET (Task \ {t}), CreateTask(t, D) PROVE TypeOK'
    BY <2>1 DEF CreateTask, SetTask, TaskStatus, rowVars, fixedVars, gateVars, processVars
  <2>2. ASSUME NEW s \in TaskStatus, UpdateTask(t, s) PROVE TypeOK'
    BY <2>2 DEF UpdateTask, Complete, CompleteNewest, SetTask, TaskStatus, DispatchStatus,
                fixedVars, gateVars, processVars
  <2>3. ASSUME NEW term \in Terminal, NEW inject \in BOOLEAN, Dispatch(t, term, inject)
        PROVE TypeOK'
    <3>1. InsertContext(t, term)
      BY <2>3 DEF Dispatch
    <3> QED BY <2>3, <3>1, InsertContextType DEF Dispatch, SetTask, SetHandler, TaskStatus, gateVars
  <2>4. ASSUME NEW fed \in BOOLEAN, StartWorker(t, fed) PROVE TypeOK'
    <3>1. InsertRow(t, "pending", NoTerminal, 0)
      BY <2>4 DEF StartWorker, InsertWorker
    <3> QED BY <2>4, <3>1, InsertRowType
            DEF StartWorker, InsertWorker, SetTask, SetWorker, SetHandler, TaskStatus,
                ActiveStatus, Unsettled, gateVars
  <2> QED BY <2>1, <2>2, <2>3, <2>4
<1>2. ASSUME NEW r \in Row, DispatchStep(r) PROVE TypeOK'
  <2>1. CASE PromptAccepted(r)
    BY <2>1 DEF PromptAccepted, SetHandler, taskVars, rowVars, fixedVars, gateVars
  <2>2. CASE PromptFailed(r)
    BY <2>2, FailDispatchType DEF PromptFailed, SetHandler, fixedVars, gateVars
  <2>3. CASE AgentExit(r)
    BY <2>3, FailDispatchType DEF AgentExit, fixedVars, gateVars, processVars
  <2>4. ASSUME NEW succeeded \in BOOLEAN, Report(r, succeeded) PROVE TypeOK'
    BY <2>4 DEF Report, SetRow, SetTask, Complete, Revoke, CloseQuestion, TaskStatus,
                DispatchStatus, Settled, Unsettled, fixedVars, gateVars, processVars
  <2> QED BY <1>2, <2>1, <2>2, <2>3, <2>4 DEF DispatchStep
<1>3. ASSUME NEW r \in Row, WorkerStep(r) PROVE TypeOK'
  <2>1. ASSUME NEW t \in Task, NEW fed \in BOOLEAN, RetryWorker(t, r, fed) PROVE TypeOK'
    <3>1. InsertRow(t, "pending", NoTerminal, 0)
      BY <2>1 DEF RetryWorker, InsertWorker
    <3> QED BY <2>1, <3>1, InsertRowType
            DEF RetryWorker, InsertWorker, SetTask, SetWorker, SetHandler, TaskStatus,
                ActiveStatus, Unsettled, gateVars
  <2>2. ASSUME NEW term \in Terminal, AttachTerminal(r, term) PROVE TypeOK'
    BY <2>2 DEF AttachTerminal, taskVars, fixedVars, gateVars, processVars
  <2>3. CASE WorkerReady(r)
    BY <2>3 DEF WorkerReady, SetRow, SetWorker, SetHandler, DispatchStatus, ActiveStatus,
                Unsettled, taskVars, fixedVars, gateVars
  <2>4. CASE StartFailed(r)
    BY <2>4 DEF StartFailed, SetRow, SetWorker, SetTask, Revoke, CloseQuestion, SetHandler,
                TaskStatus, DispatchStatus, Settled, fixedVars, gateVars
  <2>5. CASE StartUnknown(r)
    BY <2>5 DEF StartUnknown, SetWorker, SetTask, Revoke, CloseQuestion, SetHandler,
                TaskStatus, Unsettled, fixedVars, gateVars
  <2>6. CASE ReconcileReady(r)
    BY <2>6 DEF ReconcileReady, SetWorker, SetHandler, TaskStatus, DispatchStatus,
                ActiveStatus, Unsettled, fixedVars, gateVars
  <2>7. ASSUME NEW s \in Settled, ReconcileEnded(r, s) PROVE TypeOK'
    <3>1. /\ taskStatus' \in [Task -> TaskStatus \cup {"absent"}]
          /\ question' \in [Row -> {"none", "pending", "answered", "closed"}]
      BY <2>7 DEF ReconcileEnded, CloseQuestion, TaskStatus
    <3>2. /\ rowStatus' \in [Row -> DispatchStatus \cup {"absent"}]
          /\ capability' \in [Row -> {"none", "live", "revoked"}]
      BY <2>7 DEF ReconcileEnded, FailIfActive, Revoke, DispatchStatus
    <3>3. /\ worker' \in [Row -> Settled \cup Unsettled \cup {"none"}]
          /\ handler' \in [Row -> {"none", "prompt", "start", "stop"}]
      BY <2>7 DEF ReconcileEnded, SetWorker, SetHandler, Settled
    <3> QED BY <2>7, <3>1, <3>2, <3>3 DEF ReconcileEnded, fixedVars, gateVars
  <2>8. CASE MissingTerminal(r)
    <3>1. /\ taskStatus' \in [Task -> TaskStatus \cup {"absent"}]
          /\ failures' \in [Row -> Nat]
          /\ question' \in [Row -> {"none", "pending", "answered", "closed"}]
      BY <2>8, FailedType DEF MissingTerminal, CloseQuestion, TaskStatus, rowVars
    <3>2. /\ rowStatus' \in [Row -> DispatchStatus \cup {"absent"}]
          /\ capability' \in [Row -> {"none", "live", "revoked"}]
      BY <2>8, FailedType DEF MissingTerminal, SetRow, Revoke, DispatchStatus, rowVars
    <3>3. worker' \in [Row -> Settled \cup Unsettled \cup {"none"}]
      BY <2>8 DEF MissingTerminal, SetWorker, Settled
    <3> QED BY <2>8, <3>1, <3>2, <3>3 DEF MissingTerminal, fixedVars, gateVars
  <2>9. CASE Recovered(r)
    BY <2>9 DEF Recovered, taskVars, rowVars, fixedVars, gateVars
  <2> QED BY <1>3, <2>1, <2>2, <2>3, <2>4, <2>5, <2>6, <2>7, <2>8, <2>9 DEF WorkerStep
<1>4. ASSUME NEW r \in Row, StopStep(r) PROVE TypeOK'
  <2>1. CASE Release(r)
    BY <2>1 DEF Release, SetRow, SetTask, Revoke, CloseQuestion, TaskStatus, DispatchStatus,
                fixedVars, gateVars, processVars
  <2>2. CASE BeginStop(r)
    BY <2>2 DEF BeginStop, SetWorker, SetTask, Revoke, CloseQuestion, SetHandler,
                TaskStatus, Unsettled, fixedVars, gateVars
  <2>3. CASE SettleStop(r)
    BY <2>3 DEF SettleStop, SetWorker, FailIfActive, SetHandler, DispatchStatus, Settled,
                taskVars, fixedVars, gateVars
  <2>4. CASE ReconcileStop(r)
    BY <2>4 DEF ReconcileStop, SetWorker, FailIfActive, SetHandler, DispatchStatus, Settled,
                taskVars, fixedVars, gateVars
  <2>5. CASE ResumeForRelay(r)
    <3>1. taskStatus' \in [Task -> TaskStatus \cup {"absent"}]
      <4>1. taskStatus' = [taskStatus EXCEPT ![rowTask[r]] =
              IF taskStatus[rowTask[r]] = "blocked" THEN "dispatched"
              ELSE taskStatus[rowTask[r]]]
        BY <2>5 DEF ResumeForRelay
      <4>2. "dispatched" \in TaskStatus \cup {"absent"}
        BY DEF TaskStatus
      <4> QED BY <4>1, <4>2
    <3>2. /\ worker' \in [Row -> Settled \cup Unsettled \cup {"none"}]
          /\ handler' \in [Row -> {"none", "prompt", "start", "stop"}]
      BY <2>5 DEF ResumeForRelay, SetWorker, SetHandler, Unsettled
    <3> QED BY <2>5, <3>1, <3>2 DEF ResumeForRelay, rowVars, fixedVars, gateVars
  <2>6. CASE StopUnknown(r)
    BY <2>6 DEF StopUnknown, SetWorker, SetHandler, Unsettled, taskVars, rowVars, fixedVars,
                gateVars
  <2>7. CASE Abandon(r)
    BY <2>7 DEF Abandon, SetWorker, FailIfActive, Revoke, SetTask, CloseQuestion, TaskStatus,
                DispatchStatus, Settled, fixedVars, gateVars, processVars
  <2> QED BY <1>4, <2>1, <2>2, <2>3, <2>4, <2>5, <2>6, <2>7 DEF StopStep
<1>5. ASSUME NEW r \in Row, QuestionStep(r) PROVE TypeOK'
  BY <1>5 DEF QuestionStep, Ask, Answer, taskVars, rowVars, fixedVars, gateVars, processVars
<1>6. CASE GateStep
  <2> PICK g \in Gate : ResolveGate(g) \/ \E t \in Task : CreateGate(g, t)
    BY <1>6 DEF GateStep
  <2>1. CASE ResolveGate(g)
    BY <2>1 DEF ResolveGate, SetTask, TaskStatus, rowVars, fixedVars, processVars
  <2>2. ASSUME NEW t \in Task, CreateGate(g, t) PROVE TypeOK'
    BY <2>2 DEF CreateGate, CompleteNewest, SetTask, TaskStatus, DispatchStatus, fixedVars,
                processVars
  <2> QED BY <2>1, <2>2
<1>7. CASE CrashStep
  <2>1. CASE Crash
    BY <2>1 DEF Crash, Die, Candidates, taskVars, rowVars, fixedVars, gateVars
  <2>2. ASSUME NEW t \in Task, NEW S \in SUBSET Task, TornComplete(t, S) PROVE TypeOK'
    BY <2>2 DEF TornComplete, Complete, Die, Candidates, TaskStatus, rowVars, fixedVars, gateVars
  <2>3. ASSUME NEW t \in Task, NEW term \in Terminal, TornDispatch(t, term) PROVE TypeOK'
    <3>1. InsertContext(t, term)
      BY <2>3 DEF TornDispatch
    <3> QED BY <2>3, <3>1, InsertContextType DEF TornDispatch, Die, Candidates, taskVars, gateVars
  <2>4. ASSUME NEW r \in Row, TornFail(r) PROVE TypeOK'
    BY <2>4 DEF TornFail, FailedRow, SetRow, Revoke, Die, Candidates, DispatchStatus, taskVars,
                fixedVars, gateVars
  <2>5. ASSUME NEW g \in Gate, TornResolve(g) PROVE TypeOK'
    BY <2>5 DEF TornResolve, Die, Candidates, taskVars, rowVars, fixedVars
  <2>6. ASSUME NEW g \in Gate, NEW t \in Task, TornGate(g, t) PROVE TypeOK'
    BY <2>6 DEF TornGate, CompleteNewest, Die, Candidates, DispatchStatus, taskVars, fixedVars
  <2> QED BY <1>7, <2>1, <2>2, <2>3, <2>4, <2>5, <2>6 DEF CrashStep
<1>8. CASE UNCHANGED vars
  BY <1>8 DEF vars
<1> QED BY <1>1, <1>2, <1>3, <1>4, <1>5, <1>6, <1>7, <1>8 DEF Next

\* Every reachable state is typed.
THEOREM TypeCorrect == Spec => []TypeOK
<1>1. Init => TypeOK
  BY DEF Init, TypeOK, Row
<1> QED BY <1>1, TypeStep, PTL DEF Spec

-----------------------------------------------------------------------------
(***************************************************************************)
(* What ends a dispatch.  One induction serves two invariants and two      *)
(* action properties: each action keeps ReleaseInv, reactivates no row and *)
(* restores no capability.                                                 *)
(***************************************************************************)
\* The condition of NoResurrection on a step.
NoRowRevives ==
  \A r \in Row : rowStatus[r] # "absent" /\ ~Active(r) => ~Active(r)'

\* The condition of RevokedForever on a step.
NoCapabilityRevives ==
  \A r \in Row : capability[r] = "revoked" => capability'[r] = "revoked"

ReleaseGoal == ReleaseInv' /\ NoRowRevives /\ NoCapabilityRevives

LEMMA ReleaseStep == TypeOK /\ ReleaseInv /\ [Next]_vars => ReleaseGoal
<1> SUFFICES ASSUME TypeOK, ReleaseInv, [Next]_vars PROVE ReleaseGoal
  OBVIOUS
<1> USE DEF ReleaseGoal, ReleaseInv, NoRowRevives, NoCapabilityRevives, Active, ActiveStatus,
            Settled
<1> DEFINE RowsKept == UNCHANGED <<rows, rowTask, rowStatus, assignee, capability, worker>>
<1>0. ASSUME RowsKept, \A r \in Row : handler'[r] \in {handler[r], "none"} PROVE ReleaseGoal
  BY <1>0 DEF TypeOK
<1>1. CASE TaskStep
  <2> PICK t \in Task :
        \/ \E D \in SUBSET (Task \ {t}) : CreateTask(t, D)
        \/ \E s \in TaskStatus : UpdateTask(t, s)
        \/ \E term \in Terminal, inject \in BOOLEAN : Dispatch(t, term, inject)
        \/ \E fed \in BOOLEAN : StartWorker(t, fed)
    BY <1>1 DEF TaskStep
  <2>1. ASSUME NEW D \in SUBSET (Task \ {t}), CreateTask(t, D) PROVE ReleaseGoal
    BY <2>1, <1>0 DEF CreateTask, rowVars, fixedVars, processVars
  <2>2. ASSUME NEW s \in TaskStatus, UpdateTask(t, s) PROVE ReleaseGoal
    BY <2>2 DEF TypeOK, UpdateTask, CompleteNewest, IsNewestActive, fixedVars, processVars
  <2>3. ASSUME NEW term \in Terminal, NEW inject \in BOOLEAN, Dispatch(t, term, inject)
        PROVE ReleaseGoal
    BY <2>3 DEF TypeOK, Row, Dispatch, InsertContext, InsertRow, SetHandler
  <2>4. ASSUME NEW fed \in BOOLEAN, StartWorker(t, fed) PROVE ReleaseGoal
    BY <2>4 DEF TypeOK, Row, StartWorker, InsertWorker, InsertRow, SetWorker, SetHandler
  <2> QED BY <2>1, <2>2, <2>3, <2>4
<1>2. ASSUME NEW r \in Row, DispatchStep(r) PROVE ReleaseGoal
  <2>1. CASE PromptAccepted(r)
    BY <2>1, <1>0 DEF TypeOK, PromptAccepted, SetHandler, rowVars, fixedVars
  <2>2. CASE PromptFailed(r)
    BY <2>2 DEF TypeOK, PromptFailed, FailDispatch, FailedRow, SetRow, Revoke, SetHandler, fixedVars
  <2>3. CASE AgentExit(r)
    BY <2>3 DEF TypeOK, AgentExit, FoundOnExit, FailDispatch, FailedRow, SetRow, Revoke, fixedVars, processVars
  <2>4. ASSUME NEW succeeded \in BOOLEAN, Report(r, succeeded) PROVE ReleaseGoal
    BY <2>4 DEF TypeOK, Report, SetRow, Revoke, fixedVars, processVars
  <2> QED BY <1>2, <2>1, <2>2, <2>3, <2>4 DEF DispatchStep
<1>3. ASSUME NEW r \in Row, WorkerStep(r) PROVE ReleaseGoal
  <2>1. ASSUME NEW t \in Task, NEW fed \in BOOLEAN, RetryWorker(t, r, fed) PROVE ReleaseGoal
    BY <2>1 DEF TypeOK, Row, RetryWorker, InsertWorker, InsertRow, SetWorker, SetHandler
  <2>2. ASSUME NEW term \in Terminal, AttachTerminal(r, term) PROVE ReleaseGoal
    BY <2>2 DEF TypeOK, AttachTerminal, fixedVars, processVars
  <2>3. CASE WorkerReady(r)
    BY <2>3 DEF TypeOK, WorkerReady, SetRow, SetWorker, SetHandler, fixedVars
  <2>4. CASE StartFailed(r)
    BY <2>4 DEF TypeOK, StartFailed, SetRow, SetWorker, Revoke, SetHandler, fixedVars
  <2>5. CASE StartUnknown(r)
    BY <2>5 DEF TypeOK, StartUnknown, SetWorker, Revoke, SetHandler, fixedVars
  <2>6. CASE ReconcileReady(r)
    BY <2>6 DEF TypeOK, ReconcileReady, SetWorker, SetHandler, fixedVars
  <2>7. ASSUME NEW s \in Settled, ReconcileEnded(r, s) PROVE ReleaseGoal
    BY <2>7 DEF TypeOK, ReconcileEnded, SetWorker, FailIfActive, Revoke, SetHandler, fixedVars
  <2>8. CASE MissingTerminal(r)
    BY <2>8 DEF TypeOK, MissingTerminal, FailedRow, SetRow, SetWorker, Revoke, rowVars,
                fixedVars, Unsettled
  <2>9. CASE Recovered(r)
    BY <2>9, <1>0 DEF Recovered, rowVars, fixedVars
  <2> QED BY <1>3, <2>1, <2>2, <2>3, <2>4, <2>5, <2>6, <2>7, <2>8, <2>9 DEF WorkerStep
<1>4. ASSUME NEW r \in Row, StopStep(r) PROVE ReleaseGoal
  <2>1. CASE Release(r)
    BY <2>1 DEF TypeOK, Release, SetRow, Revoke, fixedVars, processVars
  <2>2. CASE BeginStop(r)
    BY <2>2 DEF TypeOK, BeginStop, SetWorker, Revoke, SetHandler, fixedVars
  <2>3. CASE SettleStop(r)
    BY <2>3 DEF TypeOK, SettleStop, SetWorker, FailIfActive, SetHandler, fixedVars
  <2>4. CASE ReconcileStop(r)
    BY <2>4 DEF TypeOK, ReconcileStop, SetWorker, FailIfActive, SetHandler, fixedVars
  <2>5. CASE ResumeForRelay(r)
    BY <2>5 DEF TypeOK, ResumeForRelay, SetWorker, SetHandler, rowVars, fixedVars
  <2>6. CASE StopUnknown(r)
    BY <2>6 DEF TypeOK, StopUnknown, SetWorker, SetHandler, rowVars, fixedVars
  <2>7. CASE Abandon(r)
    BY <2>7 DEF TypeOK, Abandon, SetWorker, FailIfActive, Revoke, fixedVars, processVars
  <2> QED BY <1>4, <2>1, <2>2, <2>3, <2>4, <2>5, <2>6, <2>7 DEF StopStep
<1>5. ASSUME NEW r \in Row, QuestionStep(r) PROVE ReleaseGoal
  BY <1>5, <1>0 DEF QuestionStep, Ask, Answer, rowVars, fixedVars, processVars
<1>6. CASE GateStep
  <2> PICK g \in Gate : ResolveGate(g) \/ \E t \in Task : CreateGate(g, t)
    BY <1>6 DEF GateStep
  <2>1. CASE ResolveGate(g)
    BY <2>1, <1>0 DEF ResolveGate, rowVars, fixedVars, processVars
  <2>2. ASSUME NEW t \in Task, CreateGate(g, t) PROVE ReleaseGoal
    BY <2>2 DEF TypeOK, CreateGate, CompleteNewest, IsNewestActive, fixedVars, processVars
  <2> QED BY <2>1, <2>2
<1>7. CASE CrashStep
  <2>1. CASE Crash
    BY <2>1, <1>0 DEF Crash, Die, rowVars, fixedVars
  <2>2. ASSUME NEW t \in Task, NEW S \in SUBSET Task, TornComplete(t, S) PROVE ReleaseGoal
    BY <2>2, <1>0 DEF TornComplete, Die, rowVars, fixedVars
  <2>3. ASSUME NEW t \in Task, NEW term \in Terminal, TornDispatch(t, term) PROVE ReleaseGoal
    BY <2>3 DEF TypeOK, Row, TornDispatch, InsertContext, InsertRow, Die
  <2>4. ASSUME NEW q \in Row, TornFail(q) PROVE ReleaseGoal
    BY <2>4 DEF TypeOK, TornFail, FoundOnExit, FailedRow, SetRow, Revoke, Die, fixedVars
  <2>5. ASSUME NEW g \in Gate, TornResolve(g) PROVE ReleaseGoal
    BY <2>5, <1>0 DEF TornResolve, Die, rowVars, fixedVars
  <2>6. ASSUME NEW g \in Gate, NEW t \in Task, TornGate(g, t) PROVE ReleaseGoal
    BY <2>6 DEF TypeOK, TornGate, CompleteNewest, IsNewestActive, Die, fixedVars
  <2> QED BY <1>7, <2>1, <2>2, <2>3, <2>4, <2>5, <2>6 DEF CrashStep
<1>8. CASE UNCHANGED vars
  BY <1>8, <1>0 DEF vars
<1> QED BY <1>1, <1>2, <1>3, <1>4, <1>5, <1>6, <1>7, <1>8 DEF Next

LEMMA ReleaseInit == Init => ReleaseInv
  BY DEF Init, ReleaseInv, Active, ActiveStatus, Settled, Row

\* What ends a dispatch or settles a worker takes everything it held at once,
\* in every handler, and a worker in doubt has lost its capability already.
THEOREM ReleaseCorrect == Spec => []ReleaseInv
<1>1. TypeOK /\ ReleaseInv /\ [Next]_vars => ReleaseInv'
  BY ReleaseStep DEF ReleaseGoal
<1> QED BY <1>1, ReleaseInit, TypeCorrect, PTL DEF Spec

\* No dispatch that has ended keeps a valid capability, whichever of the
\* handlers, a crash between two of their statements or a late answer ended it.
THEOREM EndedIsRevoked == Spec => []InactiveRevoked
<1>1. ReleaseInv => InactiveRevoked
  BY DEF ReleaseInv, InactiveRevoked
<1> QED BY <1>1, ReleaseCorrect, PTL

\* A worker that is settled has let go of its dispatch.
THEOREM SettledIsReleased == Spec => []SettledReleased
<1>1. ReleaseInv => SettledReleased
  BY DEF ReleaseInv, SettledReleased
<1> QED BY <1>1, ReleaseCorrect, PTL

\* A dispatch that ended never becomes active again.
THEOREM EndedStaysEnded == Spec => NoResurrection
<1>1. TypeOK /\ ReleaseInv /\ [Next]_vars => [NoRowRevives]_vars
  BY ReleaseStep DEF ReleaseGoal
<1> QED BY <1>1, TypeCorrect, ReleaseCorrect, PTL DEF Spec, NoResurrection, NoRowRevives

\* A revoked capability is never valid again.
THEOREM RevokedStaysRevoked == Spec => RevokedForever
<1>1. TypeOK /\ ReleaseInv /\ [Next]_vars => [NoCapabilityRevives]_vars
  BY ReleaseStep DEF ReleaseGoal
<1> QED BY <1>1, TypeCorrect, ReleaseCorrect, PTL DEF Spec, RevokedForever, NoCapabilityRevives

-----------------------------------------------------------------------------
(***************************************************************************)
(* Who works on what.  Both theorems rest on one fact: apart from the      *)
(* inserts and the attachment of a terminal, a step moves no dispatch to   *)
(* another task or terminal and activates none.                            *)
(***************************************************************************)
Moves ==
  \/ \E t \in Task, term \in Terminal :
       \/ \E inject \in BOOLEAN : Dispatch(t, term, inject)
       \/ TornDispatch(t, term)
  \/ \E t \in Task, fed \in BOOLEAN :
       \/ StartWorker(t, fed)
       \/ \E r \in Row : RetryWorker(t, r, fed)
  \/ \E r \in Row, term \in Terminal : AttachTerminal(r, term)

Stays ==
  /\ UNCHANGED <<rowTask, assignee>>
  /\ \A r \in Row : Active(r)' => Active(r)

LEMMA MovesOrStays == TypeOK /\ ReleaseInv /\ [Next]_vars => Moves \/ Stays
<1> SUFFICES ASSUME TypeOK, ReleaseInv, [Next]_vars, ~Moves PROVE Stays
  OBVIOUS
<1> USE DEF Stays, Active, ActiveStatus, Moves
<1>1. CASE TaskStep
  BY <1>1 DEF TypeOK, TaskStep, CreateTask, UpdateTask, CompleteNewest, rowVars, fixedVars
<1>2. ASSUME NEW r \in Row, DispatchStep(r) PROVE Stays
  BY <1>2 DEF TypeOK, DispatchStep, PromptAccepted, PromptFailed, AgentExit, Report, FailDispatch,
              FailedRow, SetRow, rowVars, fixedVars
<1>3. ASSUME NEW r \in Row, WorkerStep(r) PROVE Stays
  <2>1. CASE WorkerReady(r) \/ StartFailed(r) \/ StartUnknown(r) \/ ReconcileReady(r)
    BY <2>1 DEF TypeOK, WorkerReady, StartFailed, StartUnknown, ReconcileReady, SetRow, fixedVars
  <2>2. CASE (\E s \in Settled : ReconcileEnded(r, s)) \/ MissingTerminal(r) \/ Recovered(r)
    BY <2>2 DEF TypeOK, ReconcileEnded, MissingTerminal, Recovered, FailIfActive, FailedRow,
                SetRow, rowVars, fixedVars
  <2> QED BY <1>3, <2>1, <2>2 DEF WorkerStep
<1>4. ASSUME NEW r \in Row, StopStep(r) PROVE Stays
  BY <1>4 DEF TypeOK, StopStep, Release, BeginStop, SettleStop, ReconcileStop, ResumeForRelay,
              StopUnknown, Abandon, SetRow, FailIfActive, rowVars, fixedVars
<1>5. ASSUME NEW r \in Row, QuestionStep(r) PROVE Stays
  BY <1>5 DEF QuestionStep, Ask, Answer, rowVars, fixedVars
<1>6. CASE GateStep
  BY <1>6 DEF TypeOK, GateStep, ResolveGate, CreateGate, CompleteNewest, rowVars, fixedVars
<1>7. CASE CrashStep
  BY <1>7 DEF TypeOK, CrashStep, Crash, TornComplete, TornFail, TornResolve, TornGate,
              CompleteNewest, FailedRow, SetRow, rowVars, fixedVars
<1>8. CASE UNCHANGED vars
  BY <1>8 DEF vars
<1> QED BY <1>1, <1>2, <1>3, <1>4, <1>5, <1>6, <1>7, <1>8 DEF Next

\* The next row is new: no row of ReleaseInv is active or assigned there.
LEMMA InsertedRow ==
  ASSUME TypeOK, ReleaseInv, NEW t \in Task, NEW s, NEW term, NEW n, InsertRow(t, s, term, n)
  PROVE  /\ rows + 1 \in Row /\ ~Active(rows + 1)
         /\ rowTask'[rows + 1] = t /\ assignee'[rows + 1] = term
         /\ \A r \in Row \ {rows + 1} :
              /\ rowTask'[r] = rowTask[r] /\ assignee'[r] = assignee[r]
              /\ rowStatus'[r] = rowStatus[r]
         /\ \A r \in Row : Active(r) => r <= rows
  BY DEF TypeOK, ReleaseInv, Row, InsertRow, Active, ActiveStatus

LEMMA ExclusiveStep ==
  ASSUME "reuse" \notin Ops
  PROVE  TypeOK /\ ReleaseInv /\ TerminalExclusive /\ [Next]_vars => TerminalExclusive'
<1> SUFFICES ASSUME TypeOK, ReleaseInv, TerminalExclusive, [Next]_vars PROVE TerminalExclusive'
  OBVIOUS
<1>1. CASE Stays
  BY <1>1 DEF Stays, TerminalExclusive
<1>2. ASSUME NEW t \in Task, NEW term \in Terminal, InsertContext(t, term)
      PROVE  TerminalExclusive'
  <2>1. PICK n \in {0} \cup {failures[r] : r \in Row} : InsertRow(t, "dispatched", term, n)
    BY <1>2 DEF InsertContext
  <2>2. \A r \in Row : Active(r) => assignee[r] # term
    BY <1>2 DEF InsertContext, Busy
  <2> QED BY <2>1, <2>2, InsertedRow DEF TerminalExclusive, Active
<1>3. ASSUME NEW t \in Task, NEW fed \in BOOLEAN, InsertWorker(t, fed)
      PROVE  TerminalExclusive'
  <2>1. InsertRow(t, "pending", NoTerminal, 0)
    BY <1>3 DEF InsertWorker
  <2> QED BY <2>1, InsertedRow DEF TerminalExclusive, Active
<1>4. ASSUME NEW r \in Row, NEW term \in Terminal, AttachTerminal(r, term)
      PROVE  TerminalExclusive'
  BY <1>4 DEF TypeOK, AttachTerminal, TerminalExclusive, Active
<1>5. CASE Moves
  BY <1>5, <1>2, <1>3, <1>4 DEF Moves, Dispatch, TornDispatch, StartWorker, RetryWorker
<1> QED BY <1>1, <1>5, MovesOrStays

\* As long as no worker-start adopts an existing terminal, a terminal never
\* works on two dispatches, through every stop, retry, gate, status update
\* and crash.
THEOREM TerminalIsExclusive ==
  ASSUME "reuse" \notin Ops
  PROVE  Spec => []TerminalExclusive
<1>1. Init => TerminalExclusive
  BY DEF Init, TerminalExclusive
<1>2. TypeOK /\ ReleaseInv /\ TerminalExclusive /\ [Next]_vars => TerminalExclusive'
  BY ExclusiveStep
<1> QED BY <1>1, <1>2, TypeCorrect, ReleaseCorrect, PTL DEF Spec

-----------------------------------------------------------------------------
(***************************************************************************)
(* One attempt at a time.  It needs the caller's discipline: nobody writes *)
(* a task's status by hand, opens a gate on it or types a prompt whose     *)
(* rejection arrives after the dispatch ended, and the process does not    *)
(* die between two statements.                                             *)
(***************************************************************************)
Disciplined == {"update", "gate", "inject", "torn"} \cap Ops = {}

LEMMA HoldInsert ==
  ASSUME TypeOK, ReleaseInv, HoldInv, NEW t \in Task, NEW s, NEW term, NEW n,
         InsertRow(t, s, term, n), SetTask(t, "dispatched"),
         SetHandler(rows + 1, "start") \/ SetHandler(rows + 1, "none"),
         \A r \in Row : rowTask[r] = t => ~Active(r)
  PROVE  HoldInv'
<1>1. ASSUME NEW r \in Row, Active(r)'
      PROVE  /\ rowTask'[r] \in Task /\ IsLatest(r)'
             /\ taskStatus'[rowTask'[r]] \notin {"absent", "pending", "ready"}
  <2>1. CASE r = rows + 1
    <3>1. rowTask'[r] = t /\ taskStatus'[t] = "dispatched"
      BY <2>1, InsertedRow DEF TypeOK, SetTask
    <3>2. ASSUME NEW q \in Row, rowTask'[q] = t PROVE q <= r
      <4>1. CASE q = rows + 1
        BY <2>1, <4>1 DEF Row
      <4>2. CASE q # rows + 1
        <5>1. rowTask[q] = t
          BY <3>2, <4>2, InsertedRow
        <5>2. q <= rows
          BY <5>1, DispatchLedgerAssumption DEF ReleaseInv, TypeOK, Row
        <5> QED BY <2>1, <5>2 DEF TypeOK, Row
      <4> QED BY <4>1, <4>2
    <3> QED BY <3>1, <3>2 DEF IsLatest
  <2>2. CASE r # rows + 1
    <3>1. Active(r) /\ rowTask'[r] = rowTask[r] /\ rowTask[r] # t
      BY <1>1, <2>2, InsertedRow DEF Active
    <3>2. IsLatest(r)'
      BY <3>1, InsertedRow DEF HoldInv, IsLatest
    <3>3. taskStatus'[rowTask[r]] = taskStatus[rowTask[r]]
      BY <3>1 DEF TypeOK, HoldInv, SetTask
    <3> QED BY <3>1, <3>2, <3>3 DEF HoldInv
  <2> QED BY <2>1, <2>2
<1>2. \A r \in Row : handler'[r] # "prompt"
  BY DEF TypeOK, HoldInv, SetHandler
<1> QED BY <1>1, <1>2 DEF HoldInv

\* A step that ends or keeps dispatches and gives no task an open status while
\* one of its dispatches stays active.
LEMMA HoldKept ==
  ASSUME TypeOK, HoldInv, rowTask' = rowTask, \A r \in Row : handler'[r] # "prompt",
         \A r \in Row : Active(r)' =>
           Active(r) /\ taskStatus'[rowTask[r]] \notin {"absent", "pending", "ready"}
  PROVE  HoldInv'
  BY DEF HoldInv, IsLatest

LEMMA HoldStep ==
  ASSUME Disciplined
  PROVE  TypeOK /\ ReleaseInv /\ HoldInv /\ [Next]_vars => HoldInv'
<1> SUFFICES ASSUME TypeOK, ReleaseInv, HoldInv, [Next]_vars PROVE HoldInv'
  OBVIOUS
<1>0. \A q, r \in Row : Active(q) /\ Active(r) /\ rowTask[q] = rowTask[r] => q = r
  BY DEF HoldInv, IsLatest, Row
<1> DEFINE Open == {"absent", "pending", "ready"}
<1> USE DEF Disciplined, Active, ActiveStatus
<1>1. CASE TaskStep
  <2> PICK t \in Task :
        \/ \E D \in SUBSET (Task \ {t}) : CreateTask(t, D)
        \/ \E s \in TaskStatus : UpdateTask(t, s)
        \/ \E term \in Terminal, inject \in BOOLEAN : Dispatch(t, term, inject)
        \/ \E fed \in BOOLEAN : StartWorker(t, fed)
    BY <1>1 DEF TaskStep
  <2>1. ASSUME NEW D \in SUBSET (Task \ {t}), CreateTask(t, D) PROVE HoldInv'
    BY <2>1, HoldKept DEF TypeOK, HoldInv, CreateTask, Exists, SetTask, rowVars, fixedVars, processVars
  <2>2. ASSUME NEW s \in TaskStatus, UpdateTask(t, s) PROVE HoldInv'
    BY <2>2 DEF UpdateTask
  <2>3. ASSUME NEW term \in Terminal, NEW inject \in BOOLEAN, Dispatch(t, term, inject)
        PROVE HoldInv'
    <3>1. PICK n \in {0} \cup {failures[r] : r \in Row} : InsertRow(t, "dispatched", term, n)
      BY <2>3 DEF Dispatch, InsertContext
    <3>2. SetTask(t, "dispatched") /\ SetHandler(rows + 1, "none")
      BY <2>3 DEF Dispatch
    <3>3. \A r \in Row : rowTask[r] = t => ~Active(r)
      BY <2>3 DEF HoldInv, Dispatch, InsertContext
    <3> QED BY <3>1, <3>2, <3>3, HoldInsert
  <2>4. ASSUME NEW fed \in BOOLEAN, StartWorker(t, fed) PROVE HoldInv'
    <3>1. InsertRow(t, "pending", NoTerminal, 0) /\ SetTask(t, "dispatched")
          /\ SetHandler(rows + 1, "start")
      BY <2>4 DEF StartWorker, InsertWorker
    <3>2. \A r \in Row : rowTask[r] = t => ~Active(r)
      BY <2>4 DEF HoldInv, StartWorker
    <3> QED BY <3>1, <3>2, HoldInsert
  <2> QED BY <2>1, <2>2, <2>3, <2>4
<1>2. ASSUME NEW r \in Row, DispatchStep(r) PROVE HoldInv'
  <2>1. CASE PromptAccepted(r) \/ PromptFailed(r)
    BY <2>1 DEF HoldInv, PromptAccepted, PromptFailed
  <2>2. CASE AgentExit(r)
    <3>1. \A q \in Row : Active(q)' => Active(q) /\ rowTask[q] # rowTask[r]
      BY <2>2, <1>0 DEF TypeOK, AgentExit, FoundOnExit, FailDispatch, FailedRow, SetRow
    <3>2. \A q \in Row : rowTask[q] # rowTask[r] => taskStatus'[rowTask[q]] = taskStatus[rowTask[q]]
      BY <2>2 DEF TypeOK, AgentExit, FailDispatch, SetTask
    <3>3. rowTask' = rowTask /\ handler' = handler
      BY <2>2 DEF AgentExit, fixedVars, processVars
    <3> QED BY <3>1, <3>2, <3>3, HoldKept DEF HoldInv
  <2>3. ASSUME NEW succeeded \in BOOLEAN, Report(r, succeeded) PROVE HoldInv'
    <3>1. \A q \in Row : Active(q)' => Active(q)
      BY <2>3 DEF TypeOK, Report, SetRow
    <3>2. \A u \in Task : taskStatus[u] \notin Open => taskStatus'[u] \notin Open
      BY <2>3 DEF TypeOK, Report, Complete, SetTask, Promotable
    <3>3. rowTask' = rowTask /\ handler' = handler
      BY <2>3 DEF Report, fixedVars, processVars
    <3> QED BY <3>1, <3>2, <3>3, HoldKept DEF HoldInv
  <2> QED BY <1>2, <2>1, <2>2, <2>3 DEF DispatchStep
<1>3. ASSUME NEW r \in Row, WorkerStep(r) PROVE HoldInv'
  <2>1. ASSUME NEW t \in Task, NEW fed \in BOOLEAN, RetryWorker(t, r, fed) PROVE HoldInv'
    <3>1. InsertRow(t, "pending", NoTerminal, 0) /\ SetTask(t, "dispatched")
          /\ SetHandler(rows + 1, "start")
      BY <2>1 DEF RetryWorker, InsertWorker
    <3>2. ~Active(r) /\ IsLatest(r) /\ rowTask[r] = t
      BY <2>1 DEF ReleaseInv, Settled, RetryWorker
    <3>3. \A q \in Row : rowTask[q] = t => ~Active(q)
      BY <3>2 DEF HoldInv, IsLatest, Row
    <3> QED BY <3>1, <3>3, HoldInsert
  <2>2. ASSUME NEW term \in Terminal, AttachTerminal(r, term) PROVE HoldInv'
    BY <2>2, HoldKept DEF HoldInv, AttachTerminal, taskVars, processVars, fixedVars
  <2>3. CASE WorkerReady(r)
    <3>1. \A q \in Row : Active(q)' => Active(q)
      BY <2>3 DEF TypeOK, WorkerReady, SetRow
    <3> QED BY <2>3, <3>1, HoldKept DEF TypeOK, HoldInv, WorkerReady, SetHandler, taskVars, fixedVars
  <2>4. CASE Recovered(r)
    BY <2>4, HoldKept DEF HoldInv, Recovered, taskVars, rowVars, fixedVars
  <2>5. ASSUME /\ \/ StartFailed(r) \/ StartUnknown(r) \/ ReconcileReady(r)
                  \/ \E s \in Settled : ReconcileEnded(r, s)
        PROVE  HoldInv'
    <3>1. \A q \in Row : Active(q)' => Active(q)
      BY <2>5 DEF TypeOK, StartFailed, StartUnknown, ReconcileReady, ReconcileEnded, SetRow,
                  FailIfActive
    <3>2. \A u \in Task : taskStatus'[u] \in {taskStatus[u], "failed", "blocked", "dispatched"}
      BY <2>5 DEF TypeOK, StartFailed, StartUnknown, ReconcileReady, ReconcileEnded, SetTask
    <3>3. rowTask' = rowTask /\ \A q \in Row : handler'[q] # "prompt"
      BY <2>5 DEF TypeOK, HoldInv, StartFailed, StartUnknown, ReconcileReady, ReconcileEnded,
                  SetHandler, fixedVars
    <3> QED BY <3>1, <3>2, <3>3, HoldKept DEF HoldInv
  <2>6. CASE MissingTerminal(r) /\ Active(r)
    <3>1. \A q \in Row : Active(q)' => Active(q) /\ q # r
      BY <2>6 DEF TypeOK, MissingTerminal, FailedRow, SetRow
    <3>2. \A q \in Row : Active(q)' => rowTask[q] # rowTask[r]
      BY <2>6, <3>1, <1>0
    <3>3. \A u \in Task \ {rowTask[r]} : taskStatus'[u] = taskStatus[u]
      BY <2>6 DEF TypeOK, MissingTerminal
    <3>4. rowTask' = rowTask /\ handler' = handler
      BY <2>6 DEF MissingTerminal, fixedVars
    <3> QED BY <3>1, <3>2, <3>3, <3>4, HoldKept DEF HoldInv
  <2>7. CASE MissingTerminal(r) /\ ~Active(r)
    BY <2>7, HoldKept DEF HoldInv, MissingTerminal, rowVars, fixedVars
  <2> QED BY <1>3, <2>1, <2>2, <2>3, <2>4, <2>5, <2>6, <2>7 DEF WorkerStep
<1>4. ASSUME NEW r \in Row, StopStep(r) PROVE HoldInv'
  <2>1. \A q \in Row : Active(q)' => Active(q)
    BY <1>4 DEF TypeOK, StopStep, Release, BeginStop, SettleStop, ReconcileStop, ResumeForRelay,
                StopUnknown, Abandon, SetRow, FailIfActive, rowVars
  <2>2. \A u \in Task : taskStatus'[u] \in {taskStatus[u], "blocked", "dispatched"}
    BY <1>4 DEF TypeOK, StopStep, Release, BeginStop, SettleStop, ReconcileStop, ResumeForRelay,
                StopUnknown, Abandon, SetTask, taskVars
  <2>3. rowTask' = rowTask /\ \A q \in Row : handler'[q] # "prompt"
    BY <1>4 DEF TypeOK, HoldInv, StopStep, Release, BeginStop, SettleStop, ReconcileStop,
                ResumeForRelay, StopUnknown, Abandon, SetHandler, fixedVars, processVars
  <2> QED BY <2>1, <2>2, <2>3, HoldKept DEF HoldInv
<1>5. ASSUME NEW r \in Row, QuestionStep(r) PROVE HoldInv'
  BY <1>5, HoldKept DEF HoldInv, QuestionStep, Ask, Answer, taskVars, rowVars, fixedVars, processVars
<1>6. CASE GateStep
  BY <1>6 DEF GateStep, ResolveGate, CreateGate
<1>7. CASE CrashStep
  <2>1. CASE Crash
    BY <2>1, HoldKept DEF HoldInv, Crash, Die, taskVars, rowVars, fixedVars
  <2> QED BY <1>7, <2>1 DEF CrashStep, TornComplete, TornDispatch, TornFail, TornResolve, TornGate
<1>8. CASE UNCHANGED vars
  BY <1>8, HoldKept DEF HoldInv, vars
<1> QED BY <1>1, <1>2, <1>3, <1>4, <1>5, <1>6, <1>7, <1>8 DEF Next

\* Under that discipline a task never has two active dispatches, through
\* agent exits, stops, abandons, retries, federated workers and restarts.
THEOREM OneAttemptAtATime ==
  ASSUME Disciplined
  PROVE  Spec => []OneActivePerTask
<1>1. Init => HoldInv
  BY DEF Init, HoldInv, Active, ActiveStatus
<1>2. TypeOK /\ ReleaseInv /\ HoldInv /\ [Next]_vars => HoldInv'
  BY HoldStep
<1>3. HoldInv => OneActivePerTask
  BY DEF HoldInv, OneActivePerTask, IsLatest, Row
<1> QED BY <1>1, <1>2, <1>3, TypeCorrect, ReleaseCorrect, PTL DEF Spec

\* ... because an active dispatch is its task's latest and its task is in no
\* status a start accepts.
THEOREM ActiveIsLatest ==
  ASSUME Disciplined
  PROVE  Spec => []HoldInv
<1>1. Init => HoldInv
  BY DEF Init, HoldInv, Active, ActiveStatus
<1>2. TypeOK /\ ReleaseInv /\ HoldInv /\ [Next]_vars => HoldInv'
  BY HoldStep
<1> QED BY <1>1, <1>2, TypeCorrect, ReleaseCorrect, PTL DEF Spec

-----------------------------------------------------------------------------
(***************************************************************************)
(* No task waits for a dispatch that is gone.  A federated worker that is  *)
(* not settled still has its dispatch, so the answers that put its task    *)
(* back to dispatched find an active row; a worker in doubt has its task   *)
(* blocked, so no step that ends its row alone leaves the task dispatched. *)
(***************************************************************************)
HeldInv ==
  /\ DispatchedIsHeld
  /\ \A r \in Row :
       /\ rows < r => ~federated[r]
       /\ federated[r] => assignee[r] = NoTerminal
       /\ federated[r] /\ worker[r] \in Unsettled => Active(r)
       /\ Active(r) /\ worker[r] \in Doubt => taskStatus[rowTask[r]] # "dispatched"
       /\ worker[r] = "starting" => rowStatus[r] # "dispatched"

\* The second half of HeldInv, in the next state, for the row r.
HeldRow(r) ==
  /\ rows' < r => ~federated'[r]
  /\ federated'[r] => assignee'[r] = NoTerminal
  /\ federated'[r] /\ worker'[r] \in Unsettled => Active(r)'
  /\ Active(r)' /\ worker'[r] \in Doubt => taskStatus'[rowTask'[r]] # "dispatched"
  /\ worker'[r] = "starting" => rowStatus'[r] # "dispatched"

\* Rows only end, and no task whose row ends stays dispatched.
LEMMA HeldKept ==
  ASSUME TypeOK, HeldInv, rowTask' = rowTask,
         \A t \in Task : taskStatus'[t] = "dispatched" =>
           \/ taskStatus[t] = "dispatched" /\ \A r \in Row : rowTask[r] = t /\ Active(r) => Active(r)'
           \/ \E r \in Row : rowTask[r] = t /\ Active(r)',
         \A r \in Row : HeldRow(r)
  PROVE  HeldInv'
<1>1. DispatchedIsHeld'
  BY DEF HeldInv, DispatchedIsHeld
<1> QED BY <1>1 DEF HeldInv, HeldRow

\* A new row is active, is the task's only active one and is not in doubt.
LEMMA HeldInsert ==
  ASSUME TypeOK, ReleaseInv, HoldInv, HeldInv, NEW t \in Task, NEW s \in ActiveStatus,
         NEW term, NEW n, InsertRow(t, s, term, n), SetTask(t, "dispatched"),
         \A r \in Row : rowTask[r] = t => ~Active(r),
         \A r \in Row \ {rows + 1} : worker'[r] = worker[r] /\ federated'[r] = federated[r],
         \/ worker'[rows + 1] = "none" /\ federated'[rows + 1] = federated[rows + 1]
         \/ worker'[rows + 1] = "starting" /\ s = "pending" /\ term = NoTerminal
  PROVE  HeldInv'
<1>1. /\ rows + 1 \in Row /\ rows' = rows + 1 /\ rowStatus'[rows + 1] = s
      /\ rows \in Nat
  BY DEF TypeOK, InsertRow, Row
<1>2. DispatchedIsHeld'
  <2> DEFINE new == rows + 1
  <2>1. new \in Row /\ rowStatus'[new] \in ActiveStatus /\ rowTask'[new] = t
    BY <1>1, InsertedRow
  <2>2. ASSUME NEW u \in Task \ {t}, taskStatus'[u] = "dispatched"
        PROVE  \E r \in Row : rowTask'[r] = u /\ Active(r)'
    <3>1. taskStatus[u] = "dispatched"
      BY <2>2 DEF TypeOK, SetTask
    <3>2. PICK r \in Row : rowTask[r] = u /\ Active(r)
      BY <3>1 DEF HeldInv, DispatchedIsHeld
    <3>3. r # rows + 1
      BY <3>2, InsertedRow
    <3> QED BY <3>2, <3>3, InsertedRow DEF Active
  <2> HIDE DEF new
  <2> QED BY <2>1, <2>2 DEF DispatchedIsHeld, Active
<1>3. ASSUME NEW r \in Row PROVE HeldRow(r)
  <2>1. CASE r = rows + 1
    BY <2>1, <1>1, InsertedRow DEF HeldInv, HeldRow, Active, Unsettled, Doubt, TypeOK
  <2>2. CASE r # rows + 1
    <3>1. /\ worker'[r] = worker[r] /\ federated'[r] = federated[r]
          /\ rowTask'[r] = rowTask[r] /\ assignee'[r] = assignee[r]
          /\ rowStatus'[r] = rowStatus[r]
      BY <2>2, InsertedRow
    <3>2. Active(r) => rowTask[r] \in Task \ {t}
      BY DEF HoldInv
    <3>3. Active(r) => taskStatus'[rowTask[r]] = taskStatus[rowTask[r]]
      BY <3>2 DEF TypeOK, SetTask
    <3>4. rows' < r => rows < r
      BY <1>1 DEF Row
    <3> QED BY <3>1, <3>3, <3>4 DEF HeldInv, HeldRow, Active
  <2> QED BY <2>1, <2>2
<1> QED BY <1>2, <1>3 DEF HeldInv, HeldRow


LEMMA HeldStep ==
  ASSUME Disciplined
  PROVE  TypeOK /\ ReleaseInv /\ HoldInv /\ HeldInv /\ [Next]_vars => HeldInv'
<1> SUFFICES ASSUME TypeOK, ReleaseInv, HoldInv, HeldInv, [Next]_vars PROVE HeldInv'
  OBVIOUS
<1>0. \A q, r \in Row : Active(q) /\ Active(r) /\ rowTask[q] = rowTask[r] => q = r
  BY DEF HoldInv, IsLatest, Row
<1> USE DEF Disciplined, ActiveStatus
<1>1. CASE TaskStep
  <2> PICK t \in Task :
        \/ \E D \in SUBSET (Task \ {t}) : CreateTask(t, D)
        \/ \E s \in TaskStatus : UpdateTask(t, s)
        \/ \E term \in Terminal, inject \in BOOLEAN : Dispatch(t, term, inject)
        \/ \E fed \in BOOLEAN : StartWorker(t, fed)
    BY <1>1 DEF TaskStep
  <2>1. ASSUME NEW D \in SUBSET (Task \ {t}), CreateTask(t, D) PROVE HeldInv'
    <3>1. /\ rowTask' = rowTask /\ rowStatus' = rowStatus
          /\ taskStatus'[t] # "dispatched"
          /\ \A u \in Task \ {t} : taskStatus'[u] = taskStatus[u]
      BY <2>1 DEF TypeOK, CreateTask, SetTask, rowVars, fixedVars
    <3>2. \A r \in Row : HeldRow(r)
      BY <2>1, <3>1 DEF HeldInv, HoldInv, HeldRow, CreateTask, Active, fixedVars
    <3> QED BY <3>1, <3>2, HeldKept DEF Active
  <2>2. ASSUME NEW s \in TaskStatus, UpdateTask(t, s) PROVE HeldInv'
    BY <2>2 DEF UpdateTask
  <2>3. ASSUME NEW term \in Terminal, NEW inject \in BOOLEAN, Dispatch(t, term, inject)
        PROVE HeldInv'
    <3>1. PICK n \in {0} \cup {failures[r] : r \in Row} : InsertRow(t, "dispatched", term, n)
      BY <2>3 DEF Dispatch, InsertContext
    <3>2. /\ SetTask(t, "dispatched") /\ worker' = worker /\ federated' = federated
          /\ worker[rows + 1] = "none"
      BY <2>3, <3>1, InsertedRow DEF Dispatch, ReleaseInv, TypeOK, Row
    <3>3. \A r \in Row : rowTask[r] = t => ~Active(r)
      BY <2>3 DEF HoldInv, Dispatch, InsertContext
    <3> QED BY <3>1, <3>2, <3>3, HeldInsert
  <2>4. ASSUME NEW fed \in BOOLEAN, StartWorker(t, fed) PROVE HeldInv'
    <3>1. InsertRow(t, "pending", NoTerminal, 0) /\ SetTask(t, "dispatched")
      BY <2>4 DEF StartWorker, InsertWorker
    <3>2. /\ worker'[rows + 1] = "starting"
          /\ \A r \in Row \ {rows + 1} : worker'[r] = worker[r] /\ federated'[r] = federated[r]
      BY <2>4, <3>1, InsertedRow DEF TypeOK, StartWorker, InsertWorker, SetWorker
    <3>3. \A r \in Row : rowTask[r] = t => ~Active(r)
      BY <2>4 DEF HoldInv, StartWorker
    <3> QED BY <3>1, <3>2, <3>3, HeldInsert
  <2> QED BY <2>1, <2>2, <2>3, <2>4
<1>2. ASSUME NEW r \in Row, DispatchStep(r) PROVE HeldInv'
  <2>1. CASE PromptAccepted(r) \/ PromptFailed(r)
    BY <2>1 DEF HoldInv, PromptAccepted, PromptFailed
  <2>2. CASE AgentExit(r)
    <3>1. taskStatus'[rowTask[r]] # "dispatched"
      BY <2>2 DEF TypeOK, HoldInv, AgentExit, FoundOnExit, FailDispatch, SetTask, FailedTask
    <3>2. \A u \in Task \ {rowTask[r]} : taskStatus'[u] = taskStatus[u]
      BY <2>2 DEF TypeOK, AgentExit, FailDispatch, SetTask
    <3>3. /\ rowStatus'[r] \notin ActiveStatus
          /\ \A q \in Row \ {r} : rowStatus'[q] = rowStatus[q]
      BY <2>2 DEF TypeOK, AgentExit, FailDispatch, SetRow, FailedRow
    <3>4. UNCHANGED <<rows, rowTask, federated, assignee, worker>> /\ ~federated[r]
      BY <2>2 DEF HeldInv, AgentExit, FoundOnExit, fixedVars
    <3>5. \A q \in Row : HeldRow(q)
      BY <2>2, <3>2, <3>3, <3>4, <1>0 DEF HeldInv, HoldInv, HeldRow, Active, AgentExit, FoundOnExit
    <3> QED BY <3>1, <3>2, <3>3, <3>4, <3>5, HeldKept DEF Active
  <2>3. ASSUME NEW succeeded \in BOOLEAN, Report(r, succeeded) PROVE HeldInv'
    <3>0. rowTask[r] \in Task /\ Active(r)
      BY <2>3 DEF Report, HoldInv, Active
    <3>1. taskStatus'[rowTask[r]] # "dispatched"
      BY <2>3, <3>0 DEF TypeOK, Report, Complete, SetTask
    <3>2. \A u \in Task \ {rowTask[r]} :
             taskStatus'[u] = taskStatus[u] \/ taskStatus'[u] # "dispatched"
      BY <2>3 DEF TypeOK, Report, Complete, SetTask
    <3>3. /\ rowStatus'[r] \notin ActiveStatus
          /\ \A q \in Row \ {r} : rowStatus'[q] = rowStatus[q]
      BY <2>3 DEF TypeOK, Report, SetRow
    <3>4. UNCHANGED <<rows, rowTask, federated, assignee>>
      BY <2>3 DEF Report, fixedVars
    <3>5. /\ \A q \in Row \ {r} : worker'[q] = worker[q]
          /\ worker'[r] = IF worker[r] # "ready" THEN worker[r]
                          ELSE IF succeeded THEN "succeeded" ELSE "failed"
      BY <2>3 DEF TypeOK, Report
    <3>6. federated[r] => worker'[r] \notin Unsettled
      BY <2>3, <3>0, <3>5 DEF HeldInv, Report, Unsettled, Doubt
    <3>7. worker'[r] = "starting" => worker[r] = "starting"
      BY <3>5
    <3>8. \A q \in Row \ {r} : HeldRow(q)
      BY <3>1, <3>2, <3>3, <3>4, <3>5 DEF HeldInv, HoldInv, HeldRow, Active
    <3>9. HeldRow(r)
      BY <3>3, <3>4, <3>6, <3>7 DEF HeldInv, HeldRow, Active
    <3> QED BY <3>1, <3>2, <3>3, <3>4, <3>8, <3>9, HeldKept DEF Active
  <2> QED BY <1>2, <2>1, <2>2, <2>3 DEF DispatchStep
<1>3. ASSUME NEW r \in Row, WorkerStep(r) PROVE HeldInv'
  <2>1. ASSUME NEW t \in Task, NEW fed \in BOOLEAN, RetryWorker(t, r, fed) PROVE HeldInv'
    <3>1. InsertRow(t, "pending", NoTerminal, 0) /\ SetTask(t, "dispatched")
      BY <2>1 DEF RetryWorker, InsertWorker
    <3>2. /\ worker'[rows + 1] = "starting"
          /\ \A q \in Row \ {rows + 1} : worker'[q] = worker[q] /\ federated'[q] = federated[q]
      BY <2>1, <3>1, InsertedRow DEF TypeOK, RetryWorker, InsertWorker, SetWorker
    <3>3. ~Active(r) /\ IsLatest(r) /\ rowTask[r] = t
      BY <2>1 DEF ReleaseInv, Settled, RetryWorker
    <3>4. \A q \in Row : rowTask[q] = t => ~Active(q)
      BY <3>3 DEF HoldInv, IsLatest, Row
    <3> QED BY <3>1, <3>2, <3>4, HeldInsert
  <2>2. ASSUME NEW term \in Terminal, AttachTerminal(r, term) PROVE HeldInv'
    <3>1. /\ UNCHANGED <<rows, rowTask, rowStatus, taskStatus, federated, worker>>
          /\ \A q \in Row \ {r} : assignee'[q] = assignee[q]
          /\ ~federated[r]
      BY <2>2 DEF TypeOK, AttachTerminal, taskVars, fixedVars
    <3>2. \A q \in Row : HeldRow(q)
      BY <3>1 DEF HeldInv, HeldRow, Active
    <3> QED BY <3>1, <3>2, HeldKept DEF Active
  <2>3. CASE WorkerReady(r)
    <3>1. /\ UNCHANGED <<rows, rowTask, taskStatus, federated, assignee>>
          /\ \A q \in Row \ {r} : rowStatus'[q] = rowStatus[q] /\ worker'[q] = worker[q]
          /\ rowStatus'[r] = "dispatched" /\ worker'[r] = "ready"
      BY <2>3 DEF TypeOK, WorkerReady, SetRow, SetWorker, taskVars, fixedVars
    <3>2. \A q \in Row : HeldRow(q)
      BY <3>1 DEF HeldInv, HeldRow, Active, Doubt
    <3> QED BY <3>1, <3>2, HeldKept DEF Active
  <2>4. CASE StartFailed(r) \/ \E s \in Settled : ReconcileEnded(r, s)
    <3>1. /\ UNCHANGED <<rows, rowTask, federated, assignee>>
          /\ \A q \in Row \ {r} : rowStatus'[q] = rowStatus[q] /\ worker'[q] = worker[q]
          /\ worker'[r] \in {"failed", "stopped"}
      BY <2>4 DEF TypeOK, StartFailed, ReconcileEnded, SetRow, FailIfActive, SetWorker, fixedVars
    <3>2. rowStatus'[r] \notin ActiveStatus
      BY <2>4 DEF TypeOK, StartFailed, ReconcileEnded, SetRow, FailIfActive
    <3>3. /\ \A u \in Task \ {rowTask[r]} : taskStatus'[u] = taskStatus[u]
          /\ rowTask[r] \in Task => taskStatus'[rowTask[r]] # "dispatched"
      BY <2>4 DEF TypeOK, StartFailed, ReconcileEnded, SetTask
    <3>4. \A q \in Row \ {r} : Active(q) => taskStatus'[rowTask[q]] # "dispatched"
                                          \/ taskStatus'[rowTask[q]] = taskStatus[rowTask[q]]
      BY <3>3 DEF HoldInv
    <3>5. \A q \in Row : HeldRow(q)
      BY <3>1, <3>2, <3>4 DEF HeldInv, HeldRow, Active, Unsettled
    <3> QED BY <3>1, <3>2, <3>3, <3>5, HeldKept DEF Active
  <2>5. CASE StartUnknown(r)
    <3>1. /\ UNCHANGED <<rows, rowTask, federated, assignee, rowStatus>>
          /\ \A q \in Row \ {r} : worker'[q] = worker[q]
          /\ worker[r] = "starting" /\ worker'[r] = "start_unknown"
          /\ \A u \in Task : taskStatus'[u] \in {taskStatus[u], "blocked"}
          /\ rowTask[r] \in Task => taskStatus'[rowTask[r]] = "blocked"
      BY <2>5 DEF TypeOK, StartUnknown, SetWorker, SetTask, fixedVars
    <3>2. \A q \in Row : HeldRow(q)
      BY <3>1 DEF HeldInv, HoldInv, HeldRow, Active, Unsettled
    <3> QED BY <3>1, <3>2, HeldKept DEF Active
  <2>6. CASE ReconcileReady(r)
    <3>1. /\ UNCHANGED <<rows, rowTask, federated, assignee>>
          /\ \A q \in Row \ {r} : rowStatus'[q] = rowStatus[q] /\ worker'[q] = worker[q]
          /\ worker'[r] = "ready"
          /\ \A u \in Task \ {rowTask[r]} : taskStatus'[u] = taskStatus[u]
      BY <2>6 DEF TypeOK, ReconcileReady, SetWorker, fixedVars
    <3>2. Active(r)
      BY <2>6 DEF HeldInv, ReconcileReady, Unsettled
    <3>3. rowStatus'[r] \in ActiveStatus
      BY <2>6, <3>2 DEF TypeOK, ReconcileReady, Active
    <3>4. \A q \in Row \ {r} : Active(q) => taskStatus'[rowTask[q]] = taskStatus[rowTask[q]]
      BY <3>1, <3>2, <1>0 DEF HoldInv
    <3>5. \A q \in Row : HeldRow(q)
      BY <3>1, <3>3, <3>4 DEF HeldInv, HeldRow, Active, Doubt
    <3> QED BY <3>1, <3>3, <3>5, HeldKept DEF Active
  <2>7. CASE MissingTerminal(r)
    <3>1. /\ UNCHANGED <<rows, rowTask, federated, assignee>>
          /\ \A q \in Row \ {r} : rowStatus'[q] = rowStatus[q] /\ worker'[q] = worker[q]
          /\ worker'[r] \in {"stopped", "abandoned"}
          /\ rowStatus'[r] \notin ActiveStatus
          /\ \A u \in Task \ {rowTask[r]} : taskStatus'[u] = taskStatus[u]
      BY <2>7 DEF TypeOK, MissingTerminal, SetRow, SetWorker, FailedRow, Active, rowVars, fixedVars
    <3>2. Active(r) => taskStatus'[rowTask[r]] # "dispatched"
      BY <2>7 DEF TypeOK, HeldInv, HoldInv, MissingTerminal, FailedTask, Doubt
    <3>3. ~Active(r) => taskStatus' = taskStatus
      BY <2>7 DEF MissingTerminal
    <3>4. \A q \in Row \ {r} : Active(q) => taskStatus'[rowTask[q]] = taskStatus[rowTask[q]]
      BY <3>1, <3>3, <1>0 DEF HoldInv
    <3>5. \A q \in Row : HeldRow(q)
      BY <3>1, <3>4 DEF HeldInv, HeldRow, Active, Unsettled
    <3> QED BY <3>1, <3>2, <3>3, <3>5, HeldKept DEF Active
  <2>8. CASE Recovered(r)
    <3>1. UNCHANGED <<rows, rowTask, federated, assignee, rowStatus, worker, taskStatus>>
      BY <2>8 DEF Recovered, taskVars, rowVars, fixedVars
    <3>2. \A q \in Row : HeldRow(q)
      BY <3>1 DEF HeldInv, HeldRow, Active
    <3> QED BY <3>1, <3>2, HeldKept DEF Active
  <2> QED BY <1>3, <2>1, <2>2, <2>3, <2>4, <2>5, <2>6, <2>7, <2>8 DEF WorkerStep
<1>4. ASSUME NEW r \in Row, StopStep(r) PROVE HeldInv'
  <2>1. CASE Release(r)
    <3>1. /\ UNCHANGED <<rows, rowTask, federated, assignee, worker>>
          /\ \A q \in Row \ {r} : rowStatus'[q] = rowStatus[q]
          /\ rowStatus'[r] = "failed" /\ worker[r] = "none"
      BY <2>1 DEF TypeOK, Release, SetRow, fixedVars
    <3>2. /\ \A u \in Task : taskStatus'[u] \in {taskStatus[u], "blocked"}
          /\ taskStatus'[rowTask[r]] = "blocked"
      BY <2>1 DEF TypeOK, HoldInv, Release, SetTask
    <3>3. \A q \in Row : HeldRow(q)
      BY <3>1, <3>2 DEF HeldInv, HoldInv, HeldRow, Active, Unsettled
    <3> QED BY <3>1, <3>2, <3>3, HeldKept DEF Active
  <2>2. CASE BeginStop(r)
    <3>1. /\ UNCHANGED <<rows, rowTask, federated, assignee, rowStatus>>
          /\ \A q \in Row \ {r} : worker'[q] = worker[q]
          /\ worker[r] \in {"ready", "start_unknown"} /\ worker'[r] = "stopping"
          /\ \A u \in Task : taskStatus'[u] \in {taskStatus[u], "blocked"}
          /\ rowTask[r] \in Task => taskStatus'[rowTask[r]] = "blocked"
      BY <2>2 DEF TypeOK, BeginStop, SetWorker, SetTask, fixedVars
    <3>2. \A q \in Row : HeldRow(q)
      BY <3>1 DEF HeldInv, HoldInv, HeldRow, Active, Unsettled
    <3> QED BY <3>1, <3>2, HeldKept DEF Active
  <2>3. CASE SettleStop(r) \/ ReconcileStop(r)
    <3>1. /\ UNCHANGED <<rows, rowTask, federated, assignee, taskStatus>>
          /\ \A q \in Row \ {r} : rowStatus'[q] = rowStatus[q] /\ worker'[q] = worker[q]
          /\ worker[r] \in Doubt /\ worker'[r] = "stopped" /\ rowStatus'[r] \notin ActiveStatus
      BY <2>3 DEF TypeOK, SettleStop, ReconcileStop, SetWorker, FailIfActive, Doubt, taskVars,
                  fixedVars
    <3>2. Active(r) => taskStatus[rowTask[r]] # "dispatched"
      BY <3>1 DEF HeldInv
    <3>3. \A q \in Row : HeldRow(q)
      BY <3>1 DEF HeldInv, HeldRow, Active, Unsettled
    <3> QED BY <3>1, <3>2, <3>3, HeldKept DEF Active
  <2>4. CASE ResumeForRelay(r)
    <3>1. /\ UNCHANGED <<rows, rowTask, federated, assignee, rowStatus>>
          /\ \A q \in Row \ {r} : worker'[q] = worker[q]
          /\ worker'[r] = "ready"
          /\ \A u \in Task \ {rowTask[r]} : taskStatus'[u] = taskStatus[u]
      BY <2>4 DEF TypeOK, ResumeForRelay, SetWorker, rowVars, fixedVars
    <3>2. Active(r)
      BY <2>4 DEF HeldInv, ResumeForRelay, Unsettled
    <3>3. \A q \in Row \ {r} : Active(q) => taskStatus'[rowTask[q]] = taskStatus[rowTask[q]]
      BY <3>1, <3>2, <1>0 DEF HoldInv
    <3>4. \A q \in Row : HeldRow(q)
      BY <3>1, <3>2, <3>3 DEF HeldInv, HeldRow, Active, Doubt
    <3> QED BY <3>1, <3>2, <3>4, HeldKept DEF Active
  <2>5. CASE StopUnknown(r)
    <3>1. /\ UNCHANGED <<rows, rowTask, federated, assignee, rowStatus, taskStatus>>
          /\ \A q \in Row \ {r} : worker'[q] = worker[q]
          /\ worker[r] = "stopping" /\ worker'[r] = "stop_unknown"
      BY <2>5 DEF TypeOK, StopUnknown, SetWorker, rowVars, taskVars, fixedVars
    <3>2. \A q \in Row : HeldRow(q)
      BY <3>1 DEF HeldInv, HeldRow, Active, Unsettled, Doubt
    <3> QED BY <3>1, <3>2, HeldKept DEF Active
  <2>6. CASE Abandon(r)
    <3>1. /\ UNCHANGED <<rows, rowTask, federated, assignee>>
          /\ \A q \in Row \ {r} : rowStatus'[q] = rowStatus[q] /\ worker'[q] = worker[q]
          /\ worker'[r] = "abandoned" /\ rowStatus'[r] \notin ActiveStatus
          /\ \A u \in Task : taskStatus'[u] \in {taskStatus[u], "blocked"}
          /\ rowTask[r] \in Task => taskStatus'[rowTask[r]] = "blocked"
      BY <2>6 DEF TypeOK, Abandon, SetWorker, SetTask, FailIfActive, fixedVars
    <3>2. \A q \in Row : HeldRow(q)
      BY <3>1 DEF HeldInv, HoldInv, HeldRow, Active, Unsettled
    <3> QED BY <3>1, <3>2, HeldKept DEF Active
  <2> QED BY <1>4, <2>1, <2>2, <2>3, <2>4, <2>5, <2>6 DEF StopStep
<1>5. ASSUME UNCHANGED <<rows, rowTask, federated, assignee, rowStatus, worker, taskStatus>>
      PROVE  HeldInv'
  <2>1. \A q \in Row : HeldRow(q)
    BY <1>5 DEF HeldInv, HeldRow, Active
  <2> QED BY <1>5, <2>1, HeldKept DEF Active
<1>6. ASSUME NEW r \in Row, QuestionStep(r) PROVE HeldInv'
  BY <1>6, <1>5 DEF QuestionStep, Ask, Answer, taskVars, rowVars, fixedVars
<1>7. CASE GateStep
  BY <1>7 DEF GateStep, ResolveGate, CreateGate
<1>8. CASE CrashStep
  <2>1. CASE Crash
    BY <2>1, <1>5 DEF Crash, taskVars, rowVars, fixedVars
  <2> QED BY <1>8, <2>1 DEF CrashStep, TornComplete, TornDispatch, TornFail, TornResolve, TornGate
<1>9. CASE UNCHANGED vars
  BY <1>9, <1>5 DEF vars
<1> QED BY <1>1, <1>2, <1>3, <1>4, <1>6, <1>7, <1>8, <1>9 DEF Next

LEMMA HeldCorrect ==
  ASSUME Disciplined
  PROVE  Spec => []HeldInv
<1>1. Init => HeldInv
  BY DEF Init, HeldInv, DispatchedIsHeld, Unsettled, Doubt
<1>2. TypeOK /\ ReleaseInv /\ HoldInv /\ HeldInv /\ [Next]_vars => HeldInv'
  BY HeldStep
<1> QED BY <1>1, <1>2, TypeCorrect, ReleaseCorrect, ActiveIsLatest, PTL DEF Spec

\* Under the same discipline no task is left dispatched without a dispatch
\* that is active, whatever order exits, stops, answers of the server, reports
\* and restarts come in.
THEOREM NoTaskIsStranded ==
  ASSUME Disciplined
  PROVE  Spec => []DispatchedIsHeld
<1>1. HeldInv => DispatchedIsHeld
  BY DEF HeldInv
<1> QED BY <1>1, HeldCorrect, PTL

-----------------------------------------------------------------------------
(***************************************************************************)
(* Supervision while no agent of a local worker exits.  Then a worker that *)
(* is not settled has its dispatch, so every handler that comes back       *)
(* writes to the task's latest row and to a task that row holds.  Agents   *)
(* without a worker may exit, and a federated worker has none here.        *)
(***************************************************************************)
Undisturbed == Disciplined /\ "worker_exit" \notin Ops

\* An agent that may exit is the agent of an active dispatch without a worker.
LEMMA ExitIsUnsupervised ==
  ASSUME Undisturbed, HoldInv, NEW r \in Row, AgentExit(r)
  PROVE  Active(r) /\ IsLatest(r) /\ rowTask[r] \in Task /\ worker[r] = "none"
  BY DEF AgentExit, FoundOnExit, Undisturbed, HoldInv

SuperRow(r) ==
  /\ worker[r] # "none" => rowTask[r] \in Task
  /\ worker[r] \in Unsettled => Active(r)
  /\ worker[r] \in {"starting", "ready"} => taskStatus[rowTask[r]] = "dispatched"
  /\ worker[r] \in Doubt => taskStatus[rowTask[r]] = "blocked"
  /\ Active(r) => taskStatus[rowTask[r]] \in {"dispatched", "blocked"}
  /\ worker[r] \in {"failed", "stopped"} /\ IsLatest(r) =>
       taskStatus[rowTask[r]] \in {"failed", "blocked"}

\* Of a task that has ever been ready, every dependency is completed.
StartedInOrder ==
  \A t \in Task : taskStatus[t] \notin {"absent", "pending"} =>
    \A d \in deps[t] : taskStatus[d] = "completed"

SuperInv == StartedInOrder /\ \A r \in Row : SuperRow(r)

\* The condition of CompletedIsFinal on a step.
CompletedKept ==
  \A t \in Task : taskStatus[t] = "completed" => taskStatus'[t] = "completed"

SuperGoal == SuperInv' /\ CompletedKept

\* A step of the latest row r of a task: it moves r, the task of r and, if it
\* completes it, tasks that were pending; r and its task end up in agreement.
LEMMA SuperOwn ==
  ASSUME TypeOK, HoldInv, SuperInv, NEW r \in Row, IsLatest(r),
         Active(r) \/ worker[r] \in {"failed", "stopped"},
         rowTask' = rowTask, deps' = deps,
         \A q \in Row \ {r} : rowStatus'[q] = rowStatus[q] /\ worker'[q] = worker[q],
         \A u \in Task \ {rowTask[r]} :
           \/ taskStatus'[u] = taskStatus[u]
           \/ /\ taskStatus[u] = "pending" /\ taskStatus'[u] = "ready"
              /\ \A d \in deps[u] : taskStatus'[d] = "completed",
         worker'[r] # "none" \/ worker[r] = "none",
         worker'[r] \in Unsettled => Active(r)',
         worker'[r] \in {"starting", "ready"} => taskStatus'[rowTask[r]] = "dispatched",
         worker'[r] \in Doubt => taskStatus'[rowTask[r]] = "blocked",
         Active(r)' => taskStatus'[rowTask[r]] \in {"dispatched", "blocked"},
         worker'[r] \in {"failed", "stopped"} => taskStatus'[rowTask[r]] \in {"failed", "blocked"}
  PROVE  SuperGoal
<1>1. /\ rowTask[r] \in Task
      /\ taskStatus[rowTask[r]] \in {"dispatched", "blocked", "failed"}
  BY DEF HoldInv, SuperInv, SuperRow
<1>2. CompletedKept
  BY <1>1 DEF CompletedKept
<1>4. StartedInOrder'
  BY <1>1, <1>2 DEF TypeOK, SuperInv, StartedInOrder, CompletedKept
<1>5. ASSUME NEW q \in Row PROVE SuperRow(q)'
  <2>1. CASE q = r
    BY <2>1, <1>1 DEF SuperRow
  <2>2. CASE q # r /\ rowTask[q] = rowTask[r]
    <3>1. ~IsLatest(q)
      BY <2>2 DEF IsLatest, Row
    <3>2. ~Active(q) /\ worker[q] \notin Unsettled
      BY <3>1 DEF HoldInv, SuperInv, SuperRow
    <3>3. ~Active(q)' /\ worker'[q] \notin Unsettled /\ ~IsLatest(q)'
      BY <2>2, <3>1, <3>2 DEF Active, IsLatest
    <3> QED BY <3>3, <1>1, <2>2 DEF SuperRow, Unsettled, Doubt
  <2>3. CASE rowTask[q] # rowTask[r]
    <3>1. /\ rowStatus'[q] = rowStatus[q] /\ worker'[q] = worker[q]
          /\ IsLatest(q)' => IsLatest(q)
      BY <2>3 DEF IsLatest
    <3>2. rowTask[q] \in Task /\ taskStatus[rowTask[q]] # "pending"
            => taskStatus'[rowTask[q]] = taskStatus[rowTask[q]]
      BY <2>3
    <3>3. Active(q) => rowTask[q] \in Task
      BY DEF HoldInv
    <3> QED BY <3>1, <3>2, <3>3 DEF SuperInv, SuperRow, Active, Doubt
  <2> QED BY <2>1, <2>2, <2>3
<1> QED BY <1>2, <1>4, <1>5 DEF SuperGoal, SuperInv

\* A new row for a task that may be started.
LEMMA SuperInsert ==
  ASSUME TypeOK, ReleaseInv, HoldInv, SuperInv, NEW t \in Task, NEW s \in ActiveStatus,
         NEW term, NEW n, InsertRow(t, s, term, n), SetTask(t, "dispatched"), deps' = deps,
         taskStatus[t] \in {"ready", "failed", "blocked"},
         \A q \in Row : rowTask[q] = t => ~Active(q),
         \A q \in Row \ {rows + 1} : worker'[q] = worker[q],
         worker'[rows + 1] \in {"none", "starting"}
  PROVE  SuperGoal
<1> DEFINE new == rows + 1
<1>1. /\ new \in Row /\ rowTask'[new] = t /\ rowStatus'[new] \in ActiveStatus
      /\ rowTask[new] = NoTask /\ worker[new] = "none" /\ worker'[new] \in {"none", "starting"}
      /\ \A q \in Row : q > new => worker[q] = "none" /\ rowTask[q] # t
  BY InsertedRow, DispatchLedgerAssumption DEF TypeOK, InsertRow, ReleaseInv, Row
<1>2. \A q \in Row \ {new} : /\ rowTask'[q] = rowTask[q] /\ rowStatus'[q] = rowStatus[q]
                             /\ worker'[q] = worker[q]
  BY InsertedRow
<1>3. taskStatus'[t] = "dispatched" /\ \A u \in Task \ {t} : taskStatus'[u] = taskStatus[u]
  BY DEF TypeOK, SetTask
<1> HIDE DEF new
<1>4. CompletedKept
  BY <1>3 DEF CompletedKept
<1>6. StartedInOrder'
  BY <1>3, <1>4 DEF TypeOK, SuperInv, StartedInOrder, CompletedKept
<1>7. ASSUME NEW q \in Row PROVE SuperRow(q)'
  <2>1. CASE q = new
    BY <2>1, <1>1, <1>3 DEF SuperRow, Active, Unsettled, Doubt
  <2>2. CASE q # new /\ rowTask[q] = t
    <3>1. ~Active(q) /\ worker[q] \notin Unsettled
      BY <2>2 DEF SuperInv, SuperRow
    <3>2. ~IsLatest(q)'
      BY <2>2, <1>1, <1>2 DEF IsLatest, Row
    <3> QED BY <3>1, <3>2, <2>2, <1>2 DEF SuperRow, Active, Unsettled, Doubt
  <2>3. CASE q # new /\ rowTask[q] # t
    <3>1. rowTask[q] \in Task /\ IsLatest(q)' => IsLatest(q)
      BY <2>3, <1>1, <1>2, DispatchLedgerAssumption DEF IsLatest
    <3>2. Active(q) \/ worker[q] # "none" => rowTask[q] \in Task
      BY DEF HoldInv, SuperInv, SuperRow
    <3> QED BY <3>1, <3>2, <2>3, <1>2, <1>3 DEF SuperInv, SuperRow, Active, Doubt, Unsettled
  <2> QED BY <2>1, <2>2, <2>3
<1> QED BY <1>4, <1>6, <1>7 DEF SuperGoal, SuperInv

LEMMA SuperStep ==
  ASSUME Undisturbed
  PROVE  TypeOK /\ ReleaseInv /\ HoldInv /\ HeldInv /\ SuperInv /\ [Next]_vars => SuperGoal
<1> SUFFICES ASSUME TypeOK, ReleaseInv, HoldInv, HeldInv, SuperInv, [Next]_vars
               PROVE  SuperGoal
  OBVIOUS
<1> USE DEF Undisturbed, Disciplined, ActiveStatus
<1>0. ASSUME UNCHANGED <<rowTask, rowStatus, worker, taskStatus, deps>> PROVE SuperGoal
  <2>1. SuperInv'
    BY <1>0 DEF SuperInv, StartedInOrder, SuperRow, Active, IsLatest
  <2> QED BY <1>0, <2>1 DEF SuperGoal, CompletedKept
<1>1. CASE TaskStep
  <2> PICK t \in Task :
        \/ \E D \in SUBSET (Task \ {t}) : CreateTask(t, D)
        \/ \E s \in TaskStatus : UpdateTask(t, s)
        \/ \E term \in Terminal, inject \in BOOLEAN : Dispatch(t, term, inject)
        \/ \E fed \in BOOLEAN : StartWorker(t, fed)
    BY <1>1 DEF TaskStep
  <2>1. ASSUME NEW D \in SUBSET (Task \ {t}), CreateTask(t, D) PROVE SuperGoal
    <3>1. /\ UNCHANGED <<rowTask, rowStatus, worker>>
          /\ taskStatus[t] = "absent"
          /\ taskStatus'[t] = IF \A d \in D : taskStatus[d] = "completed" THEN "ready" ELSE "pending"
          /\ deps'[t] = D
          /\ \A u \in Task \ {t} : taskStatus'[u] = taskStatus[u] /\ deps'[u] = deps[u]
      BY <2>1 DEF TypeOK, CreateTask, Exists, SetTask, rowVars, fixedVars
    <3>2. CompletedKept
      BY <3>1 DEF CompletedKept
    <3>4. StartedInOrder'
      BY <3>1, <3>2 DEF TypeOK, SuperInv, StartedInOrder, CompletedKept
    <3>5. ASSUME NEW q \in Row PROVE SuperRow(q)'
      BY <3>1 DEF SuperInv, SuperRow, HoldInv, Active, IsLatest, Doubt, Unsettled
    <3> QED BY <3>2, <3>4, <3>5 DEF SuperGoal, SuperInv
  <2>2. ASSUME NEW s \in TaskStatus, UpdateTask(t, s) PROVE SuperGoal
    BY <2>2 DEF UpdateTask
  <2>3. ASSUME NEW term \in Terminal, NEW inject \in BOOLEAN, Dispatch(t, term, inject)
        PROVE SuperGoal
    <3>1. PICK n \in {0} \cup {failures[r] : r \in Row} : InsertRow(t, "dispatched", term, n)
      BY <2>3 DEF Dispatch, InsertContext
    <3>2. /\ SetTask(t, "dispatched") /\ worker' = worker /\ deps' = deps
          /\ worker[rows + 1] = "none" /\ taskStatus[t] = "ready"
      BY <2>3, <3>1, InsertedRow DEF Dispatch, InsertContext, ReleaseInv, TypeOK, Row
    <3>3. \A r \in Row : rowTask[r] = t => ~Active(r)
      BY <3>2 DEF HoldInv
    <3> QED BY <3>1, <3>2, <3>3, SuperInsert
  <2>4. ASSUME NEW fed \in BOOLEAN, StartWorker(t, fed) PROVE SuperGoal
    <3>1. /\ InsertRow(t, "pending", NoTerminal, 0) /\ SetTask(t, "dispatched")
          /\ deps' = deps /\ taskStatus[t] = "ready"
      BY <2>4 DEF StartWorker, InsertWorker
    <3>2. /\ worker'[rows + 1] = "starting"
          /\ \A r \in Row \ {rows + 1} : worker'[r] = worker[r]
      BY <2>4, <3>1, InsertedRow DEF TypeOK, StartWorker, InsertWorker, SetWorker
    <3>3. \A r \in Row : rowTask[r] = t => ~Active(r)
      BY <3>1 DEF HoldInv
    <3> QED BY <3>1, <3>2, <3>3, SuperInsert
  <2> QED BY <2>1, <2>2, <2>3, <2>4
<1>2. ASSUME NEW r \in Row, DispatchStep(r) PROVE SuperGoal
  <2>1. CASE PromptAccepted(r) \/ PromptFailed(r)
    BY <2>1 DEF HoldInv, PromptAccepted, PromptFailed
  <2>3. CASE AgentExit(r)
    <3>1. Active(r) /\ IsLatest(r) /\ rowTask[r] \in Task /\ worker[r] = "none"
      BY <2>3, ExitIsUnsupervised
    <3>2. taskStatus[rowTask[r]] \in {"dispatched", "blocked"}
      BY <3>1 DEF SuperInv, SuperRow
    <3>3. /\ UNCHANGED <<rowTask, deps, worker>>
          /\ \A q \in Row \ {r} : rowStatus'[q] = rowStatus[q]
          /\ rowStatus'[r] \in {"circuit_broken", "failed"}
          /\ \A u \in Task \ {rowTask[r]} : taskStatus'[u] = taskStatus[u]
      BY <2>3, <3>1 DEF TypeOK, AgentExit, FailDispatch, FailedRow, SetRow, SetTask, fixedVars
    <3> QED BY <3>1, <3>3, SuperOwn DEF Active, Doubt, Unsettled
  <2>2. ASSUME NEW succeeded \in BOOLEAN, Report(r, succeeded) PROVE SuperGoal
    <3>1. Active(r) /\ IsLatest(r) /\ rowTask[r] \in Task
      BY <2>2 DEF Report, HoldInv, Active
    <3>2. worker[r] \notin Doubt \cup {"starting"}
      BY <2>2 DEF Report, HeldInv, SuperInv, SuperRow
    <3>3. /\ UNCHANGED <<rowTask, deps>>
          /\ \A q \in Row \ {r} : rowStatus'[q] = rowStatus[q] /\ worker'[q] = worker[q]
          /\ rowStatus'[r] \notin ActiveStatus
          /\ worker'[r] \in Settled \cup {"none"}
      BY <2>2, <3>2 DEF TypeOK, Report, SetRow, Unsettled, Doubt, Settled, fixedVars
    <3>4. CASE succeeded
      <4>1. /\ taskStatus'[rowTask[r]] = "completed"
            /\ \A u \in Task \ {rowTask[r]} : taskStatus'[u] =
                 IF u \in Promotable(rowTask[r]) THEN "ready" ELSE taskStatus[u]
        BY <2>2, <3>1, <3>4 DEF TypeOK, Report, Complete
      <4>2. worker'[r] \in {"succeeded", worker[r]}
        BY <2>2, <3>4 DEF TypeOK, Report
      <4>3. worker'[r] \notin {"failed", "stopped"}
        BY <3>1, <4>2 DEF ReleaseInv, Settled
      <4>4. \A u \in Promotable(rowTask[r]) : /\ taskStatus[u] = "pending"
                                             /\ \A d \in deps[u] : taskStatus'[d] = "completed"
        BY <4>1 DEF TypeOK, Promotable
      <4>5. worker'[r] # "none" \/ worker[r] = "none"
        BY <2>2 DEF TypeOK, Report
      <4> QED BY <3>1, <3>3, <4>1, <4>3, <4>4, <4>5, SuperOwn
              DEF Active, Settled, Unsettled, Doubt
    <3>5. CASE ~succeeded
      <4>1. /\ taskStatus'[rowTask[r]] = "failed"
            /\ \A u \in Task \ {rowTask[r]} : taskStatus'[u] = taskStatus[u]
        BY <2>2, <3>1, <3>5 DEF TypeOK, Report, SetTask
      <4>2. worker'[r] # "none" \/ worker[r] = "none"
        BY <2>2 DEF TypeOK, Report
      <4> QED BY <3>1, <3>3, <4>1, <4>2, SuperOwn DEF Active, Settled, Unsettled, Doubt
    <3> QED BY <3>4, <3>5
  <2> QED BY <1>2, <2>1, <2>2, <2>3 DEF DispatchStep
<1>3. ASSUME NEW r \in Row, worker[r] \in Unsettled
      PROVE  /\ Active(r) /\ IsLatest(r) /\ rowTask[r] \in Task
             /\ taskStatus[rowTask[r]] \in {"dispatched", "blocked"}
             /\ worker[r] \in {"starting", "ready"} => taskStatus[rowTask[r]] = "dispatched"
             /\ worker[r] \in Doubt => taskStatus[rowTask[r]] = "blocked"
             /\ ~(worker[r] = "starting" /\ rowStatus[r] = "dispatched")
  BY <1>3 DEF HoldInv, HeldInv, SuperInv, SuperRow
<1>4. ASSUME NEW r \in Row, WorkerStep(r) PROVE SuperGoal
  <2>1. ASSUME NEW t \in Task, NEW fed \in BOOLEAN, RetryWorker(t, r, fed) PROVE SuperGoal
    <3>1. /\ InsertRow(t, "pending", NoTerminal, 0) /\ SetTask(t, "dispatched")
          /\ deps' = deps /\ taskStatus[t] \in {"failed", "blocked"}
      BY <2>1 DEF RetryWorker, InsertWorker
    <3>2. /\ worker'[rows + 1] = "starting"
          /\ \A q \in Row \ {rows + 1} : worker'[q] = worker[q]
      BY <2>1, <3>1, InsertedRow DEF TypeOK, RetryWorker, InsertWorker, SetWorker
    <3>3. ~Active(r) /\ IsLatest(r) /\ rowTask[r] = t
      BY <2>1 DEF ReleaseInv, Settled, RetryWorker
    <3>4. \A q \in Row : rowTask[q] = t => ~Active(q)
      BY <3>3 DEF HoldInv, IsLatest, Row
    <3> QED BY <3>1, <3>2, <3>4, SuperInsert
  <2>2. ASSUME NEW term \in Terminal, AttachTerminal(r, term) PROVE SuperGoal
    BY <2>2, <1>0 DEF AttachTerminal, taskVars, fixedVars
  <2>3. CASE WorkerReady(r)
    <3>1. worker[r] = "starting" /\ worker[r] \in Unsettled
      BY <2>3 DEF WorkerReady, Unsettled
    <3>2. /\ UNCHANGED <<rowTask, deps, taskStatus>>
          /\ \A q \in Row \ {r} : rowStatus'[q] = rowStatus[q] /\ worker'[q] = worker[q]
          /\ rowStatus'[r] = "dispatched" /\ worker'[r] = "ready"
      BY <2>3 DEF TypeOK, WorkerReady, SetRow, SetWorker, taskVars, fixedVars
    <3> QED BY <3>1, <3>2, <1>3, SuperOwn DEF Active, Doubt
  <2>4. CASE StartFailed(r) \/ \E s \in Settled : ReconcileEnded(r, s)
    <3>1. worker[r] \in Unsettled
      BY <2>4 DEF StartFailed, ReconcileEnded, Unsettled
    <3>2. /\ UNCHANGED <<rowTask, deps>>
          /\ \A q \in Row \ {r} : rowStatus'[q] = rowStatus[q] /\ worker'[q] = worker[q]
          /\ worker'[r] \in {"failed", "stopped"}
          /\ rowStatus'[r] \notin ActiveStatus
      BY <2>4 DEF TypeOK, StartFailed, ReconcileEnded, SetRow, FailIfActive, SetWorker, fixedVars
    <3>3. /\ \A u \in Task \ {rowTask[r]} : taskStatus'[u] = taskStatus[u]
          /\ taskStatus'[rowTask[r]] = "failed"
      BY <2>4, <3>1, <1>3 DEF TypeOK, StartFailed, ReconcileEnded, SetTask
    <3> QED BY <3>1, <3>2, <3>3, <1>3, SuperOwn DEF Active, Doubt, Unsettled
  <2>5. CASE StartUnknown(r)
    <3>1. worker[r] \in Unsettled
      BY <2>5 DEF StartUnknown, Unsettled
    <3>2. /\ UNCHANGED <<rowTask, deps, rowStatus>>
          /\ \A q \in Row \ {r} : worker'[q] = worker[q]
          /\ worker'[r] = "start_unknown"
          /\ \A u \in Task \ {rowTask[r]} : taskStatus'[u] = taskStatus[u]
          /\ taskStatus'[rowTask[r]] = "blocked"
      BY <2>5, <3>1, <1>3 DEF TypeOK, StartUnknown, SetWorker, SetTask, fixedVars
    <3> QED BY <3>1, <3>2, <1>3, SuperOwn DEF Active
  <2>6. CASE ReconcileReady(r)
    <3>1. worker[r] \in Unsettled
      BY <2>6 DEF ReconcileReady, Unsettled
    <3>2. /\ UNCHANGED <<rowTask, deps>>
          /\ \A q \in Row \ {r} : rowStatus'[q] = rowStatus[q] /\ worker'[q] = worker[q]
          /\ worker'[r] = "ready" /\ rowStatus'[r] \in ActiveStatus
          /\ \A u \in Task \ {rowTask[r]} : taskStatus'[u] = taskStatus[u]
          /\ taskStatus'[rowTask[r]] = "dispatched"
      BY <2>6, <3>1, <1>3 DEF TypeOK, ReconcileReady, SetWorker, Active, fixedVars
    <3> QED BY <3>1, <3>2, <1>3, SuperOwn DEF Active, Doubt
  <2>7. CASE MissingTerminal(r)
    <3>1. worker[r] \in Unsettled
      BY <2>7 DEF MissingTerminal
    <3>2. /\ UNCHANGED <<rowTask, deps>>
          /\ \A q \in Row \ {r} : rowStatus'[q] = rowStatus[q] /\ worker'[q] = worker[q]
          /\ worker'[r] = IF worker[r] \in {"stopping", "stop_unknown"}
                          THEN "stopped" ELSE "abandoned"
          /\ rowStatus'[r] \notin ActiveStatus
          /\ \A u \in Task \ {rowTask[r]} : taskStatus'[u] = taskStatus[u]
      BY <2>7, <3>1, <1>3 DEF TypeOK, MissingTerminal, SetRow, SetWorker, FailedRow, fixedVars
    <3>3. worker[r] \in {"stopping", "stop_unknown"} => taskStatus'[rowTask[r]] = "blocked"
      BY <2>7, <3>1, <1>3 DEF TypeOK, MissingTerminal, Doubt
    <3> QED BY <3>1, <3>2, <3>3, <1>3, SuperOwn DEF Active, Doubt, Unsettled
  <2>8. CASE Recovered(r)
    BY <2>8, <1>0 DEF Recovered, taskVars, rowVars, fixedVars
  <2> QED BY <1>4, <2>1, <2>2, <2>3, <2>4, <2>5, <2>6, <2>7, <2>8 DEF WorkerStep
<1>5. ASSUME NEW r \in Row, StopStep(r) PROVE SuperGoal
  <2>1. CASE Release(r)
    <3>1. /\ Active(r) /\ IsLatest(r) /\ rowTask[r] \in Task /\ worker[r] = "none"
      BY <2>1 DEF Release, HoldInv
    <3>2. /\ UNCHANGED <<rowTask, deps, worker>>
          /\ \A q \in Row \ {r} : rowStatus'[q] = rowStatus[q]
          /\ rowStatus'[r] = "failed"
          /\ \A u \in Task \ {rowTask[r]} : taskStatus'[u] = taskStatus[u]
      BY <2>1, <3>1 DEF TypeOK, Release, SetRow, SetTask, fixedVars
    <3> QED BY <3>1, <3>2, SuperOwn DEF Active, Doubt, Unsettled
  <2>2. CASE BeginStop(r)
    <3>1. worker[r] \in Unsettled
      BY <2>2 DEF BeginStop, Unsettled
    <3>2. /\ UNCHANGED <<rowTask, deps, rowStatus>>
          /\ \A q \in Row \ {r} : worker'[q] = worker[q]
          /\ worker'[r] = "stopping"
          /\ \A u \in Task \ {rowTask[r]} : taskStatus'[u] = taskStatus[u]
          /\ taskStatus'[rowTask[r]] = "blocked"
      BY <2>2, <3>1, <1>3 DEF TypeOK, BeginStop, SetWorker, SetTask, fixedVars
    <3> QED BY <3>1, <3>2, <1>3, SuperOwn DEF Active
  <2>3. CASE SettleStop(r) \/ ReconcileStop(r)
    <3>1. worker[r] \in Unsettled /\ worker[r] \in Doubt
      BY <2>3 DEF SettleStop, ReconcileStop, Unsettled, Doubt
    <3>2. /\ UNCHANGED <<rowTask, deps, taskStatus>>
          /\ \A q \in Row \ {r} : rowStatus'[q] = rowStatus[q] /\ worker'[q] = worker[q]
          /\ worker'[r] = "stopped" /\ rowStatus'[r] \notin ActiveStatus
      BY <2>3 DEF TypeOK, SettleStop, ReconcileStop, SetWorker, FailIfActive, taskVars, fixedVars
    <3> QED BY <3>1, <3>2, <1>3, SuperOwn DEF Active, Doubt, Unsettled
  <2>4. CASE ResumeForRelay(r)
    <3>1. worker[r] \in Unsettled
      BY <2>4 DEF ResumeForRelay, Unsettled
    <3>2. /\ UNCHANGED <<rowTask, deps, rowStatus>>
          /\ \A q \in Row \ {r} : worker'[q] = worker[q]
          /\ worker'[r] = "ready"
          /\ \A u \in Task \ {rowTask[r]} : taskStatus'[u] = taskStatus[u]
          /\ taskStatus'[rowTask[r]] = "dispatched"
      BY <2>4, <3>1, <1>3 DEF TypeOK, ResumeForRelay, SetWorker, rowVars, fixedVars
    <3> QED BY <3>1, <3>2, <1>3, SuperOwn DEF Active, Doubt
  <2>5. CASE StopUnknown(r)
    <3>1. worker[r] \in Unsettled /\ worker[r] \in Doubt
      BY <2>5 DEF StopUnknown, Unsettled, Doubt
    <3>2. /\ UNCHANGED <<rowTask, deps, rowStatus, taskStatus>>
          /\ \A q \in Row \ {r} : worker'[q] = worker[q]
          /\ worker'[r] = "stop_unknown"
      BY <2>5 DEF TypeOK, StopUnknown, SetWorker, rowVars, taskVars, fixedVars
    <3> QED BY <3>1, <3>2, <1>3, SuperOwn DEF Active
  <2>6. CASE Abandon(r)
    <3>1. /\ IsLatest(r) /\ rowTask[r] \in Task
          /\ Active(r) \/ worker[r] \in {"failed", "stopped"}
      BY <2>6, <1>3 DEF TypeOK, Abandon, Settled, SuperInv, SuperRow
    <3>2. /\ UNCHANGED <<rowTask, deps>>
          /\ \A q \in Row \ {r} : rowStatus'[q] = rowStatus[q] /\ worker'[q] = worker[q]
          /\ worker'[r] = "abandoned" /\ rowStatus'[r] \notin ActiveStatus
          /\ \A u \in Task \ {rowTask[r]} : taskStatus'[u] = taskStatus[u]
      BY <2>6 DEF TypeOK, Abandon, SetWorker, SetTask, FailIfActive, fixedVars
    <3> QED BY <3>1, <3>2, SuperOwn DEF Active, Doubt, Unsettled
  <2> QED BY <1>5, <2>1, <2>2, <2>3, <2>4, <2>5, <2>6 DEF StopStep
<1>6. ASSUME NEW r \in Row, QuestionStep(r) PROVE SuperGoal
  BY <1>6, <1>0 DEF QuestionStep, Ask, Answer, taskVars, rowVars, fixedVars
<1>7. CASE GateStep
  BY <1>7 DEF GateStep, ResolveGate, CreateGate
<1>8. CASE CrashStep
  <2>1. CASE Crash
    BY <2>1, <1>0 DEF Crash, taskVars, rowVars, fixedVars
  <2> QED BY <1>8, <2>1 DEF CrashStep, TornComplete, TornDispatch, TornFail, TornResolve, TornGate
<1>9. CASE UNCHANGED vars
  BY <1>9, <1>0 DEF vars
<1> QED BY <1>1, <1>2, <1>4, <1>5, <1>6, <1>7, <1>8, <1>9 DEF Next

LEMMA SuperCorrect ==
  ASSUME Undisturbed
  PROVE  Spec => []SuperInv
<1>1. Init => SuperInv
  BY DEF Init, SuperInv, StartedInOrder, SuperRow, Active, ActiveStatus, Unsettled, Doubt
<1>2. TypeOK /\ ReleaseInv /\ HoldInv /\ HeldInv /\ SuperInv /\ [Next]_vars => SuperInv'
  BY SuperStep DEF SuperGoal
<1>3. Spec => []HoldInv /\ []HeldInv
  BY ActiveIsLatest, HeldCorrect DEF Undisturbed
<1> QED BY <1>1, <1>2, <1>3, TypeCorrect, ReleaseCorrect, PTL DEF Spec

\* While a dispatch is active its task is dispatched or blocked: no start
\* accepts it, whatever the handlers awaiting a server or a terminal write late.
THEOREM HolderKeepsTask ==
  ASSUME Undisturbed
  PROVE  Spec => []ActiveHoldsTask
<1>1. SuperInv => ActiveHoldsTask
  BY DEF SuperInv, SuperRow, ActiveHoldsTask
<1> QED BY <1>1, SuperCorrect, PTL

\* No task is started before its dependencies are completed, through retries
\* of failed tasks and promotions of several children at once.
THEOREM StartsInOrder ==
  ASSUME Undisturbed
  PROVE  Spec => []DependenciesFirst
<1>1. SuperInv /\ TypeOK => DependenciesFirst
  BY DEF SuperInv, StartedInOrder, DependenciesFirst
<1> QED BY <1>1, SuperCorrect, TypeCorrect, PTL

\* The latest worker of a task, if it failed or was stopped, has left the task
\* in a status worker-start --retry-of accepts.
THEOREM EndedCanBeRetried ==
  ASSUME Undisturbed
  PROVE  Spec => []EndedIsRetryable
<1>1. SuperInv => EndedIsRetryable
  BY DEF SuperInv, SuperRow, EndedIsRetryable
<1> QED BY <1>1, SuperCorrect, PTL

\* A completed task stays completed: no stop, abandon or late answer of a
\* server reopens it.
THEOREM CompletedStaysCompleted ==
  ASSUME Undisturbed
  PROVE  Spec => CompletedIsFinal
<1>1. TypeOK /\ ReleaseInv /\ HoldInv /\ HeldInv /\ SuperInv /\ [Next]_vars => [CompletedKept]_vars
  BY SuperStep DEF SuperGoal
<1>2. Spec => []HoldInv /\ []HeldInv
  BY ActiveIsLatest, HeldCorrect DEF Undisturbed
<1> QED BY <1>1, <1>2, TypeCorrect, ReleaseCorrect, SuperCorrect, PTL
        DEF Spec, CompletedIsFinal, CompletedKept

\* No worker is replaced while it may still report or be stopped: what comes
\* back late about it is written to a task it holds.  Retries, abandons and
\* recoveries only ever take the place of a worker that is settled.
THEOREM UnsettledHoldsTask ==
  ASSUME Undisturbed
  PROVE  Spec => []UnsettledHolds
<1>1. HoldInv /\ SuperInv => UnsettledHolds
  BY DEF HoldInv, SuperInv, SuperRow, UnsettledHolds, Unsettled, Doubt
<1>2. Spec => []HoldInv
  BY ActiveIsLatest DEF Undisturbed
<1> QED BY <1>1, <1>2, SuperCorrect, PTL

-----------------------------------------------------------------------------
(***************************************************************************)
(* Promotion.  Only the handlers that complete a task promote its          *)
(* children, and each does both in one step unless the process dies.       *)
(***************************************************************************)
\* The condition of PromotionAtomic on a step.
Promoted ==
  \A t, u \in Task :
    /\ taskStatus[t] # "completed" /\ taskStatus'[t] = "completed"
    /\ t \in deps[u]
    /\ \A d \in deps[u] : taskStatus'[d] = "completed"
    => taskStatus'[u] # "pending"

LEMMA CompletePromotes ==
  ASSUME TypeOK, NEW t \in Task \cup {NoTask}, Complete(t, Promotable(t))
  PROVE  Promoted
<1> SUFFICES ASSUME NEW v \in Task, NEW u \in Task,
                    taskStatus[v] # "completed", taskStatus'[v] = "completed", v \in deps[u],
                    \A d \in deps[u] : taskStatus'[d] = "completed",
                    taskStatus'[u] = "pending"
             PROVE  FALSE
  BY DEF Promoted
<1>1. v = t
  BY DEF Complete
<1>2. taskStatus[u] = "pending" /\ u \notin Promotable(t)
  BY DEF Complete
<1>3. PICK d \in deps[u] : d # t /\ taskStatus[d] # "completed"
  BY <1>1, <1>2 DEF Promotable
<1>4. d \in Task
  BY DEF TypeOK
<1>5. taskStatus'[d] # "completed"
  BY <1>3, <1>4 DEF Complete
<1> QED BY <1>5

\* A step that completes no task.
LEMMA NothingCompleted ==
  ASSUME \A t \in Task : taskStatus'[t] = "completed" => taskStatus[t] = "completed"
  PROVE  Promoted
  BY DEF Promoted

LEMMA PromotionStep ==
  ASSUME "torn" \notin Ops
  PROVE  TypeOK /\ [Next]_vars => Promoted
<1> SUFFICES ASSUME TypeOK, [Next]_vars PROVE Promoted
  OBVIOUS
<1>1. CASE TaskStep
  <2> PICK t \in Task :
        \/ \E D \in SUBSET (Task \ {t}) : CreateTask(t, D)
        \/ \E s \in TaskStatus : UpdateTask(t, s)
        \/ \E term \in Terminal, inject \in BOOLEAN : Dispatch(t, term, inject)
        \/ \E fed \in BOOLEAN : StartWorker(t, fed)
    BY <1>1 DEF TaskStep
  <2>1. ASSUME NEW s \in TaskStatus, UpdateTask(t, s) PROVE Promoted
    <3>1. CASE s = "completed"
      BY <2>1, <3>1, CompletePromotes DEF UpdateTask
    <3>2. CASE s # "completed"
      BY <2>1, <3>2, NothingCompleted DEF TypeOK, UpdateTask, SetTask
    <3> QED BY <3>1, <3>2
  <2>2. CASE \/ \E D \in SUBSET (Task \ {t}) : CreateTask(t, D)
             \/ \E term \in Terminal, inject \in BOOLEAN : Dispatch(t, term, inject)
             \/ \E fed \in BOOLEAN : StartWorker(t, fed)
    BY <2>2, NothingCompleted DEF TypeOK, CreateTask, Dispatch, StartWorker, InsertWorker, SetTask
  <2> QED BY <2>1, <2>2
<1>2. ASSUME NEW r \in Row, DispatchStep(r) PROVE Promoted
  <2>1. ASSUME NEW succeeded \in BOOLEAN, Report(r, succeeded) PROVE Promoted
    <3>1. CASE succeeded
      BY <2>1, <3>1, CompletePromotes DEF TypeOK, Report
    <3>2. CASE ~succeeded
      BY <2>1, <3>2, NothingCompleted DEF TypeOK, Report, SetTask
    <3> QED BY <3>1, <3>2
  <2>2. CASE PromptAccepted(r) \/ PromptFailed(r) \/ AgentExit(r)
    BY <2>2, NothingCompleted DEF TypeOK, PromptAccepted, PromptFailed, AgentExit, FailDispatch,
                                  FailedTask, SetTask, taskVars
  <2> QED BY <1>2, <2>1, <2>2 DEF DispatchStep
<1>3. ASSUME NEW r \in Row, WorkerStep(r) PROVE Promoted
  BY <1>3, NothingCompleted
     DEF TypeOK, WorkerStep, RetryWorker, InsertWorker, AttachTerminal, WorkerReady, StartFailed,
         StartUnknown, ReconcileReady, ReconcileEnded, MissingTerminal, Recovered, FailedTask,
         SetTask, taskVars
<1>4. ASSUME NEW r \in Row, StopStep(r) PROVE Promoted
  BY <1>4, NothingCompleted
     DEF TypeOK, StopStep, Release, BeginStop, SettleStop, ReconcileStop, ResumeForRelay,
         StopUnknown, Abandon, SetTask, taskVars
<1>5. ASSUME NEW r \in Row, QuestionStep(r) PROVE Promoted
  BY <1>5, NothingCompleted DEF QuestionStep, Ask, Answer, taskVars
<1>6. CASE GateStep
  BY <1>6, NothingCompleted DEF TypeOK, GateStep, ResolveGate, CreateGate, SetTask
<1>7. CASE CrashStep
  BY <1>7, NothingCompleted
     DEF CrashStep, Crash, TornComplete, TornDispatch, TornFail, TornResolve, TornGate, taskVars
<1>8. CASE UNCHANGED vars
  BY <1>8, NothingCompleted DEF vars
<1> QED BY <1>1, <1>2, <1>3, <1>4, <1>5, <1>6, <1>7, <1>8 DEF Next

\* Unless the process dies between two statements, the step that completes a
\* task leaves none of its children waiting for nothing, whatever the graph.
THEOREM ChildrenArePromoted ==
  ASSUME "torn" \notin Ops
  PROVE  Spec => PromotionAtomic
<1>1. TypeOK /\ [Next]_vars => [Promoted]_vars
  BY PromotionStep
<1> QED BY <1>1, TypeCorrect, PTL DEF Spec, PromotionAtomic, Promoted

-----------------------------------------------------------------------------
(***************************************************************************)
(* Questions.  A stop closes the question of its worker before the row     *)
(* ends, and takes the capability without which no other can be asked.     *)
(***************************************************************************)
AskRow(r) ==
  /\ question[r] = "pending" => Active(r) \/ (worker[r] = "none" /\ rowStatus[r] # "absent")
  /\ worker[r] \in {"stopping", "stop_unknown"} => question[r] # "pending"
  /\ worker[r] # "none" /\ assignee[r] # NoTerminal => capability[r] # "none"

AskInv == \A r \in Row : AskRow(r)

\* The step of an unsettled or context-only row r: no other row is touched.
LEMMA AskOwn ==
  ASSUME AskInv, NEW r \in Row, AskRow(r)',
         \A q \in Row \ {r} :
           /\ rowStatus'[q] = rowStatus[q] /\ worker'[q] = worker[q]
           /\ question'[q] = question[q] /\ assignee'[q] = assignee[q]
           /\ capability'[q] = capability[q]
  PROVE  AskInv'
  BY DEF AskInv, AskRow, Active

LEMMA AskStep ==
  ASSUME Undisturbed, "relayed" \notin Ops
  PROVE  TypeOK /\ ReleaseInv /\ HoldInv /\ HeldInv /\ SuperInv /\ AskInv /\ [Next]_vars => AskInv'
<1> SUFFICES ASSUME TypeOK, ReleaseInv, HoldInv, HeldInv, SuperInv, AskInv, [Next]_vars
             PROVE  AskInv'
  OBVIOUS
<1> USE DEF Undisturbed, Disciplined, ActiveStatus
<1>0. ASSUME UNCHANGED <<rowStatus, worker, question, assignee, capability>> PROVE AskInv'
  BY <1>0 DEF AskInv, AskRow, Active
<1>1. ASSUME NEW t \in Task, NEW s \in ActiveStatus, NEW term, NEW n, InsertRow(t, s, term, n),
             question' = question, \A r \in Row \ {rows + 1} :
               worker'[r] = worker[r] /\ capability'[r] = capability[r],
             \/ worker'[rows + 1] = "none"
             \/ worker'[rows + 1] = "starting" /\ term = NoTerminal
      PROVE  AskInv'
  <2> PICK new \in Row : new = rows + 1 /\ rows < new
    BY <1>1, InsertedRow DEF TypeOK
  <2>0. rowStatus[new] = "absent" /\ ~Active(new)
    BY <1>1, InsertedRow DEF TypeOK, ReleaseInv
  <2>1. /\ question[new] # "pending" /\ assignee'[new] = term
        /\ worker'[new] = "none" \/ (worker'[new] = "starting" /\ term = NoTerminal)
    BY <1>1, <2>0, InsertedRow DEF AskInv, AskRow
  <2>2. \A q \in Row \ {new} :
           /\ rowStatus'[q] = rowStatus[q] /\ worker'[q] = worker[q]
           /\ question'[q] = question[q] /\ assignee'[q] = assignee[q]
           /\ capability'[q] = capability[q]
    BY <1>1, InsertedRow
  <2>3. AskRow(new)'
    BY <1>1, <2>1 DEF AskRow
  <2> QED BY <2>1, <2>2, <2>3, AskOwn
<1>2. CASE TaskStep
  <2> PICK t \in Task :
        \/ \E D \in SUBSET (Task \ {t}) : CreateTask(t, D)
        \/ \E s \in TaskStatus : UpdateTask(t, s)
        \/ \E term \in Terminal, inject \in BOOLEAN : Dispatch(t, term, inject)
        \/ \E fed \in BOOLEAN : StartWorker(t, fed)
    BY <1>2 DEF TaskStep
  <2>1. CASE \/ \E D \in SUBSET (Task \ {t}) : CreateTask(t, D)
             \/ \E s \in TaskStatus : UpdateTask(t, s)
    BY <2>1, <1>0 DEF CreateTask, UpdateTask, rowVars, fixedVars
  <2>2. ASSUME NEW term \in Terminal, NEW inject \in BOOLEAN, Dispatch(t, term, inject)
        PROVE AskInv'
    <3>1. PICK n \in {0} \cup {failures[r] : r \in Row} : InsertRow(t, "dispatched", term, n)
      BY <2>2 DEF Dispatch, InsertContext
    <3>2. /\ worker' = worker /\ question' = question
          /\ \A r \in Row \ {rows + 1} : capability'[r] = capability[r]
      BY <2>2 DEF Dispatch, TypeOK
    <3>3. worker[rows + 1] = "none"
      BY <3>1, InsertedRow DEF ReleaseInv, TypeOK, Row
    <3> QED BY <3>1, <3>2, <3>3, <1>1
  <2>3. ASSUME NEW fed \in BOOLEAN, InsertWorker(t, fed) PROVE AskInv'
    <3>1. InsertRow(t, "pending", NoTerminal, 0) /\ question' = question /\ capability' = capability
      BY <2>3 DEF InsertWorker
    <3>2. /\ worker'[rows + 1] = "starting"
          /\ \A r \in Row \ {rows + 1} : worker'[r] = worker[r]
      BY <2>3, <3>1, InsertedRow DEF TypeOK, InsertWorker, SetWorker
    <3> QED BY <3>1, <3>2, <1>1
  <2> QED BY <2>1, <2>2, <2>3 DEF StartWorker
<1>3. ASSUME NEW r \in Row, DispatchStep(r) PROVE AskInv'
  <2>1. CASE PromptAccepted(r) \/ PromptFailed(r)
    BY <2>1 DEF HoldInv, PromptAccepted, PromptFailed
  <2>3. CASE AgentExit(r)
    <3>1. worker[r] = "none" /\ worker' = worker /\ rowStatus'[r] # "absent"
      BY <2>3, ExitIsUnsupervised DEF TypeOK, AgentExit, FailDispatch, SetRow, FailedRow
    <3>2. AskRow(r)'
      BY <3>1 DEF AskRow
    <3> QED BY <2>3, <3>2, AskOwn DEF TypeOK, AgentExit, FailDispatch, SetRow, Revoke
  <2>2. ASSUME NEW succeeded \in BOOLEAN, Report(r, succeeded) PROVE AskInv'
    <3>1. AskRow(r)'
      BY <2>2 DEF TypeOK, AskInv, AskRow, Report, CloseQuestion, Revoke
    <3> QED BY <2>2, <3>1, AskOwn DEF TypeOK, Report, SetRow, Revoke, CloseQuestion
  <2> QED BY <1>3, <2>1, <2>2, <2>3 DEF DispatchStep
<1>4. ASSUME NEW r \in Row, WorkerStep(r) PROVE AskInv'
  <2>1. ASSUME NEW t \in Task, NEW fed \in BOOLEAN, RetryWorker(t, r, fed) PROVE AskInv'
    <3>1. InsertRow(t, "pending", NoTerminal, 0) /\ question' = question /\ capability' = capability
      BY <2>1 DEF RetryWorker, InsertWorker
    <3>2. /\ worker'[rows + 1] = "starting"
          /\ \A q \in Row \ {rows + 1} : worker'[q] = worker[q]
      BY <2>1, <3>1, InsertedRow DEF TypeOK, RetryWorker, InsertWorker, SetWorker
    <3> QED BY <3>1, <3>2, <1>1
  <2>2. ASSUME NEW term \in Terminal, AttachTerminal(r, term) PROVE AskInv'
    <3>1. AskRow(r)'
      BY <2>2 DEF TypeOK, AskInv, AskRow, Active, AttachTerminal
    <3> QED BY <2>2, <3>1, AskOwn DEF TypeOK, AttachTerminal
  <2>3. CASE WorkerReady(r) \/ ReconcileReady(r)
    <3>1. AskRow(r)'
      BY <2>3 DEF TypeOK, AskInv, AskRow, Active, WorkerReady, ReconcileReady, SetRow, SetWorker
    <3> QED BY <2>3, <3>1, AskOwn DEF TypeOK, WorkerReady, ReconcileReady, SetRow, SetWorker
  <2>4. CASE StartFailed(r) \/ StartUnknown(r) \/ \E s \in Settled : ReconcileEnded(r, s)
    <3>1. AskRow(r)'
      BY <2>4 DEF TypeOK, AskInv, AskRow, StartFailed, StartUnknown, ReconcileEnded, CloseQuestion,
                  Revoke, SetWorker
    <3> QED BY <2>4, <3>1, AskOwn DEF TypeOK, StartFailed, StartUnknown, ReconcileEnded, SetRow,
                                     SetWorker, FailIfActive, CloseQuestion, Revoke
  <2>5. CASE MissingTerminal(r)
    <3>1. question'[r] # "pending"
      BY <2>5 DEF TypeOK, AskInv, AskRow, MissingTerminal, Unsettled, CloseQuestion
    <3>2. capability[r] # "none" => capability'[r] # "none"
      BY <2>5 DEF TypeOK, MissingTerminal, Revoke, rowVars
    <3>3. worker[r] # "none" /\ assignee' = assignee
      BY <2>5 DEF MissingTerminal, Unsettled
    <3>4. AskRow(r)'
      BY <3>1, <3>2, <3>3 DEF AskInv, AskRow
    <3> QED BY <2>5, <3>4, AskOwn DEF TypeOK, MissingTerminal, SetRow, SetWorker, CloseQuestion,
                                     Revoke, rowVars
  <2>6. CASE Recovered(r)
    BY <2>6, <1>0 DEF Recovered, rowVars
  <2> QED BY <1>4, <2>1, <2>2, <2>3, <2>4, <2>5, <2>6 DEF WorkerStep
<1>5. ASSUME NEW r \in Row, StopStep(r) PROVE AskInv'
  <2>1. CASE Release(r) \/ BeginStop(r) \/ Abandon(r)
    <3>1. AskRow(r)'
      BY <2>1 DEF TypeOK, AskInv, AskRow, Release, BeginStop, Abandon, CloseQuestion, Revoke, SetWorker
    <3> QED BY <2>1, <3>1, AskOwn DEF TypeOK, Release, BeginStop, Abandon, SetRow, SetWorker,
                                     FailIfActive, CloseQuestion, Revoke
  <2>2. CASE SettleStop(r) \/ ReconcileStop(r)
    <3>1. AskRow(r)'
      BY <2>2 DEF TypeOK, AskInv, AskRow, SettleStop, ReconcileStop, SetWorker
    <3> QED BY <2>2, <3>1, AskOwn DEF TypeOK, SettleStop, ReconcileStop, SetWorker, FailIfActive
  <2>3. CASE ResumeForRelay(r) \/ StopUnknown(r)
    <3>1. AskRow(r)'
      BY <2>3 DEF TypeOK, AskInv, AskRow, Active, ResumeForRelay, StopUnknown, SetWorker, rowVars
    <3> QED BY <2>3, <3>1, AskOwn DEF TypeOK, ResumeForRelay, StopUnknown, SetWorker, rowVars
  <2> QED BY <1>5, <2>1, <2>2, <2>3 DEF StopStep
<1>6. ASSUME NEW r \in Row, QuestionStep(r) PROVE AskInv'
  <2>1. CASE Ask(r)
    <3>1. worker[r] \in {"stopping", "stop_unknown"} => capability[r] = "revoked"
      BY <2>1 DEF TypeOK, ReleaseInv, AskInv, AskRow, Ask
    <3>2. AskRow(r)'
      BY <2>1, <3>1 DEF TypeOK, AskInv, AskRow, Active, Ask, rowVars
    <3> QED BY <2>1, <3>2, AskOwn DEF TypeOK, Ask, rowVars
  <2>2. CASE Answer(r)
    <3>1. AskRow(r)'
      BY <2>2 DEF TypeOK, AskInv, AskRow, Active, Answer, rowVars
    <3> QED BY <2>2, <3>1, AskOwn DEF TypeOK, Answer, rowVars
  <2> QED BY <1>6, <2>1, <2>2 DEF QuestionStep
<1>7. CASE GateStep
  BY <1>7 DEF GateStep, ResolveGate, CreateGate
<1>8. CASE CrashStep
  <2>1. CASE Crash
    BY <2>1, <1>0 DEF Crash, rowVars
  <2> QED BY <1>8, <2>1 DEF CrashStep, TornComplete, TornDispatch, TornFail, TornResolve, TornGate
<1>9. CASE UNCHANGED vars
  BY <1>9, <1>0 DEF vars
<1> QED BY <1>2, <1>3, <1>4, <1>5, <1>6, <1>7, <1>8, <1>9 DEF Next

\* No question of a worker is left open when its dispatch ends, as long as no
\* question arrives by the relay: a worker that asks waits for an answer that
\* can still come.
THEOREM NoQuestionIsOrphaned ==
  ASSUME Undisturbed, "relayed" \notin Ops
  PROVE  Spec => []QuestionsClosed
<1>1. Init => AskInv
  BY DEF Init, AskInv, AskRow
<1>2. TypeOK /\ ReleaseInv /\ HoldInv /\ HeldInv /\ SuperInv /\ AskInv /\ [Next]_vars => AskInv'
  BY AskStep
<1>3. Spec => []HoldInv /\ []HeldInv /\ []SuperInv
  BY ActiveIsLatest, HeldCorrect, SuperCorrect DEF Undisturbed
<1>4. AskInv => QuestionsClosed
  BY DEF AskInv, AskRow, QuestionsClosed
<1> QED BY <1>1, <1>2, <1>3, <1>4, TypeCorrect, ReleaseCorrect, PTL DEF Spec
=============================================================================
