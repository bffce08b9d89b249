-------------------------- MODULE TaskBoardRefined --------------------------
(***************************************************************************)
(* DispatchLedger implements TaskBoard, as long as its clients and its     *)
(* environment keep to Undisturbed.  Each operation of the board is what   *)
(* one lemma shows of the steps that move the latest row of a task; what   *)
(* an answer that comes late writes is such a step, because by SuperInv    *)
(* the row of a worker that is not settled is the one its task is held by. *)
(***************************************************************************)
EXTENDS DispatchLedgerProofs

LedgerInv == TypeOK /\ ReleaseInv /\ HoldInv /\ HeldInv /\ SuperInv

\* A step that moves r and no other row.
BoardMoves(r) ==
  /\ UNCHANGED <<rows, rowTask, deps>>
  /\ \A q \in Row \ {r} : rowStatus'[q] = rowStatus[q]

\* The attempts at work on the task of its latest row, before and after.
LEMMA WorkingBefore ==
  ASSUME HoldInv, NEW r \in Row, IsLatest(r), rowTask[r] \in Task
  PROVE  Working[rowTask[r]] = IF Active(r) THEN {r} ELSE {}
  BY DEF HoldInv, IsLatest, Working, Row

LEMMA WorkingAfter ==
  ASSUME HoldInv, NEW r \in Row, IsLatest(r), rowTask[r] \in Task, BoardMoves(r)
  PROVE  Working' = [Working EXCEPT ![rowTask[r]] = IF Active(r)' THEN {r} ELSE {}]
<1>1. ASSUME NEW t \in Task \ {rowTask[r]} PROVE Working'[t] = Working[t]
  BY <1>1 DEF BoardMoves, Working, Active
<1>2. \A q \in Row \ {r} : rowTask'[q] = rowTask[r] => ~Active(q)'
  BY DEF BoardMoves, HoldInv, IsLatest, Active, Row
<1>3. Working'[rowTask[r]] = IF Active(r)' THEN {r} ELSE {}
  BY <1>2 DEF BoardMoves, Working
<1>4. Working = [t \in Task |-> Working[t]] /\ Working' = [t \in Task |-> Working'[t]]
  BY DEF Working
<1> QED BY <1>1, <1>3, <1>4

-----------------------------------------------------------------------------
(***************************************************************************)
(* The operations of the board.                                            *)
(***************************************************************************)
\* The row keeps its dispatch and its task is held, in whatever status.
LEMMA BoardDoubt ==
  ASSUME LedgerInv, NEW r \in Row, IsLatest(r), Active(r), BoardMoves(r), Active(r)',
         NEW s \in {"dispatched", "blocked"}, SetTask(rowTask[r], s)
  PROVE  Board!Next
<1>1. rowTask[r] \in Task
  BY DEF LedgerInv, HoldInv
<1>2. Working[rowTask[r]] = {r} /\ Working' = Working
  BY <1>1, WorkingBefore, WorkingAfter DEF LedgerInv, Working
<1> QED BY <1>1, <1>2 DEF BoardMoves, SetTask, Board!Next, Board!Doubt

\* The row ends and its task is given back.
LEMMA BoardFail ==
  ASSUME LedgerInv, NEW r \in Row, IsLatest(r), Active(r), BoardMoves(r), ~Active(r)',
         NEW s \in {"failed", "blocked", "ready"}, SetTask(rowTask[r], s)
  PROVE  Board!Next
<1>1. rowTask[r] \in Task
  BY DEF LedgerInv, HoldInv
<1>2. Working[rowTask[r]] = {r} /\ Working' = [Working EXCEPT ![rowTask[r]] = {}]
  BY <1>1, WorkingBefore, WorkingAfter DEF LedgerInv
<1> QED BY <1>1, <1>2 DEF BoardMoves, SetTask, Board!Next, Board!Fail

LEMMA BoardSucceed ==
  ASSUME LedgerInv, NEW r \in Row, IsLatest(r), Active(r), BoardMoves(r), ~Active(r)',
         taskStatus[rowTask[r]] = "dispatched", Complete(rowTask[r], Promotable(rowTask[r]))
  PROVE  Board!Next
<1>1. rowTask[r] \in Task
  BY DEF LedgerInv, HoldInv
<1>2. Working[rowTask[r]] = {r} /\ Working' = [Working EXCEPT ![rowTask[r]] = {}]
  BY <1>1, WorkingBefore, WorkingAfter DEF LedgerInv
<1>3. Board!Waiting(rowTask[r]) = Promotable(rowTask[r])
  BY DEF Board!Waiting, Promotable
<1> QED BY <1>1, <1>2, <1>3 DEF BoardMoves, Complete, Board!Next, Board!Succeed

\* An ended row stays ended, and its task is blocked.
LEMMA BoardSetAside ==
  ASSUME LedgerInv, NEW r \in Row, IsLatest(r), rowTask[r] \in Task, ~Active(r), BoardMoves(r), ~Active(r)',
         taskStatus[rowTask[r]] \in {"failed", "blocked"}, SetTask(rowTask[r], "blocked")
  PROVE  [Board!Next]_(Board!board)
<1>1. Working[rowTask[r]] = {} /\ Working' = Working
  BY WorkingBefore, WorkingAfter DEF LedgerInv, Working
<1>2. CASE taskStatus[rowTask[r]] = "failed"
  BY <1>1, <1>2 DEF BoardMoves, SetTask, Board!Next, Board!SetAside
<1>3. CASE taskStatus[rowTask[r]] = "blocked"
  <2>1. taskStatus' = taskStatus
    BY <1>3 DEF LedgerInv, TypeOK, SetTask
  <2> QED BY <1>1, <2>1 DEF BoardMoves, Board!board
<1> QED BY <1>2, <1>3

\* A new row for a task nobody works on.
LEMMA BoardStart ==
  ASSUME LedgerInv, NEW t \in Task, NEW s \in ActiveStatus, NEW term, NEW n,
         InsertRow(t, s, term, n), SetTask(t, "dispatched"), deps' = deps,
         taskStatus[t] \in {"ready", "failed", "blocked"},
         \A q \in Row : rowTask[q] = t => ~Active(q)
  PROVE  Board!Next
<1>1. /\ rows + 1 \in Row /\ rowTask'[rows + 1] = t /\ ~Active(rows + 1)
      /\ \A q \in Row \ {rows + 1} : rowTask'[q] = rowTask[q] /\ rowStatus'[q] = rowStatus[q]
  BY InsertedRow DEF LedgerInv
<1>2. rowStatus'[rows + 1] \in ActiveStatus
  BY <1>1 DEF LedgerInv, TypeOK, InsertRow, Active
<1>3. Working[t] = {}
  BY DEF Working
<1>4. ASSUME NEW u \in Task \ {t} PROVE Working'[u] = Working[u]
  BY <1>1, <1>4 DEF Working, Active
<1>5. Working'[t] = {rows + 1}
  <2>1. \A q \in Row \ {rows + 1} : rowTask'[q] = t => ~Active(q)'
    BY <1>1 DEF Active
  <2> QED BY <1>1, <1>2, <2>1 DEF Working, Active
<1>6. Working = [u \in Task |-> Working[u]] /\ Working' = [u \in Task |-> Working'[u]]
  BY DEF Working
<1>7. Working' = [Working EXCEPT ![t] = {rows + 1}]
  BY <1>4, <1>5, <1>6
<1> QED BY <1>3, <1>7 DEF InsertRow, SetTask, Board!Next, Board!Start

\* A step that moves no row and no task.
LEMMA BoardStutter ==
  ASSUME UNCHANGED <<taskStatus, deps, rows, rowTask, rowStatus>>
  PROVE  UNCHANGED Board!board
  BY DEF Board!board, Working, Active

-----------------------------------------------------------------------------
(***************************************************************************)
(* The steps of the ledger.                                                *)
(***************************************************************************)
\* A worker that is not settled is the latest of its task, and holds it.
LEMMA Holder ==
  ASSUME LedgerInv, NEW r \in Row, worker[r] \in Unsettled
  PROVE  /\ Active(r) /\ IsLatest(r) /\ rowTask[r] \in Task
         /\ taskStatus[rowTask[r]] \in {"dispatched", "blocked"}
         /\ worker[r] \in Doubt => taskStatus[rowTask[r]] = "blocked"
         /\ ~(worker[r] = "starting" /\ rowStatus[r] = "dispatched")
  BY DEF LedgerInv, HoldInv, HeldInv, SuperInv, SuperRow

\* A status that is not written is written as it is.
LEMMA Rewritten ==
  ASSUME TypeOK, NEW t \in Task, taskStatus' = taskStatus
  PROVE  SetTask(t, taskStatus[t])
  BY DEF TypeOK, SetTask

LEMMA BoardTaskStep ==
  ASSUME Undisturbed, LedgerInv, TaskStep
  PROVE  Board!Next
<1> USE DEF Undisturbed, Disciplined, ActiveStatus
<1> PICK t \in Task :
      \/ \E D \in SUBSET (Task \ {t}) : CreateTask(t, D)
      \/ \E s \in TaskStatus : UpdateTask(t, s)
      \/ \E term \in Terminal, inject \in BOOLEAN : Dispatch(t, term, inject)
      \/ \E fed \in BOOLEAN : StartWorker(t, fed)
  BY DEF TaskStep
<1>1. ASSUME NEW D \in SUBSET (Task \ {t}), CreateTask(t, D) PROVE Board!Next
  <2>1. Working' = Working
    BY <1>1 DEF CreateTask, Working, Active, rowVars, fixedVars
  <2>2. Board!Create(t, D)
    BY <1>1, <2>1 DEF CreateTask, Exists, SetTask, fixedVars, Board!Create
  <2> QED BY <2>2 DEF Board!Next
<1>2. ASSUME NEW s \in TaskStatus, UpdateTask(t, s) PROVE FALSE
  BY <1>2 DEF UpdateTask
<1>3. ASSUME taskStatus[t] = "ready" PROVE \A q \in Row : rowTask[q] = t => ~Active(q)
  BY <1>3 DEF LedgerInv, HoldInv
<1>4. ASSUME NEW term \in Terminal, NEW inject \in BOOLEAN, Dispatch(t, term, inject)
      PROVE Board!Next
  <2>1. PICK n \in {0} \cup {failures[r] : r \in Row} : InsertRow(t, "dispatched", term, n)
    BY <1>4 DEF Dispatch, InsertContext
  <2>2. SetTask(t, "dispatched") /\ deps' = deps /\ taskStatus[t] = "ready"
    BY <1>4 DEF Dispatch, InsertContext
  <2> QED BY <2>1, <2>2, <1>3, BoardStart
<1>5. ASSUME NEW fed \in BOOLEAN, StartWorker(t, fed) PROVE Board!Next
  <2>1. /\ InsertRow(t, "pending", NoTerminal, 0) /\ SetTask(t, "dispatched")
        /\ deps' = deps /\ taskStatus[t] = "ready"
    BY <1>5 DEF StartWorker, InsertWorker
  <2> QED BY <2>1, <1>3, BoardStart
<1> QED BY <1>1, <1>2, <1>4, <1>5

LEMMA BoardDispatchStep ==
  ASSUME Undisturbed, LedgerInv, NEW r \in Row, DispatchStep(r)
  PROVE  Board!Next
<1>1. CASE PromptAccepted(r) \/ PromptFailed(r)
  BY <1>1 DEF LedgerInv, HoldInv, PromptAccepted, PromptFailed
<1>3. CASE AgentExit(r)
  <2>1. Active(r) /\ IsLatest(r)
    BY <1>3, ExitIsUnsupervised DEF LedgerInv
  <2>2. BoardMoves(r) /\ ~Active(r)'
    BY <1>3 DEF LedgerInv, TypeOK, BoardMoves, AgentExit, FailDispatch, FailedRow, SetRow, Active, ActiveStatus,
                fixedVars
  <2>3. \E s \in {"failed", "ready"} : SetTask(rowTask[r], s)
    BY <1>3 DEF AgentExit, FailDispatch, FailedTask
  <2> QED BY <2>1, <2>2, <2>3, BoardFail
<1>2. ASSUME NEW succeeded \in BOOLEAN, Report(r, succeeded) PROVE Board!Next
  <2>1. Active(r) /\ IsLatest(r) /\ taskStatus[rowTask[r]] = "dispatched"
    BY <1>2 DEF Report, Active, ActiveStatus
  <2>2. BoardMoves(r) /\ ~Active(r)'
    BY <1>2 DEF LedgerInv, TypeOK, BoardMoves, Report, SetRow, Active, ActiveStatus, fixedVars
  <2>3. CASE succeeded
    BY <1>2, <2>1, <2>2, <2>3, BoardSucceed DEF Report
  <2>4. CASE ~succeeded
    BY <1>2, <2>1, <2>2, <2>4, BoardFail DEF Report
  <2> QED BY <2>3, <2>4
<1> QED BY <1>1, <1>2, <1>3 DEF DispatchStep

LEMMA BoardWorkerStep ==
  ASSUME Undisturbed, LedgerInv, NEW r \in Row, WorkerStep(r)
  PROVE  [Board!Next]_(Board!board)
<1> USE DEF ActiveStatus
<1>1. ASSUME NEW t \in Task, NEW fed \in BOOLEAN, RetryWorker(t, r, fed) PROVE Board!Next
  <2>1. /\ InsertRow(t, "pending", NoTerminal, 0) /\ SetTask(t, "dispatched")
        /\ deps' = deps /\ taskStatus[t] \in {"failed", "blocked"}
    BY <1>1 DEF RetryWorker, InsertWorker
  <2>2. ~Active(r) /\ IsLatest(r) /\ rowTask[r] = t
    BY <1>1 DEF LedgerInv, ReleaseInv, Settled, RetryWorker
  <2>3. \A q \in Row : rowTask[q] = t => ~Active(q)
    BY <2>2 DEF LedgerInv, HoldInv, IsLatest, Row
  <2> QED BY <2>1, <2>3, BoardStart
<1>2. ASSUME \/ \E term \in Terminal : AttachTerminal(r, term)
             \/ Recovered(r)
      PROVE UNCHANGED Board!board
  BY <1>2, BoardStutter DEF AttachTerminal, Recovered, taskVars, rowVars, fixedVars
<1>3. CASE WorkerReady(r) \/ StartUnknown(r) \/ ReconcileReady(r)
  <2>1. worker[r] \in Unsettled
    BY <1>3 DEF WorkerReady, StartUnknown, ReconcileReady, Unsettled
  <2>2. BoardMoves(r) /\ Active(r)'
    <3>1. BoardMoves(r)
      BY <1>3 DEF LedgerInv, TypeOK, BoardMoves, WorkerReady, StartUnknown, ReconcileReady, SetRow,
                  taskVars, fixedVars
    <3>2. rowStatus'[r] \in ActiveStatus
      BY <1>3, <2>1, Holder DEF LedgerInv, TypeOK, WorkerReady, StartUnknown, ReconcileReady, SetRow, Active
    <3> QED BY <3>1, <3>2 DEF Active
  <2>3. PICK s \in {"dispatched", "blocked"} : SetTask(rowTask[r], s)
    BY <1>3, <2>1, Holder, Rewritten DEF LedgerInv, WorkerReady, StartUnknown, ReconcileReady, SetTask,
                                         taskVars
  <2> QED BY <2>1, <2>2, <2>3, Holder, BoardDoubt
<1>4. CASE StartFailed(r) \/ (\E s \in Settled : ReconcileEnded(r, s)) \/ MissingTerminal(r)
  <2>1. worker[r] \in Unsettled
    BY <1>4 DEF StartFailed, ReconcileEnded, MissingTerminal, Unsettled
  <2>2. BoardMoves(r) /\ ~Active(r)'
    BY <1>4, <2>1, Holder DEF LedgerInv, TypeOK, BoardMoves, StartFailed, ReconcileEnded, MissingTerminal,
                              FailedRow, SetRow, FailIfActive, Active, fixedVars
  <2>3. PICK s \in {"failed", "blocked", "ready"} : SetTask(rowTask[r], s)
    <3>1. CASE StartFailed(r)
      BY <3>1 DEF StartFailed
    <3>2. CASE \E s \in Settled : ReconcileEnded(r, s)
      BY <3>2, <2>1, Holder DEF ReconcileEnded, SetTask
    <3>3. CASE MissingTerminal(r)
      BY <3>3, <2>1, Holder DEF MissingTerminal, FailedTask, SetTask, Doubt
    <3> QED BY <1>4, <3>1, <3>2, <3>3
  <2> QED BY <2>1, <2>2, <2>3, Holder, BoardFail
<1> QED BY <1>1, <1>2, <1>3, <1>4 DEF WorkerStep

LEMMA BoardStopStep ==
  ASSUME Undisturbed, LedgerInv, NEW r \in Row, StopStep(r)
  PROVE  [Board!Next]_(Board!board)
<1> USE DEF ActiveStatus
<1>1. CASE Release(r)
  <2>1. Active(r) /\ IsLatest(r)
    BY <1>1 DEF Release, LedgerInv, HoldInv
  <2>2. BoardMoves(r) /\ ~Active(r)'
    BY <1>1 DEF LedgerInv, TypeOK, BoardMoves, Release, SetRow, Active, fixedVars
  <2> QED BY <1>1, <2>1, <2>2, BoardFail DEF Release
<1>2. CASE BeginStop(r) \/ ResumeForRelay(r) \/ StopUnknown(r)
  <2>1. worker[r] \in Unsettled
    BY <1>2 DEF BeginStop, ResumeForRelay, StopUnknown, Unsettled
  <2>2. BoardMoves(r) /\ Active(r)'
    <3>1. UNCHANGED <<rows, rowTask, rowStatus, deps>>
      BY <1>2 DEF BeginStop, ResumeForRelay, StopUnknown, taskVars, rowVars, fixedVars
    <3> QED BY <2>1, <3>1, Holder DEF BoardMoves, Active
  <2>3. PICK s \in {"dispatched", "blocked"} : SetTask(rowTask[r], s)
    BY <1>2, <2>1, Holder, Rewritten DEF LedgerInv, BeginStop, ResumeForRelay, StopUnknown, SetTask,
                                         taskVars
  <2> QED BY <2>1, <2>2, <2>3, Holder, BoardDoubt
<1>3. CASE SettleStop(r) \/ ReconcileStop(r)
  <2>1. worker[r] \in Unsettled /\ worker[r] \in Doubt
    BY <1>3 DEF SettleStop, ReconcileStop, Unsettled, Doubt
  <2>2. BoardMoves(r) /\ ~Active(r)'
    BY <1>3 DEF LedgerInv, TypeOK, BoardMoves, SettleStop, ReconcileStop, FailIfActive, Active, taskVars,
                fixedVars
  <2>3. SetTask(rowTask[r], "blocked")
    BY <1>3, <2>1, Holder, Rewritten DEF LedgerInv, SettleStop, ReconcileStop, taskVars
  <2> QED BY <2>1, <2>2, <2>3, Holder, BoardFail
<1>4. CASE Abandon(r)
  <2>1. IsLatest(r) /\ SetTask(rowTask[r], "blocked")
    BY <1>4 DEF Abandon
  <2>2. BoardMoves(r) /\ ~Active(r)'
    BY <1>4 DEF LedgerInv, TypeOK, BoardMoves, Abandon, FailIfActive, Active, fixedVars
  <2>3. CASE Active(r)
    BY <2>1, <2>2, <2>3, BoardFail
  <2>4. CASE ~Active(r)
    <3>1. worker[r] \in {"failed", "stopped"}
      BY <1>4, <2>4 DEF LedgerInv, TypeOK, SuperInv, SuperRow, Abandon, Settled
    <3>2. rowTask[r] \in Task /\ taskStatus[rowTask[r]] \in {"failed", "blocked"}
      BY <2>1, <3>1 DEF LedgerInv, SuperInv, SuperRow
    <3> QED BY <2>1, <2>2, <2>4, <3>2, BoardSetAside
  <2> QED BY <2>3, <2>4
<1> QED BY <1>1, <1>2, <1>3, <1>4 DEF StopStep

LEMMA BoardStep ==
  ASSUME Undisturbed
  PROVE  LedgerInv /\ [Next]_vars => [Board!Next]_(Board!board)
<1> SUFFICES ASSUME LedgerInv, [Next]_vars PROVE [Board!Next]_(Board!board)
  OBVIOUS
<1>1. CASE TaskStep
  BY <1>1, BoardTaskStep
<1>2. ASSUME NEW r \in Row, DispatchStep(r) \/ WorkerStep(r) \/ StopStep(r)
      PROVE [Board!Next]_(Board!board)
  BY <1>2, BoardDispatchStep, BoardWorkerStep, BoardStopStep
<1>3. ASSUME NEW r \in Row, QuestionStep(r) PROVE UNCHANGED Board!board
  BY <1>3, BoardStutter DEF QuestionStep, Ask, Answer, taskVars, rowVars, fixedVars
<1>4. CASE GateStep
  BY <1>4 DEF Undisturbed, Disciplined, GateStep, ResolveGate, CreateGate
<1>5. CASE CrashStep
  <2>1. CASE Crash
    BY <2>1, BoardStutter DEF Crash, taskVars, rowVars, fixedVars
  <2> QED BY <1>5, <2>1 DEF Undisturbed, Disciplined, CrashStep, TornComplete, TornDispatch, TornFail,
                            TornResolve, TornGate
<1>6. CASE UNCHANGED vars
  BY <1>6, BoardStutter DEF vars
<1> QED BY <1>1, <1>2, <1>3, <1>4, <1>5, <1>6 DEF Next

\* Through retries, stops, abandons, crashes, recoveries and the late answers
\* of worker servers, the tasks of the ledger are a TaskBoard: one attempt at a
\* time, started in order, and completed for good by the attempt at work.
THEOREM LedgerIsABoard ==
  ASSUME Undisturbed
  PROVE  Spec => BoardSpec
<1>1. Init => Board!Init
  BY DEF Init, Board!Init, Working, Active, ActiveStatus
<1>2. LedgerInv /\ [Next]_vars => [Board!Next]_(Board!board)
  BY BoardStep
<1>3. Spec => []HoldInv /\ []HeldInv
  BY ActiveIsLatest, HeldCorrect DEF Undisturbed
<1> QED BY <1>1, <1>2, <1>3, TypeCorrect, ReleaseCorrect, SuperCorrect, PTL
        DEF Spec, BoardSpec, Board!Spec, LedgerInv
=============================================================================
