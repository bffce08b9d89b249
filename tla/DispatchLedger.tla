--------------------------- MODULE DispatchLedger ---------------------------
(***************************************************************************)
(* The durable ledger of the orchestration runtime: the tables tasks,      *)
(* dispatch_contexts, worker_dispatches, decision_gates and                *)
(* question_threads of one Run, with every handler of the runtime that     *)
(* moves a row of them (src/main/runtime/orchestration/db.ts and the RPC   *)
(* methods that call it).                                                  *)
(*                                                                         *)
(* The runtime is one JavaScript thread over SQLite: a handler runs        *)
(* without interruption from one await to the next, so each such segment   *)
(* is one action.  Handlers suspended in an await are kept in `handler`;   *)
(* what they do afterwards is an action of its own and finds whatever the  *)
(* other handlers left behind.  A process crash forgets the suspended      *)
(* handlers and keeps the tables.  The Torn... actions are crashes between *)
(* two statements of a handler that opens no transaction.                  *)
(*                                                                         *)
(* An operator named Faulty... is the definition that follows it with a    *)
(* plausible mistake in it.  No action uses one: they are there to test    *)
(* that the properties below can fail (see the README).                    *)
(***************************************************************************)
EXTENDS Naturals

CONSTANTS
  Task,           \* task ids the clients may create
  Terminal,       \* terminals: a pane together with the handle naming it
  NoTask,         \* rowTask of a row that does not exist
  NoTerminal,     \* assignee of a row no terminal is attached to
  Gate,           \* decision gate ids
  MaxDispatches,  \* bound: dispatch rows inserted in one behaviour
  Ops             \* the families of RPC calls and events that occur

\* The families of actions: a configuration that leaves one out assumes that
\* nobody makes that call (or that the event does not happen).
Family == { "manual",     \* dispatch without --inject
            "inject",     \* dispatch --inject: a prompt typed into the terminal
            "worker",     \* worker-start on this machine
            "reuse",      \* worker-start --terminal: an existing terminal
            "federated",  \* worker-start on a paired worker server
            "retry",      \* worker-start --retry-of
            "exit",       \* the agent of a dispatch without a worker exits
            "worker_exit",  \* the agent of a worker on this machine exits
            "stop",       \* worker-stop
            "abandon",    \* worker-abandon
            "update",     \* task-update
            "gate",       \* gate-create and gate-resolve
            "ask",        \* ask and its answer
            "relayed",    \* questions of federated workers, by the relay
            "crash",      \* the runtime dies and restarts
            "torn" }      \* ... between two statements of one handler

ASSUME DispatchLedgerAssumption ==
  /\ MaxDispatches \in Nat
  /\ NoTask \notin Task
  /\ NoTerminal \notin Terminal
  /\ Ops \subseteq Family

Row == 1 .. MaxDispatches    \* dispatch_contexts rowids, in insertion order

VARIABLES
  taskStatus,   \* tasks.status, "absent" before the insert
  deps,         \* tasks.deps
  rows,         \* number of dispatch_contexts rows
  rowTask,      \* dispatch_contexts.task_id
  rowStatus,    \* dispatch_contexts.status, "absent" before the insert
  assignee,     \* dispatch_contexts.assignee_handle / assignee_pane_key
  failures,     \* dispatch_contexts.failure_count
  capability,   \* capability_hash and capability_revoked_at
  worker,       \* worker_dispatches.state, "none" for a context-only row
  federated,    \* the row has a federated_dispatches row
  question,     \* the question_threads row of the dispatch
  gateTask,     \* decision_gates.task_id
  gateStatus,   \* decision_gates.status, "absent" before the insert
  handler,      \* the RPC handler suspended in an await about this row
  unrecovered   \* rows the recovery after a restart has yet to look at

taskVars    == <<taskStatus, deps>>
rowVars     == <<rowStatus, capability, failures>>
fixedVars   == <<rows, rowTask, federated>>
gateVars    == <<gateTask, gateStatus>>
processVars == <<handler, unrecovered>>
vars == <<taskStatus, deps, rows, rowTask, rowStatus, assignee, failures,
          capability, worker, federated, question, gateTask, gateStatus,
          handler, unrecovered>>

TaskStatus ==
  {"pending", "ready", "dispatched", "completed", "failed", "blocked"}
ActiveStatus == {"pending", "dispatched"}
DispatchStatus == ActiveStatus \cup {"completed", "failed", "circuit_broken"}
Settled == {"succeeded", "failed", "stopped", "abandoned"}
Unsettled == {"starting", "ready", "start_unknown", "stopping", "stop_unknown"}
Doubt == {"start_unknown", "stopping", "stop_unknown"}

TypeOK ==
  /\ taskStatus \in [Task -> TaskStatus \cup {"absent"}]
  /\ deps \in [Task -> SUBSET Task]
  /\ rows \in 0 .. MaxDispatches
  /\ rowTask \in [Row -> Task \cup {NoTask}]
  /\ rowStatus \in [Row -> DispatchStatus \cup {"absent"}]
  /\ assignee \in [Row -> Terminal \cup {NoTerminal}]
  /\ failures \in [Row -> Nat]
  /\ capability \in [Row -> {"none", "live", "revoked"}]
  /\ worker \in [Row -> Settled \cup Unsettled \cup {"none"}]
  /\ federated \in [Row -> BOOLEAN]
  /\ question \in [Row -> {"none", "pending", "answered", "closed"}]
  /\ gateTask \in [Gate -> Task \cup {NoTask}]
  /\ gateStatus \in [Gate -> {"absent", "pending", "resolved"}]
  /\ handler \in [Row -> {"none", "prompt", "start", "stop"}]
  /\ unrecovered \in SUBSET Row

Init ==
  /\ taskStatus = [t \in Task |-> "absent"]
  /\ deps = [t \in Task |-> {}]
  /\ rows = 0
  /\ rowTask = [r \in Row |-> NoTask]
  /\ rowStatus = [r \in Row |-> "absent"]
  /\ assignee = [r \in Row |-> NoTerminal]
  /\ failures = [r \in Row |-> 0]
  /\ capability = [r \in Row |-> "none"]
  /\ worker = [r \in Row |-> "none"]
  /\ federated = [r \in Row |-> FALSE]
  /\ question = [r \in Row |-> "none"]
  /\ gateTask = [g \in Gate |-> NoTask]
  /\ gateStatus = [g \in Gate |-> "absent"]
  /\ handler = [r \in Row |-> "none"]
  /\ unrecovered = {}

-----------------------------------------------------------------------------
(***************************************************************************)
(* Queries.                                                                *)
(***************************************************************************)
Exists(t) == taskStatus[t] # "absent"

Active(r) == rowStatus[r] \in ActiveStatus

\* getDispatchContext: the row of the task inserted last, whatever its status.
IsLatest(r) == \A q \in Row : rowTask[q] = rowTask[r] => q <= r

\* The newest active row of task t, as completeActiveDispatchForTask finds it.
IsNewestActive(r, t) ==
  /\ rowTask[r] = t
  /\ Active(r)
  /\ \A q \in Row : rowTask[q] = t /\ Active(q) => q <= r

\* Faulty: a dispatch still pending does not occupy its terminal.
FaultyBusy(term) == \E r \in Row : rowStatus[r] = "dispatched" /\ assignee[r] = term

\* findActiveDispatchForAssignee.
Busy(term) == \E r \in Row : Active(r) /\ assignee[r] = term

\* MAX(failure_count) over the rows of the task, 0 if there are none.
IsPriorFailures(n, t) ==
  /\ \A r \in Row : rowTask[r] = t => failures[r] <= n
  /\ n = 0 \/ \E r \in Row : rowTask[r] = t /\ failures[r] = n

\* Faulty: a task with several dependencies is overlooked.
FaultySingleDependency(t) ==
  { u \in Task : taskStatus[u] = "pending" /\ deps[u] = {t} }

\* The tasks promoteReadyTasks makes ready once t is completed.
Promotable(t) ==
  { u \in Task : /\ taskStatus[u] = "pending"
                 /\ t \in deps[u]
                 /\ \A d \in deps[u] : d = t \/ taskStatus[d] = "completed" }

\* The rows planLegacyWorkerTerminalRecovery finds, still active: workers that
\* are not settled and the only ones recorded on their terminal.
Candidates ==
  { r \in Row : /\ worker[r] \in Unsettled
                /\ Active(r)
                /\ assignee[r] # NoTerminal
                /\ \A q \in Row \ {r} :
                     worker[q] \in Unsettled => assignee[q] # assignee[r] }

-----------------------------------------------------------------------------
(***************************************************************************)
(* Statements several handlers share.                                      *)
(***************************************************************************)
SetTask(t, s) == taskStatus' = [taskStatus EXCEPT ![t] = s]

SetRow(r, s) == rowStatus' = [rowStatus EXCEPT ![r] = s]

\* capability_revoked_at = COALESCE(capability_revoked_at, now).
Revoke(r) ==
  capability' = [capability EXCEPT ![r] = IF @ = "live" THEN "revoked" ELSE @]

\* Faulty: a row still pending is left alone.
FaultyFailIfActive(r) ==
  rowStatus' = [rowStatus EXCEPT ![r] = IF @ = "dispatched" THEN "failed" ELSE @]

\* status = CASE WHEN active THEN 'failed' ELSE status END.
FailIfActive(r) ==
  rowStatus' = [rowStatus EXCEPT ![r] = IF @ \in ActiveStatus THEN "failed" ELSE @]

\* Faulty: the question stays open.
FaultyCloseQuestion(r) == UNCHANGED question

CloseQuestion(r) ==
  question' = [question EXCEPT ![r] = IF @ = "pending" THEN "closed" ELSE @]

SetWorker(r, s) == worker' = [worker EXCEPT ![r] = s]

SetHandler(r, h) == handler' = [handler EXCEPT ![r] = h]

\* Faulty: the row is given the status meant for the task.
FaultyFailedRow(r) == IF failures[r] + 1 >= 3 THEN "failed" ELSE "ready"

\* Faulty: the task is left as the attempt found it.
FaultyFailedTask(r) == IF failures[r] + 1 >= 3 THEN "failed" ELSE "dispatched"

\* The third failure breaks the circuit.
FailedRow(r)  == IF failures[r] + 1 >= 3 THEN "circuit_broken" ELSE "failed"
FailedTask(r) == IF failures[r] + 1 >= 3 THEN "failed" ELSE "ready"

\* The task t is completed and promotes the tasks S.
Complete(t, S) ==
  taskStatus' = [u \in Task |-> IF u = t THEN "completed"
                                ELSE IF u \in S THEN "ready" ELSE taskStatus[u]]

\* Faulty: the capability of the completed row is not revoked.
FaultyCompleteNewest(t) ==
  /\ rowStatus' = [r \in Row |->
       IF IsNewestActive(r, t) THEN "completed" ELSE rowStatus[r]]
  /\ UNCHANGED capability

\* completeActiveDispatchForTask: of the task's active rows only the newest.
CompleteNewest(t) ==
  /\ rowStatus' = [r \in Row |->
       IF IsNewestActive(r, t) THEN "completed" ELSE rowStatus[r]]
  /\ capability' = [r \in Row |->
       IF IsNewestActive(r, t) /\ capability[r] = "live"
       THEN "revoked" ELSE capability[r]]

\* Insert a dispatch row for t; its number is the next rowid.
InsertRow(t, status, term, count) ==
  /\ rows < MaxDispatches
  /\ rows' = rows + 1
  /\ rowTask' = [rowTask EXCEPT ![rows + 1] = t]
  /\ rowStatus' = [rowStatus EXCEPT ![rows + 1] = status]
  /\ assignee' = [assignee EXCEPT ![rows + 1] = term]
  /\ failures' = [failures EXCEPT ![rows + 1] = count]

\* createDispatchContext's insert: the failures of earlier attempts carry over.
InsertContext(t, term) ==
  /\ taskStatus[t] = "ready"
  /\ ~Busy(term)
  /\ \E n \in {0} \cup {failures[r] : r \in Row} :
       IsPriorFailures(n, t) /\ InsertRow(t, "dispatched", term, n)

\* The runtime dies: no handler resumes, and recovery looks at the candidates.
Die ==
  /\ handler' = [r \in Row |-> "none"]
  /\ unrecovered' = Candidates'

-----------------------------------------------------------------------------
(***************************************************************************)
(* Tasks.                                                                  *)
(***************************************************************************)
CreateTask(t, D) ==
  /\ ~Exists(t)
  /\ \A d \in D : Exists(d)
  /\ SetTask(t, IF \A d \in D : taskStatus[d] = "completed"
                THEN "ready" ELSE "pending")
  /\ deps' = [deps EXCEPT ![t] = D]
  /\ UNCHANGED <<rowVars, fixedVars, assignee, worker, question, gateVars, processVars>>

\* orchestration.taskUpdate: any status may be written over any other.
UpdateTask(t, s) ==
  /\ "update" \in Ops
  /\ Exists(t)
  /\ IF s = "completed"
     THEN Complete(t, Promotable(t)) /\ CompleteNewest(t)
     ELSE SetTask(t, s) /\ UNCHANGED <<rowStatus, capability>>
  /\ UNCHANGED <<deps, failures, fixedVars, assignee, worker, question, gateVars, processVars>>

\* ... and the process dies after the status, or after some promotions.
TornComplete(t, S) ==
  /\ {"update", "torn"} \subseteq Ops
  /\ Exists(t)
  /\ S \subseteq Promotable(t)
  /\ Complete(t, S)
  /\ UNCHANGED <<deps, rowVars, fixedVars, assignee, worker, question, gateVars>>
  /\ Die

-----------------------------------------------------------------------------
(***************************************************************************)
(* Context-only dispatches: orchestration.dispatch.                        *)
(***************************************************************************)
Dispatch(t, term, inject) ==
  /\ IF inject THEN "inject" \in Ops ELSE "manual" \in Ops
  /\ InsertContext(t, term)
  /\ SetTask(t, "dispatched")
  /\ capability' = [capability EXCEPT ![rows + 1] = IF inject THEN "live" ELSE "none"]
  /\ SetHandler(rows + 1, IF inject THEN "prompt" ELSE "none")
  /\ UNCHANGED <<deps, worker, federated, question, gateVars, unrecovered>>

\* The process dies between the insert and the update of the task.
TornDispatch(t, term) ==
  /\ "torn" \in Ops
  /\ {"manual", "inject"} \cap Ops # {}
  /\ InsertContext(t, term)
  /\ UNCHANGED <<taskVars, capability, worker, federated, question, gateVars>>
  /\ Die

PromptAccepted(r) ==
  /\ handler[r] = "prompt"
  /\ SetHandler(r, "none")
  /\ UNCHANGED <<taskVars, rowVars, fixedVars, assignee, worker, question, gateVars, unrecovered>>

\* failDispatch: no condition on the row's status or on the task's.
FailDispatch(r) ==
  /\ SetRow(r, FailedRow(r))
  /\ failures' = [failures EXCEPT ![r] = @ + 1]
  /\ Revoke(r)
  /\ SetTask(rowTask[r], FailedTask(r))

\* sendTerminalAgentPrompt rejected: the handler fails the row it inserted,
\* whatever has become of it in the meantime.
PromptFailed(r) ==
  /\ handler[r] = "prompt"
  /\ FailDispatch(r)
  /\ SetHandler(r, "none")
  /\ UNCHANGED <<deps, fixedVars, assignee, worker, question, gateVars, unrecovered>>

\* failActiveDispatchOnExit: an active row of the terminal, any if there are
\* two.  It asks nothing of the worker; the two families only tell which rows
\* a configuration lets an exit find.
FoundOnExit(r) ==
  /\ Active(r)
  /\ assignee[r] # NoTerminal
  /\ (IF worker[r] = "none" THEN "exit" ELSE "worker_exit") \in Ops

AgentExit(r) ==
  /\ FoundOnExit(r)
  /\ FailDispatch(r)
  /\ UNCHANGED <<deps, fixedVars, assignee, worker, question, gateVars, processVars>>

\* The process dies between the two updates of failDispatch.
TornFail(r) ==
  /\ "torn" \in Ops
  /\ handler[r] = "prompt" \/ FoundOnExit(r)
  /\ SetRow(r, FailedRow(r))
  /\ failures' = [failures EXCEPT ![r] = @ + 1]
  /\ Revoke(r)
  /\ UNCHANGED <<taskVars, fixedVars, assignee, worker, question, gateVars>>
  /\ Die

-----------------------------------------------------------------------------
(***************************************************************************)
(* The worker's report (worker_done), sent from the assigned terminal or   *)
(* imported from the worker server: settleWorkerReport.  A rejected or a   *)
(* duplicate report changes no row.                                        *)
(***************************************************************************)
Report(r, succeeded) ==
  /\ rowStatus[r] = "dispatched"
  /\ taskStatus[rowTask[r]] = "dispatched"
  /\ IsLatest(r)
  /\ federated[r] \/ (assignee[r] # NoTerminal /\ capability[r] # "revoked")
  /\ SetRow(r, IF succeeded THEN "completed" ELSE "failed")
  /\ IF succeeded
     THEN Complete(rowTask[r], Promotable(rowTask[r]))
     ELSE SetTask(rowTask[r], "failed")
  /\ worker' = [worker EXCEPT ![r] =
       IF @ # "ready" THEN @ ELSE IF succeeded THEN "succeeded" ELSE "failed"]
  /\ Revoke(r)
  /\ CloseQuestion(r)
  /\ UNCHANGED <<deps, failures, fixedVars, assignee, gateVars, processVars>>

-----------------------------------------------------------------------------
(***************************************************************************)
(* Supervised workers.  worker-start inserts the row, then its handler     *)
(* creates or adopts a terminal, attaches it, types the prompt and marks   *)
(* the worker ready, awaiting in between; for a federated worker a paired  *)
(* server does that and the handler awaits its receipt.                    *)
(***************************************************************************)
\* createStartingWorkerDispatch, after its conditions.
InsertWorker(t, fed) ==
  /\ IF fed THEN "federated" \in Ops ELSE "worker" \in Ops
  /\ InsertRow(t, "pending", NoTerminal, 0)
  /\ SetTask(t, "dispatched")
  /\ SetWorker(rows + 1, "starting")
  /\ federated' = [federated EXCEPT ![rows + 1] = fed]
  /\ SetHandler(rows + 1, "start")
  /\ UNCHANGED <<deps, capability, question, gateVars, unrecovered>>

StartWorker(t, fed) ==
  /\ taskStatus[t] = "ready"
  /\ InsertWorker(t, fed)

\* Faulty: a worker in doubt counts as ended.
FaultyRetryWorker(t, r, fed) ==
  /\ "retry" \in Ops
  /\ rowTask[r] = t
  /\ IsLatest(r)
  /\ worker[r] \in {"failed", "stopped", "abandoned", "start_unknown"}
  /\ taskStatus[t] \in {"failed", "blocked"}
  /\ InsertWorker(t, fed)

\* --retry-of r: the task's latest row, of a worker that did not succeed.
RetryWorker(t, r, fed) ==
  /\ "retry" \in Ops
  /\ rowTask[r] = t
  /\ IsLatest(r)
  /\ worker[r] \in {"failed", "stopped", "abandoned"}
  /\ taskStatus[t] \in {"failed", "blocked"}
  /\ InsertWorker(t, fed)

\* prepareStartingWorkerAuthority: a fresh terminal, or any with --terminal.
AttachTerminal(r, term) ==
  /\ handler[r] = "start"
  /\ ~federated[r]
  /\ rowStatus[r] = "pending"
  /\ worker[r] = "starting"
  /\ assignee[r] = NoTerminal
  /\ "reuse" \in Ops \/ \A q \in Row : assignee[q] # term
  /\ assignee' = [assignee EXCEPT ![r] = term]
  /\ capability' = [capability EXCEPT ![r] = "live"]
  /\ UNCHANGED <<taskVars, rowStatus, failures, fixedVars, worker, question, gateVars, processVars>>

\* markWorkerDispatchReady, once the prompt is accepted here or there.
WorkerReady(r) ==
  /\ handler[r] = "start"
  /\ federated[r] \/ assignee[r] # NoTerminal
  /\ rowStatus[r] = "pending"
  /\ worker[r] = "starting"
  /\ SetRow(r, "dispatched")
  /\ SetWorker(r, "ready")
  /\ SetHandler(r, "none")
  /\ UNCHANGED <<taskVars, capability, failures, fixedVars, assignee, question, gateVars, unrecovered>>

\* Faulty: the task goes back to ready.
FaultyStartFailed(r) ==
  /\ handler[r] = "start"
  /\ worker[r] = "starting"
  /\ SetRow(r, "failed")
  /\ Revoke(r)
  /\ SetWorker(r, "failed")
  /\ SetTask(rowTask[r], "ready")
  /\ CloseQuestion(r)
  /\ SetHandler(r, "none")
  /\ UNCHANGED <<deps, failures, fixedVars, assignee, gateVars, unrecovered>>

\* failWorkerStart: asks for the worker's state only, and fails the row.
StartFailed(r) ==
  /\ handler[r] = "start"
  /\ worker[r] = "starting"
  /\ SetRow(r, "failed")
  /\ Revoke(r)
  /\ SetWorker(r, "failed")
  /\ SetTask(rowTask[r], "failed")
  /\ CloseQuestion(r)
  /\ SetHandler(r, "none")
  /\ UNCHANGED <<deps, failures, fixedVars, assignee, gateVars, unrecovered>>

\* markWorkerStartUnknown: the handler cannot tell, or worker-show finds a
\* start whose handler died with an earlier process.
StartUnknown(r) ==
  /\ worker[r] = "starting"
  /\ handler[r] = "start" \/ ~federated[r]
  /\ SetWorker(r, "start_unknown")
  /\ Revoke(r)
  /\ SetTask(rowTask[r], "blocked")
  /\ CloseQuestion(r)
  /\ SetHandler(r, "none")
  /\ UNCHANGED <<deps, rowStatus, failures, fixedVars, assignee, gateVars, unrecovered>>

\* Faulty: a row that has ended is dispatched as well.
FaultyReconcileReady(r) ==
  /\ federated[r]
  /\ worker[r] \in {"starting", "start_unknown"}
  /\ SetWorker(r, "ready")
  /\ SetRow(r, "dispatched")
  /\ taskStatus' = [taskStatus EXCEPT ![rowTask[r]] =
       IF @ = "blocked" THEN "dispatched" ELSE @]
  /\ SetHandler(r, "none")
  /\ UNCHANGED <<deps, capability, failures, fixedVars, assignee, question, gateVars, unrecovered>>

\* reconcileFederatedWorkerStart: worker-show found the remote worker ready ...
ReconcileReady(r) ==
  /\ federated[r]
  /\ worker[r] \in {"starting", "start_unknown"}
  /\ SetWorker(r, "ready")
  /\ rowStatus' = [rowStatus EXCEPT ![r] = IF @ = "pending" THEN "dispatched" ELSE @]
  /\ taskStatus' = [taskStatus EXCEPT ![rowTask[r]] =
       IF @ = "blocked" THEN "dispatched" ELSE @]
  /\ SetHandler(r, "none")
  /\ UNCHANGED <<deps, capability, failures, fixedVars, assignee, question, gateVars, unrecovered>>

\* ... or failed, or stopped.
ReconcileEnded(r, s) ==
  /\ federated[r]
  /\ s \in {"failed", "stopped"}
  /\ worker[r] \in {"starting", "start_unknown"}
  /\ SetWorker(r, s)
  /\ FailIfActive(r)
  /\ IF Active(r) THEN Revoke(r) ELSE UNCHANGED capability
  /\ taskStatus' = [taskStatus EXCEPT ![rowTask[r]] =
       IF @ \in {"blocked", "dispatched"} THEN "failed" ELSE @]
  /\ CloseQuestion(r)
  /\ SetHandler(r, "none")
  /\ UNCHANGED <<deps, failures, fixedVars, assignee, gateVars, unrecovered>>

\* reconcileMissingWorkerTerminal: after a restart the recovery finds that the
\* terminal of a candidate is gone.
MissingTerminal(r) ==
  /\ r \in unrecovered
  /\ worker[r] \in Unsettled
  /\ IF Active(r)
     THEN /\ SetRow(r, FailedRow(r))
          /\ failures' = [failures EXCEPT ![r] = @ + 1]
          /\ Revoke(r)
          /\ taskStatus' = [taskStatus EXCEPT ![rowTask[r]] =
               IF @ \in {"dispatched", "blocked"} /\ worker[r] \notin {"stopping", "stop_unknown"}
               THEN FailedTask(r) ELSE @]
          /\ CloseQuestion(r)
     ELSE UNCHANGED <<taskStatus, rowVars, question>>
  /\ SetWorker(r, IF worker[r] \in {"stopping", "stop_unknown"}
                  THEN "stopped" ELSE "abandoned")
  /\ unrecovered' = unrecovered \ {r}
  /\ UNCHANGED <<deps, fixedVars, assignee, gateVars, handler>>

\* ... or that it is still live, or the worker is settled: nothing to do.
Recovered(r) ==
  /\ r \in unrecovered
  /\ unrecovered' = unrecovered \ {r}
  /\ UNCHANGED <<taskVars, rowVars, fixedVars, assignee, worker, question, gateVars, handler>>

-----------------------------------------------------------------------------
(***************************************************************************)
(* Stop and abandon.                                                       *)
(***************************************************************************)
\* releaseContextOnlyDispatch: stop or abandon of a row without a worker.
Release(r) ==
  /\ {"stop", "abandon"} \cap Ops # {}
  /\ worker[r] = "none"
  /\ Active(r)
  /\ SetRow(r, "failed")
  /\ Revoke(r)
  /\ IF IsLatest(r) THEN SetTask(rowTask[r], "blocked") ELSE UNCHANGED taskStatus
  /\ CloseQuestion(r)
  /\ UNCHANGED <<deps, failures, fixedVars, assignee, worker, gateVars, processVars>>

\* Faulty: a worker that has ended is stopped again.
FaultyStopAgain(r) ==
  /\ "stop" \in Ops
  /\ worker[r] \in {"ready", "start_unknown"} \cup Settled
  /\ SetWorker(r, "stopping")
  /\ Revoke(r)
  /\ SetTask(rowTask[r], "blocked")
  /\ CloseQuestion(r)
  /\ SetHandler(r, "stop")
  /\ UNCHANGED <<deps, rowStatus, failures, fixedVars, assignee, gateVars, unrecovered>>

\* beginWorkerStop, after which the handler awaits the process or the server.
BeginStop(r) ==
  /\ "stop" \in Ops
  /\ worker[r] \in {"ready", "start_unknown"}
  /\ SetWorker(r, "stopping")
  /\ Revoke(r)
  /\ SetTask(rowTask[r], "blocked")
  /\ CloseQuestion(r)
  /\ SetHandler(r, "stop")
  /\ UNCHANGED <<deps, rowStatus, failures, fixedVars, assignee, gateVars, unrecovered>>

\* settleWorkerStop: the terminal of the worker was closed.
SettleStop(r) ==
  /\ handler[r] = "stop"
  /\ worker[r] = "stopping"
  /\ ~federated[r]
  /\ assignee[r] # NoTerminal
  /\ SetWorker(r, "stopped")
  /\ FailIfActive(r)
  /\ SetHandler(r, "none")
  /\ UNCHANGED <<taskVars, capability, failures, fixedVars, assignee, question, gateVars, unrecovered>>

\* reconcileFederatedWorkerStop: the server answers the stop, or worker-show
\* finds the remote worker stopped.
ReconcileStop(r) ==
  /\ federated[r]
  /\ worker[r] \in {"stopping", "stop_unknown"}
  /\ SetWorker(r, "stopped")
  /\ FailIfActive(r)
  /\ SetHandler(r, "none")
  /\ UNCHANGED <<taskVars, capability, failures, fixedVars, assignee, question, gateVars, unrecovered>>

\* resumeFederatedWorkerForTerminalRelay: the server answers that the worker
\* had already reported; the report is still in the relay.
ResumeForRelay(r) ==
  /\ handler[r] = "stop"
  /\ federated[r]
  /\ worker[r] = "stopping"
  /\ SetWorker(r, "ready")
  /\ taskStatus' = [taskStatus EXCEPT ![rowTask[r]] =
       IF @ = "blocked" THEN "dispatched" ELSE @]
  /\ SetHandler(r, "none")
  /\ UNCHANGED <<deps, rowVars, fixedVars, assignee, question, gateVars, unrecovered>>

\* markWorkerStopUnknown: the handler cannot tell, or worker-show finds a
\* stop whose handler died with an earlier process.
StopUnknown(r) ==
  /\ worker[r] = "stopping"
  /\ handler[r] = "stop" \/ ~federated[r]
  /\ SetWorker(r, "stop_unknown")
  /\ SetHandler(r, "none")
  /\ UNCHANGED <<taskVars, rowVars, fixedVars, assignee, question, gateVars, unrecovered>>

\* Faulty: a worker that was replaced is abandoned as well.
FaultyAbandon(r) ==
  /\ "abandon" \in Ops
  /\ worker[r] \notin {"none", "abandoned", "succeeded"}
  /\ SetWorker(r, "abandoned")
  /\ FailIfActive(r)
  /\ Revoke(r)
  /\ SetTask(rowTask[r], "blocked")
  /\ CloseQuestion(r)
  /\ UNCHANGED <<deps, failures, fixedVars, assignee, gateVars, processVars>>

\* abandonWorkerDispatch: only the task's latest row, and no success.
Abandon(r) ==
  /\ "abandon" \in Ops
  /\ worker[r] \notin {"none", "abandoned", "succeeded"}
  /\ IsLatest(r)
  /\ SetWorker(r, "abandoned")
  /\ FailIfActive(r)
  /\ Revoke(r)
  /\ SetTask(rowTask[r], "blocked")
  /\ CloseQuestion(r)
  /\ UNCHANGED <<deps, failures, fixedVars, assignee, gateVars, processVars>>

-----------------------------------------------------------------------------
(***************************************************************************)
(* Decision gates.                                                         *)
(***************************************************************************)
CreateGate(g, t) ==
  /\ "gate" \in Ops
  /\ gateStatus[g] = "absent"
  /\ Exists(t)
  /\ gateTask' = [gateTask EXCEPT ![g] = t]
  /\ gateStatus' = [gateStatus EXCEPT ![g] = "pending"]
  /\ CompleteNewest(t)
  /\ SetTask(t, "blocked")
  /\ UNCHANGED <<deps, failures, fixedVars, assignee, worker, question, processVars>>

\* The process dies after the insert, or before the task is blocked.
TornGate(g, t) ==
  /\ {"gate", "torn"} \subseteq Ops
  /\ gateStatus[g] = "absent"
  /\ Exists(t)
  /\ gateTask' = [gateTask EXCEPT ![g] = t]
  /\ gateStatus' = [gateStatus EXCEPT ![g] = "pending"]
  /\ CompleteNewest(t) \/ UNCHANGED <<rowStatus, capability>>
  /\ UNCHANGED <<taskVars, failures, fixedVars, assignee, worker, question>>
  /\ Die

\* resolveGate: neither the gate's status nor the task's is looked at.
ResolveGate(g) ==
  /\ "gate" \in Ops
  /\ gateStatus[g] # "absent"
  /\ gateStatus' = [gateStatus EXCEPT ![g] = "resolved"]
  /\ SetTask(gateTask[g], "ready")
  /\ UNCHANGED <<deps, rowVars, fixedVars, assignee, worker, question, gateTask, processVars>>

TornResolve(g) ==
  /\ {"gate", "torn"} \subseteq Ops
  /\ gateStatus[g] # "absent"
  /\ gateStatus' = [gateStatus EXCEPT ![g] = "resolved"]
  /\ UNCHANGED <<taskVars, rowVars, fixedVars, assignee, worker, question, gateTask>>
  /\ Die

-----------------------------------------------------------------------------
(***************************************************************************)
(* Questions.  A local worker asks about an active dispatch; the question  *)
(* of a federated worker arrives by the relay and is only recorded.        *)
(***************************************************************************)
Ask(r) ==
  /\ question[r] = "none"
  /\ \/ "relayed" \in Ops /\ federated[r]
     \/ /\ "ask" \in Ops
        /\ Active(r) /\ assignee[r] # NoTerminal /\ capability[r] # "revoked"
  /\ question' = [question EXCEPT ![r] = "pending"]
  /\ UNCHANGED <<taskVars, rowVars, fixedVars, assignee, worker, gateVars, processVars>>

Answer(r) ==
  /\ question[r] = "pending"
  /\ question' = [question EXCEPT ![r] = "answered"]
  /\ UNCHANGED <<taskVars, rowVars, fixedVars, assignee, worker, gateVars, processVars>>

Crash ==
  /\ "crash" \in Ops
  /\ UNCHANGED <<taskVars, rowVars, fixedVars, assignee, worker, question, gateVars>>
  /\ Die

-----------------------------------------------------------------------------
TaskStep ==
  \E t \in Task :
    \/ \E D \in SUBSET (Task \ {t}) : CreateTask(t, D)
    \/ \E s \in TaskStatus : UpdateTask(t, s)
    \/ \E term \in Terminal, inject \in BOOLEAN : Dispatch(t, term, inject)
    \/ \E fed \in BOOLEAN : StartWorker(t, fed)

\* What happens to the row r of a dispatch.
DispatchStep(r) ==
  \/ PromptAccepted(r) \/ PromptFailed(r) \/ AgentExit(r)
  \/ \E succeeded \in BOOLEAN : Report(r, succeeded)

WorkerStep(r) ==
  \/ \E t \in Task, fed \in BOOLEAN : RetryWorker(t, r, fed)
  \/ \E term \in Terminal : AttachTerminal(r, term)
  \/ WorkerReady(r) \/ StartFailed(r) \/ StartUnknown(r)
  \/ ReconcileReady(r) \/ \E s \in Settled : ReconcileEnded(r, s)
  \/ MissingTerminal(r) \/ Recovered(r)

StopStep(r) ==
  \/ Release(r) \/ BeginStop(r) \/ SettleStop(r) \/ ReconcileStop(r)
  \/ ResumeForRelay(r) \/ StopUnknown(r) \/ Abandon(r)

QuestionStep(r) == Ask(r) \/ Answer(r)

GateStep ==
  \E g \in Gate : ResolveGate(g) \/ \E t \in Task : CreateGate(g, t)

CrashStep ==
  \/ Crash
  \/ \E t \in Task, S \in SUBSET Task : TornComplete(t, S)
  \/ \E t \in Task, term \in Terminal : TornDispatch(t, term)
  \/ \E r \in Row : TornFail(r)
  \/ \E g \in Gate : TornResolve(g) \/ \E t \in Task : TornGate(g, t)

Next ==
  \/ TaskStep
  \/ \E r \in Row : DispatchStep(r) \/ WorkerStep(r) \/ StopStep(r) \/ QuestionStep(r)
  \/ GateStep
  \/ CrashStep

Spec == Init /\ [][Next]_vars

-----------------------------------------------------------------------------
(***************************************************************************)
(* Properties.                                                             *)
(***************************************************************************)
\* A dispatch that has ended has lost its capability: nothing its worker
\* still sends is accepted in its name.
InactiveRevoked == \A r \in Row : capability[r] = "live" => Active(r)

\* A settled worker does not hold its dispatch: the terminal it had counts as
\* free, and a retry of it does not make a second active dispatch.
SettledReleased == \A r \in Row : worker[r] \in Settled => ~Active(r)

\* Both, with what keeps them true from step to step: a row not yet inserted
\* is blank; a worker being stopped or in doubt has lost its capability
\* before its row ends; one still starting has never lost it.
ReleaseInv ==
  \A r \in Row :
    /\ rows < r => /\ rowTask[r] = NoTask /\ rowStatus[r] = "absent"
                   /\ assignee[r] = NoTerminal /\ capability[r] = "none"
                   /\ worker[r] = "none" /\ handler[r] = "none"
    /\ capability[r] = "live" => Active(r)
    /\ worker[r] \in Settled => ~Active(r)
    /\ worker[r] \in {"start_unknown", "stopping", "stop_unknown"} => capability[r] # "live"
    /\ worker[r] = "starting" /\ Active(r) => capability[r] # "revoked"

\* A dispatch that ended never becomes active again, whatever arrives late.
NoResurrection ==
  [][\A r \in Row : rowStatus[r] # "absent" /\ ~Active(r) => ~Active(r)']_vars

\* A revoked capability is never valid again.
RevokedForever ==
  [][\A r \in Row : capability[r] = "revoked" => capability'[r] = "revoked"]_vars

\* A task is worked on under one dispatch at a time.
OneActivePerTask ==
  \A r, q \in Row : Active(r) /\ Active(q) /\ rowTask[r] = rowTask[q] => r = q

\* ... and why: an active dispatch is the task's latest, so that a retry of the
\* latest finds no other, and its task is in no status a start accepts.
HoldInv ==
  \A r \in Row :
    /\ Active(r) => /\ rowTask[r] \in Task /\ IsLatest(r)
                    /\ taskStatus[rowTask[r]] \notin {"absent", "pending", "ready"}
    /\ handler[r] # "prompt"

\* A terminal works on one dispatch at a time (createDispatchContext's lock).
TerminalExclusive ==
  \A r, q \in Row :
    Active(r) /\ Active(q) /\ assignee[r] = assignee[q] /\ assignee[r] # NoTerminal
      => r = q

\* A task is dispatched only while one of its dispatches is active.
DispatchedIsHeld ==
  \A t \in Task : taskStatus[t] = "dispatched" =>
    \E r \in Row : rowTask[r] = t /\ Active(r)

\* While a dispatch is active nobody else can take its task.
ActiveHoldsTask ==
  \A r \in Row : Active(r) => taskStatus[rowTask[r]] \in {"dispatched", "blocked"}

\* A completed task stays completed.
CompletedIsFinal ==
  [][\A t \in Task : taskStatus[t] = "completed" => taskStatus'[t] = "completed"]_vars

\* No task starts before everything it depends on is completed.
DependenciesFirst ==
  \A t \in Task : taskStatus[t] \in {"ready", "dispatched"} =>
    \A d \in deps[t] : taskStatus[d] = "completed"

\* The step that completes a task leaves none of its children waiting whose
\* dependencies are all completed.
PromotionAtomic ==
  [][\A t, u \in Task :
       /\ taskStatus[t] # "completed" /\ taskStatus'[t] = "completed"
       /\ t \in deps[u]
       /\ \A d \in deps[u] : taskStatus'[d] = "completed"
       => taskStatus'[u] # "pending"]_vars

\* After three consecutive failures of a task it is not dispatched again.
FailedRows(t) ==
  { r \in Row : rowTask[r] = t /\ failures[r] > 0 /\ rowStatus[r] \in {"failed", "circuit_broken"} }
CircuitBreaks ==
  \A t \in Task : \A p, q, r \in FailedRows(t) :
    /\ p < q /\ q < r
    /\ \A o \in Row : rowTask[o] = t => o \in {p, q, r} \/ o < p
    => taskStatus[t] \notin {"ready", "dispatched"}

\* The question of a worker waits for an answer only while its dispatch is
\* active.  (One asked under a dispatch without a worker outlives the exit of
\* the agent that asked: failDispatch closes none.)
QuestionsClosed ==
  \A r \in Row : question[r] = "pending" /\ worker[r] # "none" => Active(r)

\* The stop of a superseded worker leaves the task to its replacement.
SupersededStopKeepsTask ==
  [][\A r \in Row :
       worker[r] # "stopping" /\ worker'[r] = "stopping" /\ ~IsLatest(r)
         => taskStatus'[rowTask[r]] = taskStatus[rowTask[r]]]_vars

\* A worker that is not settled holds its task: its dispatch is active and no
\* other has taken the task since, so that what its handler writes to the task
\* when it comes back, however late, is written about the work in progress.
\* The task's status tells whether the worker's start or stop is in doubt; one
\* that is can be abandoned.
UnsettledHolds ==
  \A r \in Row : worker[r] \in Unsettled =>
    /\ Active(r) /\ IsLatest(r)
    /\ taskStatus[rowTask[r]] = IF worker[r] \in Doubt THEN "blocked" ELSE "dispatched"

\* The current worker, if it failed or was stopped, can be retried.
EndedIsRetryable ==
  \A r \in Row : worker[r] \in {"failed", "stopped"} /\ IsLatest(r)
    => taskStatus[rowTask[r]] \in {"failed", "blocked"}

\* What a TaskBoard is for the ledger: the attempts at work on a task are its
\* active dispatches.
Working == [t \in Task |-> { r \in Row : rowTask[r] = t /\ Active(r) }]
Board == INSTANCE TaskBoard WITH status <- taskStatus, attempts <- rows, working <- Working

\* The ledger keeps the promise of TaskBoard to the coordinator: whatever its
\* workers do, a task is started, ended and completed by one attempt at a time.
BoardSpec == Board!Spec
=============================================================================
