# A formal model of Orca's orchestration runtime

Orca runs coding agents in terminals and lets one of them, a coordinator, hand
work to others.  The part of it that must not go wrong is the *orchestration
runtime*: an SQLite database of tasks, dispatches, messages and mailboxes
(`src/main/runtime/orchestration/db.ts`), the RPC methods that agents call on it
(`src/main/runtime/rpc/methods/orchestration*.ts`), and the events of the
terminals (`src/main/runtime/orca-runtime.ts`).  This directory holds its
specification in TLA+, the model checking of small instances, and proofs for
all instances.  Paths below are those of the repository.

## 1. The system

The runtime is one JavaScript thread.  A handler runs alone from one `await` to
the next; between two awaits other handlers, timers and terminal events run.
SQLite statements are synchronous.  Some handlers wrap theirs in a transaction,
some do not, and a crash of the process can then fall between two of them.

### 1.1 Components of the orchestration core

| component | state | operations | what is hard | what makes it correct |
|---|---|---|---|---|
| Tasks | `tasks` | task-create, task-update, promotion of children | promotion torn by a crash; any status over any other | no task starts before its dependencies; a completed task stays completed |
| Dispatch contexts | `dispatch_contexts` | dispatch, prompt, report, exit, release | the prompt's late failure; exits; circuit breaker | one active dispatch per task and per terminal; what ended stays ended |
| Worker dispatches | `worker_dispatches` | worker-start, retry, stop, abandon, show | unknown outcomes, late answers, crashes between start and receipt | a settled worker holds nothing and can be retried |
| Federated workers | `federated_dispatches`, `remote_dispatch_attachments` | the same through a paired server | lost answers, remote state found out later | the home ledger converges to the remote outcome |
| Federation relay | `federation_relay_items`, the cursors of `federated_dispatches` and `remote_dispatch_attachments` | enqueue, pull, import, acknowledge, hand over mail | loss, late and repeated calls, restarts of either server, quota, overwritten heartbeats | each item arrives once and in order; both servers settle the dispatch alike; the agent is told home's verdict |
| Gates and questions | `decision_gates`, `question_threads` | create, resolve; ask, answer, close | gates resolved twice or late; questions that outlive the dispatch | a question waits only while its dispatch is active |
| Runs | `runs`, `run_coordinator_handles` | run-create, run-use | takeover of the consumer while it reads or waits | one consumer per Run, one Run per pane |
| Run mailboxes | `messages`, `deliveries` | send, check, check --ack, reply | lost responses, replays, fencing, routing late mail | mail is delivered at least once, acknowledged once, and read in the end |
| Waiters | in memory | waitForMessage, notify, cancel | lost wakeups, stale waiters | a check waits only while there is nothing for it |
| Pointer delivery | `messages.delivered_at`; flights, watermarks and parked deliveries in memory | type a pointer into an idle terminal, press Enter half a second later, withdraw, redeliver | a check, the agent's work, a takeover, the terminal's exit and its return between text and Enter | Enter goes only to the process that has the text; Enter is pressed once for a message; mail is announced in the end |
| Mutation receipts | `mutation_receipts` | begin, complete, replay | repeats while the first call runs, after it ended, after it died; pruning | a request takes effect once, and every answer is the result of that effect |
| Worker terminals | `worker_terminal_resources`, `worker_terminal_archives`; running completions and reconciliation in memory | attach, reuse, release, retain, take over by typing, complete, reconcile | the user, the coordinator, another worker, the exit of the process, a crash or a lost connection between the steps of a release | only a release still wanted closes a terminal, its output saved, nobody else at work in it; every release ends |
| Recovery | none | after a restart: rows whose terminal is gone | rows that settle while it looks | recovery never revives or overtakes |

### 1.2 How they interact

`DispatchLedger` (below) and the mailboxes share two facts only: which
terminals have an active dispatch (it decides whether mail to a terminal goes to
the Run) and whether a dispatch has ended (a late heartbeat is stored as read).
A worker's `worker_done` is a message and a settlement in one transaction: the
ledger models the settlement, the mailbox the message.  The relay carries reports,
heartbeats and questions of remote workers to the same two places, and the
coordinator's mail to the remote worker.  Every mutating RPC method runs inside
`OrchestrationMutationExecutor.run`, and so behind a mutation receipt; the calls the
relay makes carry request ids of their own, so that the worker server's
receipts decide what a repeated acknowledgment or mail call does.
A terminal outlives its worker: once the ledger has settled it, `worker-release` closes the
terminal, or `worker-start --terminal` hands it on.  Recovery after a restart
ends with a reconciliation of releases, as does each reconnect of a provider.

### 1.3 The rest of the repository

The desktop application, the mobile client and the CLI are clients of these
calls.  Terminals live in a daemon (`src/main/daemon`) or behind SSH
(`src/main/ssh`, `src/relay`), where a credit ledger bounds the output in
flight.  Automations (`src/main/automations`) start agents on a schedule, agent hooks
(`src/main/agent-hooks`) report their status.  `PROJECT.json` lists each with the reason
it is not modelled.  The coordinator loop in `coordinator.ts` is retired: the
contract fence refuses the calls that would start it.

## 2. The modules

| module | what it is |
|---|---|
| `TaskBoard` | abstract: tasks, each worked on by one attempt at a time |
| `DispatchLedger` | tasks, dispatches, workers, gates, questions, recovery and crashes; implements `TaskBoard` |
| `MCDispatchLedger` | its TLC instances: symmetry of tasks and terminals |
| `DispatchLedgerProofs` | theorems about it |
| `TaskBoardRefined` | the proof of the refinement |
| `LeasedMailbox` | abstract: the mailbox of one Run, whose consumers take turns |
| `RunMailbox` | Runs, consumers, messages, deliveries, waiting checks; implements `LeasedMailbox` for each Run |
| `MCRunMailbox` | its TLC instances: panes, symmetry of Runs |
| `RunMailboxProofs` | theorems about it |
| `LeasedMailboxRefined` | the proof of the refinement |
| `RelayChannel` | abstract: a channel that delivers every message once and in order |
| `FederationRelay` | the relay of one dispatch between its home and its worker server; implements `RelayChannel` twice |
| `MCFederationRelay` | its TLC instances |
| `FederationRelayProofs` | theorems about it, the two refinements among them |
| `OnceOnly` | abstract: a request that takes effect once, however often it is repeated |
| `MutationReceipts` | mutation receipts, running handlers, joined and repeated calls; implements `OnceOnly` |
| `MCMutationReceipts` | its TLC instance: the kind of each request |
| `MutationReceiptsProofs` | theorems about it, the refinement among them |
| `MailboxPointer` | pointers to mail, typed into the terminals of coordinators |
| `MCMailboxPointer` | its TLC instance: where the Run is bound at first |
| `MailboxPointerProofs` | theorems about it |
| `WorkerTerminals` | who owns the terminal of a worker, and how it is released |
| `MCWorkerTerminals` | its TLC instance: two workers in turn, and a second release |
| `WorkerTerminalsProofs` | theorems about it |

`FederationRelay` composes the two servers; what it needs of the ledger
is the state of one worker dispatch, and of the receipts those of its
two calls.  `MailboxPointer` and `RunMailbox` model the same mailboxes, one for how
a coordinator is told of mail, the other for how it reads it; each keeps of the
other what it depends on: `MailboxPointer` a Run's lease and waiting check as
sets of messages and of types, `RunMailbox` nothing, because no reader
looks at `delivered_at`.  `WorkerTerminals` needs of the ledger the state of
each worker, and `Settle` stands for the ways the ledger settles one.

### 2.1 DispatchLedger

A row of `dispatch_contexts` is a number, its rowid.  `rowStatus`, `assignee`,
`failures` and `capability` are its columns, `worker` the state of the
`worker_dispatches` row that goes with it (`none` for a dispatch without a
supervised worker), `federated` whether it has a `federated_dispatches` row, and
`question` the status of its question thread.  `handler` says which RPC handler is suspended
in an await about the row: awaiting the prompt, the start, or the stop.
`unrecovered` are the rows the recovery after a restart has not looked at.

One action stands for one segment of a handler between awaits:

* `StartWorker` or `RetryWorker` is everything `worker-start` does up to its
  insert, with `createStartingWorkerDispatch`; `AttachTerminal` is
  `prepareStartingWorkerAuthority`; `WorkerReady`, `StartFailed` and
  `StartUnknown` are the three ends.
* `Dispatch` is `orchestration.dispatch`; with `--inject`, `PromptAccepted` or
  `PromptFailed` is what happens after the await.
* `AgentExit` is `failActiveDispatchOnExit`, which asks nothing of the worker (`FoundOnExit`);
  the families `exit` and `worker_exit` tell whether a configuration has exits of agents
  without a worker, of agents of local workers, or both.  `Report` is `settleWorkerReport`.
* `BeginStop` begins a stop and `SettleStop`, `ReconcileStop`, `ResumeForRelay`
  or `StopUnknown` is what is learned of it; `Release` and `Abandon` need no
  answer.
* `Crash` forgets all handlers.  `TornFail`, `TornComplete`, `TornDispatch`,
  `TornGate` and `TornResolve` are crashes between two statements of a handler that opens no
  transaction.

The constant `Ops` holds the families of calls and events that occur.  A
property that needs one left out is not a property of the whole program, and
the run that checks it says which family it leaves out: the family is a named
assumption about the clients and the environment, visible in the cfg and in the
theorem.

Abstracted: texts, results and payloads; identities beyond the pane (a terminal
here is a pane with its current handle); the worktree and terminal calls of
`worker-start`, which are the awaits; legacy contract rows; authorization of
the caller by Run.  A report that is refused changes no row of the ledger.

`TaskBoard` is what a coordinator may rely on, without workers, prompts, servers and
stops.  Its `attempts` is the number of rows, its `working` the active dispatches of each task
(`Working`), of which it allows one.  `Start` is any start of a dispatch; `Succeed` a report of success, with the
promotion; `Fail` whatever ends a dispatch otherwise; `Doubt` what moves a task between
`dispatched` and `blocked` under its dispatch: a stop that begins, an outcome that is not known, a worker
that is found again; `SetAside` a stop or an abandonment of a worker whose dispatch had failed already.
All the rest, the columns of the worker among them, is a stutter.

### 2.2 RunMailbox

`generation` and `coordinator` are the columns of `runs`; generation 0 is a Run
not yet created.  `known` is `run_coordinator_handles`.  A message is its
sequence number, with `msgRun`, `msgType`, `box` (the handle it is addressed to, or `"run"`
once it is in the Run's mailbox) and membership in `read`.  A Delivery is a
number with `dRun`, `dGen`, `dMsgs` and `dStatus`.  `check` holds the check call
of each terminal that is suspended: `routing`, `waiting`, or `woken`.
`received` and `seen` are no state of the code: they record what the agents
were shown, so that loss can be stated.

* `CreateRun` and `BindRun` are `runCreate` and `runUse`, with the unbinding of
  the pane's other Runs, the routing of mail to the old handles, the fencing of
  the outstanding Delivery, and the cancelled waiters.
* `Send` is `insertMessage` with its trigger, the suppression of obsolete
  heartbeats, and `notifyMessageArrived` with its routing and wakeups;
  `SendLateHeartbeat` is a heartbeat for an ended dispatch; `Forward` is
  `deliverForLeaf`.
* A check of the consumer is `CheckBegin` and then, after the routing awaits,
  `CheckRead` (a Delivery), `CheckNothing` (it ends, or waits), or `CheckShow`
  (`--peek`, `--all`).  A waiter that was woken goes on with `CheckWoken`.
  `CheckEnds` is every way for it to end without an effect: fenced, refused,
  timed out, disconnected.  `CheckDirect` is a check from a terminal that
  consumes no Run.  A response may be lost (`Respond`).
* `Reply` marks the message read, whoever replies: a message that was shown, and with the family
  `unsolicited` any message that was sent.  `Crash` forgets the suspended checks.

`Assign` stands for the ledger: a dispatch to a terminal becomes active or ends.

`LeasedMailbox` is the promise to the consumers of one Run.  Its `mail` is what is in the Run's mailbox
(`MailOf`), `done` what is read of it, `shown` what was seen of it, `term` the consumer generation, and `lease` what the
outstanding Delivery holds and for which generation (`LeaseOf`).  `Check` acknowledges, leases and shows in
one step, as the check does in one segment: a lease is new only when nothing is left of the old one, it is
of the oldest mail, and a response shows the lease, or all that is left, or is lost.  `TakeOver` is what `runCreate`
and `runUse` do to each Run whose consumer they change.  `MailboxSpec` says it of all Runs at
once: in every step each of them takes a step of its mailbox or none.

Not modelled: a `--peek` that waits; a waiting check of a worker; the mailbox of a dispatch;
legacy Runs; the rewriting of a rejected lifecycle message; a
handle whose pane changes.

### 2.3 FederationRelay and RelayChannel

One federated dispatch, seen from both servers, for relay protocol 3
(`ORCHESTRATION_FEDERATION_LIFECYCLE_SETTLEMENT_PROTOCOL_VERSION`).

On the worker server `queue` is the `to_home` part of `federation_relay_items` and
`acked` how many of its rows have `acked_at` (they are acknowledged in order);
`remote` is `remote_dispatch_attachments.state`, `mailbox` and `mailCursor` the mail imported
and `to_worker_imported_sequence`; `receipts` and `torn` are the completed mutation
receipts of `federationAck` and the request ids whose receipt a crash left
pending; `epoch` numbers the lives of the server, as its runtime id does.  At home
`imported`, `ackedHome` and `ackedEpoch` are `to_home_imported_sequence`,
`to_home_acknowledged_sequence` and `remote_runtime_epoch`; `inbox` holds the messages
imported and `decided` the verdict on each, which the code keeps as the settlement
or in the rewritten message; `home` is the state of the worker dispatch, with
`starting` for `starting` and `start_unknown` and `replaced` for a failed
dispatch whose task has moved on; `mail` and `mailAcked` are the `to_worker` items.

* `Enqueue` and `TakePlace` are `enqueueFederationRelay`: a new item, or at the
  quota the place of the oldest pending heartbeat.
* `Pull`, `ImportItem`, `FinishPage`, `AnswerAck`, `AnswerMail` are the segments of
  `syncFederatedDispatchPages`; `sync` is its activation record.  `ImportItem` is
  the transaction `importFederatedRelayItem` with the settlement in it.
* `Handle` is the handler of `federationAck` behind its receipt, with
  `acknowledgeFederationRelay`; `ImportMail` one item of
  `importFederatedControlMessage`, whose message and cursor are two statements.
* `CallFails` loses a call or its answer.  What was called may still reach the
  worker server, any number of times and in any order: `acks` and `mails` are
  all the calls ever made, and `LoseAnswer` and `ImportMail` handle one of them.
* `TearAck`, `TearMail`, `CrashHome`, `CrashWorker` are crashes; `TearMail` falls before, between
  or after the two statements of an item, and before the receipt of the call.
* `HomeReady`, `HomeStops`, `HomeLearnsStop`, `Retry` and `RemoteStop` stand for
  the ledger.

A page is imported without an await, so no other step of home falls between
two of its items.  A rejected report keeps its message type
(`convertLifecycleMessageToRejection`), so importing it again is accepted.

Not modelled: protocols before 3; the byte quota and the 64 KiB limit of an item; the payload
of a heartbeat that is refreshed in place; an identical report queued again
(it changes nothing); `remote_questions`; a peer whose fingerprint changed;
`orchestration.reset` between an import and its acknowledgment; the pruning of the
worker server's receipts; the unknown outcome of a stop; the acknowledgment
checkpoint kept in memory, which never exceeds the durable one.

### 2.4 MutationReceipts and OnceOnly

`row` is `mutation_receipts`, `inFlight` the map of running handlers in
`OrchestrationMutationExecutor`, `call` the calls under way: each waits
for a handler, its own or the one it has joined.  `effects`, `taken` and
`answers` are no state of the code: they number the effects of handlers, and
record what each request did and what its callers were told.

* `Begin`, `BeginStart`, `Resume`, `Join` and `Replay` are what `run` does with a
  call that arrives, by its receipt and the running handler: `Begin` is
  `beginMutationReceipt` with the pruning of `ensureMutationReceiptCapacity`.
* `TakeEffect` is the handler's transaction, `Accept` that of a start, which leaves
  receipt and effect together (`createStartingWorkerDispatch`,
  `createRemoteDispatchAttachment`); `RecordEarly` is `recordReceipt`.
* `Complete` is `completeMutationReceipt`, `Fail` and `FailUnknown` the two ways to
  throw, with or without `discardPendingMutationReceipt`.
* `Crash` forgets the calls and the map.

`Kind` says what the code does with a method: `plain`, `start` (accepted late),
`release` (resumed after a restart), `ask` (completed before it waits).

Not modelled: calls that only read; how a request is fingerprinted and its payload
hashed (`input` stands for both); the age of a receipt; a joiner whose
handler's client disconnected.

### 2.5 MailboxPointer

`flight` is `flightsByPtyId`, and `act` what the callbacks of each flight hold: its
phase is the callback that is due (`writing` the answer of the write, `staged` the
timer, `probing` the answer of the probe, `entering` the answer of the Enter).  A flight
that is no longer in `flight` was retired by its terminal's exit, and its callbacks
may still come.  `mark` is `watermarkByMailbox`, `parked` is
`parkedDeliveriesByPtyId`, `redelivery` is `parkedTypesByMailbox`, `probing` is
`probeDeferredPtyIds` with the mailbox its callback will deliver, `repoint` the timers of
`MailPointerRepointScheduler`.  `todo` are the microtasks and recursive calls a handler leaves
behind: nothing else happens while there are any (`Quiet`).  `typed` and `told`
are no state of the code: the pointers in the prompt of a pane, and the messages for
whose pointers Enter was pressed in its process, so that one can say what Enter submits.

* `Deliver` is `OrchestrationMailboxPointerDelivery.deliver` with `stagePointer`;
  `Drive` is what calls it, by the pane or through `deliverForHandle`.
* `WriteDone` is `finishPointerWrite`; `EnterTimer`, `Submit` and `EnterDone` are the three
  segments of `submitOrchestrationMailboxPointer`, `Finalize` its end; `Settle`,
  `EndFlight` and `Redrive` are `settle`, `settleFlight` and `redrive`.
* `ProbeAnswers` is the callback of `deferForAbsenceProbe`, `RepointFires` the repoint timer.
* `GoesIdle` and `GoesBusy` are titles (`applyTrackedPtyTitle`); `Exit` is
  `onPtyExit` with `retirePty`; `Die`, before it, is the process itself.  `Respawn` is a
  restored terminal under the same id.  `Restart` is the runtime's, with
  `scheduleRestoredMessageRepoints`.
* `Send` is `insertMessage` with `notifyMessageArrived`; `Check`, `Wait`, `WaitEnds` and
  `Bind` are what readers do, as far as pointers depend on it.

A write answers in a later segment always: a controller that answers at once gives
one of the orders there are.

Not modelled: a pane whose terminal gets a new id; the mailboxes of dispatches, to which no pointer
is typed; more than one waiting check of a mailbox; mail addressed to a terminal, which is
routed into the mailbox first; the macrotask between a probe's answer and the
delivery it allows; the graph's synchronization with the renderer, which delivers
like a title does; abnormal ends of SSH terminals.

### 2.6 WorkerTerminals

A row of `worker_terminal_resources` goes by the dispatch that originated it: `owner`,
`prior`, `ownership`, `release` and `reason` are its columns, `at` and `born` the pane and
the process incarnation, which a transfer does not change.  `state` is the state of the
worker of each dispatch (`active` from the moment its terminal is attached), `archived`
the rows of `worker_terminal_archives`.  A terminal is a pane; `now` numbers the process that ran in it
last, `alive` says whether it still does, and `view` what the runtime knows: connected,
disconnected (`pty.connected` is false) or missing (no record).  `call` is `activeReleaseByRuntime`
with the place each completion has reached, `probe` the `worker-release` that lists
sessions, `pass` the running reconciliation with the backlog it has read.

* `StartFresh` and `StartOn` are the two ways `prepareStartingWorkerAuthority` attaches a
  terminal, the second with `findTransferableWorkerTerminalResource` and either a transfer
  or a row of an external terminal.  A terminal whose release is under way is refused.
* `RequestRelease` is `requestWorkerTerminalRelease` when it answers `requested`, with the start of the completion
  or the joining of the one at work; `AskLiveness` and `AnswerLiveness` are the two halves of
  what happens when it answers `retained`, with `settleDeadWorkerTerminalRelease`.
* `Retain` is `retainWorkerTerminalResource`, `UserTypes` `markWorkerTerminalUserOwned`.
* `Look`, `Capture` and `Close` are the segments of `completeWorkerTerminalReleaseOnce`: up to the
  answer of `showTerminal`, of the output's capture, of `closeTerminal`.  `CommitAndClose` is
  the transaction, the second proof of the process and the call of `closeTerminal`.
* `Reconcile` and `NextOfPass` are the passes; a trigger while one runs asks for another.
* `Spawn`, `Exit`, `Drop`, `Find` and `Restart` are the terminals, their provider, and the runtime.

`closeTerminal` may end the process or not, and answer with success, with an endpoint out of reach,
or with another error, in every combination; `showTerminal` may fail for a terminal that is there.

Not modelled: handles that are minted anew for a terminal (so a worker's handle is always its row's)
and the scope of the host, which counts as part of the process; rows the
migration made for older workers; `worker-release` of a federated worker, which changes nothing;
`orchestration.reset`; the content of an archive; the 30 seconds for which the renderer
does not report the user's keys again; a dispatch without a supervised worker, which has no row; a start that
fails after its terminal is attached, which is `Settle` to `failed`.

### 2.7 Faulty operators

An operator `FaultyX` is defined just before `X` and is `X` with a mistake one
could make in the code: a missing revocation, a fence left out, a status
forgotten.  No action uses it.  `PROJECT.json` ("mutants") pairs each property with the one
that must break it: the model with `X` replaced by `FaultyX` violates the
property under the same configuration.  So no property holds merely by the shape of the
model.

## 3. The runs

`tlc -workers 2 -config <cfg> <module>` repeats a run.  Deadlock checking is off in
all of them, because the bounds end every behaviour and an idle runtime may stop
(in `receipts`, pending receipts of dead handlers may fill the table).

| run | instance | states | shows |
|---|---|---|---|
| `every_call` | 1 task, 1 terminal, 1 gate, 2 dispatches; every family but `reuse` and `ask` | 787 k | an ended dispatch stays ended, without capability; a settled worker holds nothing; a terminal has one dispatch |
| `dependencies` | 3 tasks with every dependency graph, 2 dispatches; no worker_exit, update, gate, inject, torn, relayed | 138 k | the ledger is a `TaskBoard`, dependencies first; one active dispatch per task, `dispatched` means held, an unsettled worker holds its task; completion promotes at once, retry is possible, questions close |
| `circuit`, `late_stop`, `stop_exit` | small | | counterexamples, section 5 |
| `one_run` | 1 Run, 2 panes, 2 messages, batches of 1, 4 deliveries, 2 generations; no peek, unsolicited | 95 k | the mailbox is a `LeasedMailbox`, so nothing is lost; acknowledged once, no lost wakeup, read in the end |
| `two_runs` | 2 Runs, 1 pane with 2 handles, 2 messages, batches of 2, 3 generations | 537 k | one Run per pane, one lease per Run, of its present consumer |
| `relay` | quota, pages and items of 2, 2 pages a synchronization, a third message id, 2 mails, 1 crash; heartbeats and a failure report; late start, stop, retry | 383 k | both directions implement `RelayChannel`; both servers settle alike; told verdicts are home's; all items arrive |
| `relay_ack` | small | | counterexample, section 5 |
| `receipts` | 2 calls, 4 requests, one of each kind, 2 inputs, 2 receipts, 2 effects, 1 crash; prune, unknown | 121 k | requests implement `OnceOnly`; no effect is lost; every call ends |
| `pointer` | 1 Run, 2 panes, 2 messages of one type, batches of 1, 2 flights, 1 exit or restart, 1 move; cursor | 498 k | Enter hits its text and is pressed once for a message, nothing parked waits for nothing, mail is announced in the end |
| `terminals` | 2 dispatches, 2 terminals (the second for a second release only), 2 processes, 1 fault | 193 k | only a release still wanted closes, after the output is saved, on the right process and with nobody at work in it; what is released unclosed is dead; every release ends |

Why the bounds are enough.  A ledger hazard needs an attempt, something late about it, and
its replacement: two dispatches; the circuit breaker counts to three, so
`circuit` has three.  Three tasks give a child with two dependencies and a
chain of two.  In the mailbox a takeover needs two panes or two handles and a
second generation; batches of one make two messages two deliveries; four
deliveries allow both to be leased again after a takeover.  In the relay a page of two that is full
makes a second page; a quota of two is reached by a heartbeat and a report; a third id lets
a report take a heartbeat's place; any call can be repeated after
a crash, because calls made stay deliverable.  Two calls of one request are the
first and its repeat, two receipts make room a matter of pruning, and two inputs make
a repeat that asks for something else.  (Three calls with one input were checked once for
safety: 47 k states.)  A second pointer of the same
pane, a second pane to move to and two flights (one retired, one new) are all a late
pointer can meet, and a batch of one makes the second message one beyond the
batch.  (Two Runs that take turns in one pane, with two moves, were checked once for safety: 855 k states; two
types of mail in one pane, with the liveness as well: 355 k.)  In `WorkerTerminals` two dispatches
are the worker and the one that reuses its terminal or is next in the backlog, a second process the one that
replaces the first; a single drop, restart or failed call can fall on every await.  (The
inductive invariant was also checked with three dispatches.)  The proofs of section 4 remove
the bounds for the invariants they cover.

What the configurations leave out, and why:

* `SettledReleased`, `InactiveRevoked`, `NoResurrection` need
  no assumption.  `TerminalExclusive` needs that `worker-start --terminal` is not
  given a busy terminal (`reuse`): with it, it fails in two steps, see section 5.
* `OneActivePerTask` does not hold with `update` and `gate` (a client may make a
  dispatched task ready), `inject` (a late prompt failure does so) or `torn`.
* `QuestionsClosed` does not hold with `worker_exit` (an exit does not close the question)
  or `relayed` (a question that arrives late is recorded as pending).  It says nothing of dispatches
  without a worker, whose questions an exit leaves pending as well.
* `BoardSpec` does not hold with `update`, `gate`, `inject`, `torn` or `worker_exit`: after an exit while a worker
  starts or is stopped, the handler that comes back changes the task of an attempt that is over.  No more do
  `UnsettledHolds`, `DependenciesFirst`, `EndedIsRetryable`, `CompletedIsFinal` and `SupersededStopKeepsTask` hold with
  `worker_exit`: the agent exits during a start, the task is dispatched again and completed, and then `StartFailed`
  marks it failed, in eight steps.  The exit of an agent without a worker disturbs none of them, and is
  in the run.  `CompletedIsFinal`, a part of `BoardSpec`, fails with `gate` (a gate on a completed task) and `update`.
* `PromotionAtomic` does not hold with `update` and `torn`: the transaction that a
  comment at `db.ts:4601` speaks of is there for reports, not for task-update.
* `WaiterHasNoMail` does not hold when a peek, or a second check of the same
  pane, routes mail while a waiter sleeps: `CheckBegin` wakes nobody.
* `LeaseIsUnread`, which no run checks, does not hold with `reply`, which marks a message read for anybody, or
  with suppressed heartbeats.
* `unsolicited`: somebody replies to mail that was shown to nobody, by an id he knows from elsewhere, and
  the mail is read (`orchestration.ts:1279`).  `MailboxSpec` and `ReadWasSeen` do not hold with it; what
  concerns leases and bindings does.  No run has it.
* `quota_race`: a report that takes the place of a heartbeat home has pulled or
  imported already is acknowledged in its stead.  `ToHomeSpec` and
  `ItemsArrive` do not hold with it: `enqueueFederationRelay` knows only what
  is acknowledged, not what was pulled.  It takes 256 pending items.
* `early_import`: an import while home has not yet recorded that the worker runs is
  rejected, and the report is settled when it is imported again.  `early_retry`:
  the failed task is retried before the failure's acknowledgment is in, so the
  failure is rejected the second time.  `ToldIsDecided` holds with neither.
  `SettledTogether` holds with all three.
* `prune_running`: a completed receipt is pruned while its handler still runs, as an
  `ask` may for hours; it takes 10,000 receipts or 30 days.  `late_failure`: a
  handler throws after its effect, and its receipt is discarded although the effect
  stays.  With either, `OnceSpec` and `OutcomeIsKept` do not hold.
  `double_start`: two equal starts pass the first look before
  either leaves a receipt; the second throws, and takes the first's entry out of
  `inFlight`.  `OnceSpec` holds with it, `OutcomeIsKept` does not.
* `overtake`: the Run moves while a write or a probe is out; the pointer is typed in the
  old pane, announces its mail there, and again in the new one.  `late_answer`: an answer about a
  terminal that has exited counts as if it had not: the probe of a retired flight that finds the
  terminal absent takes back mail a later flight announces, and an Enter
  answered after exit and return clears the watermark of the flight that follows.
  `ToldOnce` holds with neither.  `late_mail`: mail reaches the mailbox out of sequence.  `reject`: a live terminal refuses a write, which is tried again only when its
  agent next comes to rest.  `idle_call`: agents call while their title says they rest.
  `MailIsPointed` holds with none of the five.  `PointerInv` and
  `EnterHitsItsText` hold with all.
* In `terminals`, `InTurn` names the dispatch that starts first, and `Aside` keeps the second terminal for
  a second release at the same time: once it is there, workers succeed in terminals of their own, the
  user does not type, and processes end by a release only.  A fair step that `Aside` blocks for ever leaves
  its behaviour out.  With one terminal nothing is left out.

### Fairness

`one_run` checks `MailIsRead` under `FairSpec`: the coordinator's
agent checks again and again (weak fairness of `CheckBegin`), its check ends in the
end, if only by its timeout (weak fairness of `CheckEnds`), and if it can be
handed a Delivery, or can acknowledge one it was handed, infinitely often, then it
does so some time (strong fairness of `Handed` and `Acknowledge`: not every response is
lost and not every check is overtaken).  The skill guide tells the agent to do
just that (`skill-guides/orchestration.md`, "Process every message before
acknowledging").

`relay` checks `ItemsArrive` under weak fairness of `Continues`, the next step of a
synchronization: the runtime's timer starts one each second from the moment the
database is opened, what is between two calls runs without an await, and a call
ends by its timeout of 15 s.  And under strong fairness of `AnswerAck`: a call that is
made again and again is answered in the end.  `Eligible` is the code's own
choice of dispatches to synchronize.

`receipts` checks `CallsEnd` and `OutcomeIsKept` under weak fairness of each handler's
own steps, which end or throw.  No client has to repeat anything.

`pointer` checks `MailIsPointed` under weak fairness of the deliveries a handler has left
(microtasks), and strong fairness of `Due`: a timer or an answer that is due again and
again comes some time, whatever else goes on between.  The rest is about the coordinator that
is to be told: it comes to rest again and again (`Rests`), as an agent that works does, and a
probe of its terminal is answered some time while it rests (`ProbedAtRest`);
probes take milliseconds.  The promise itself is only for a Run that in the end stays bound to a pane
that lives on, and does not sit on an outstanding Delivery for ever.

`terminals` checks `ReleaseEnds` under weak fairness of what is awaited: the answers to a
completion (`Look`, `Capture`, `Close`), to a question for live sessions, and of a pass that goes on to its next
release.  `showTerminal` and `listProcesses` have timeouts of their own, and a promise
that settles runs what waits for it.  That reconciliation is triggered again and again is no
fairness of the code but stands in the property: it is triggered by discoveries of terminals, so a release that
found its endpoint out of reach waits for the next reconnect.

Nothing else is fair: crashes, takeovers, sends, lost calls and repeats may happen at any
time, up to the bounds, or never.

## 4. The proofs

`tlapm` on `DispatchLedgerProofs.tla`, `TaskBoardRefined.tla`, `RunMailboxProofs.tla`,
`LeasedMailboxRefined.tla`, `FederationRelayProofs.tla`, `MutationReceiptsProofs.tla`,
`MailboxPointerProofs.tla` and `WorkerTerminalsProofs.tla` checks them.
They hold for every set of tasks, dispatches, terminals, gates, Runs, panes, handles, types, calls and requests,
every batch limit, quota and page size, every bound, and every choice of `Ops` the theorem does not
restrict.  The assumptions are `DispatchLedgerAssumption`,
`RunMailboxAssumption`, `FederationRelayAssumption`, `ReceiptsAssumption`,
`MailboxPointerAssumption` and `WorkerTerminalsAssumption`: the bounds are
natural numbers, the null values are no values, and no two Runs start in one pane.

Ledger:

* `TypeCorrect`: every column stays in its range.
* `EndedIsRevoked`, `SettledIsReleased`, `EndedStaysEnded`,
  `RevokedStaysRevoked`.  The invariant is `ReleaseInv`.  `InactiveRevoked`
  alone is not inductive: `StartFailed` asks only for the worker's state, and
  `SettleStop` does not revoke, so one needs that a worker in doubt has lost its
  capability already, that a starting one has never lost it while its row is
  active, and that rows not yet inserted are blank.
* `TerminalIsExclusive`, if `reuse` does not occur: every step either keeps each
  active row's terminal, or attaches one terminal no active row has.
* `OneAttemptAtATime` and `ActiveIsLatest`, if `update`, `gate`, `inject` and `torn` do not
  occur (`Disciplined`).  The invariant is `HoldInv`: an active dispatch is its task's
  latest and its task is in no status from which a start is accepted.
* `NoTaskIsStranded`, if `Disciplined`, and so with exits.  `DispatchedIsHeld` is not
  inductive: the answers of a worker server (`ReconcileStop`, `ResumeForRelay`) put a task
  back to `dispatched` without a look at the row.  `HeldInv` adds that a federated
  worker that is not settled has its dispatch, because no terminal of this
  runtime belongs to it, and that a worker in doubt has its task off `dispatched`.
* `UnsettledHoldsTask`, `HolderKeepsTask`, `StartsInOrder`, `EndedCanBeRetried` and `CompletedStaysCompleted`,
  if besides no agent of a local worker exits (`Undisturbed`: `worker_exit` does not
  occur; agents without a worker may exit, and a federated worker has no terminal here).  Their one
  invariant is `SuperInv`: a worker that is not settled has its dispatch, with its task blocked if it is
  in doubt and dispatched otherwise, an active dispatch has its task dispatched or blocked, and
  the dependencies of a task that was ever ready are completed.  With `HoldInv`, that is `UnsettledHolds`: every handler
  that comes back from an await writes to its own task's latest row.  So the stop of a
  superseded worker, the finding `late_stop`, takes the exit of a local worker's agent, as `stop_exit` does.
* `ChildrenArePromoted`, if `torn` does not occur.
* `NoQuestionIsOrphaned`, if `Undisturbed` and `relayed` does not occur.  `AskInv`: a
  worker being stopped has its question closed already, and cannot ask
  again, because it has no capability.
* `LedgerIsABoard`, if `Undisturbed`: the ledger implements `TaskBoard`; an exit is
  the board's `Fail`.  There is one lemma for each operation of the board (`BoardFail`, `BoardDoubt` and so on), which says what a step must
  change to be that operation, and a case for each action, which says what
  it changes.  The answers that come late are the difficulty: `StartFailed`, `SettleStop` and
  the answers of a worker server write to a task without a look at the row.  By `SuperInv` that
  task is held by their own dispatch.

Mailbox:

* `TypeCorrect`.
* `PaneHasOneRun`: from the shape of `Others`, which goes by pane.
* `WaiterIsTheConsumer`: with `CheckInv`, by which a check of the present
  generation is made from the bound pane.
* `LeasesAreCurrent`, `MailIsAcknowledgedOnce`, `MailboxIsSound`.  The invariant
  is `LeaseInv`: a Delivery holds mail of its Run, acknowledged mail is read, and an
  acknowledged Delivery shares no mail with one that is outstanding or
  acknowledged.  The proof goes through `Sound(rd, st)`, what an acknowledgment
  leaves in the tables, so that the check that acknowledges and leases in one
  segment is two lemmas, `AckSound` and `ReadStep`.
* `NoMailIsLost`, if `unsolicited` does not occur: with `HandedInv`, by which a Delivery in somebody's hands has been
  seen entirely, and `MessageInv`.
* `NoWakeupIsLost`, if each pane is named by one handle (`OneHandlePerPane`): mail
  comes to a Run by `Send`, by the routing that binding does, and by the routing of a check
  (`Brings`).  The first two wake the waiter or cancel it; the third would be the
  waiter's own pane, whose only check is the one that waits.
* `LeasedIsUnread`, if nothing but acknowledgments reads a Run's mail (`OnlyAcksRead`:
  no replies, and not both heartbeats and reports).  `LeasesUnread(rd, st)` states it of what an
  acknowledgment leaves, as `Sound` does; `LeaseInv` says that two Deliveries of
  which one is acknowledged share no mail.
* `RunMailboxIsLeased`, if `unsolicited` does not occur: each Run's mailbox implements `LeasedMailbox`.  `BoxInv` says
  that what is leased or shown is in the mailbox, which a reply to another Run or a change of binding must
  not break.  To its own Run a check is what it acknowledges, leases and shows in one step; to every
  other Run it is an `Arrive`, perhaps of nothing.  That a lease is of the oldest unread batch is
  `BatchOfSome`, from the well-foundedness of the sequence numbers.

Relay, if `quota_race`, `early_import` and `early_retry` do not occur (but for `TypeCorrect`):

* `TypeCorrect`, `RelayInvariant`, `BothSettle` and `ToldTruly`.  The
  inductive invariant is `IInv == TypeOK /\ RelayInv /\ SettledTogether`.
  `SettledTogether` needs that a verdict a call carries, however late it arrives,
  is home's own (`CallInv`), that the page in hand is still what the
  queue holds (`PageInv`), and that importing a report again decides it as the
  first time (`VerdictInv`).
* `ToHomeRefined` and `ToWorkerRefined`: each direction implements
  `RelayChannel`.  An import of a new item is `Deliver`, one of an old item a
  stutter; `Supersede` is `TakePlace` on what home has not seen.  `CopyInv` and
  `MailInv` say that what has arrived is a prefix of what was sent.

Receipts, if `prune_running`, `late_failure` and `double_start` do not occur (but for
`TypeCorrect`):

* `TypeCorrect`; `ReceiptInvariant`, which is inductive with it; and `OnceRefined`, the
  refinement of `OnceOnly`: `TakeEffect` and `Accept` take the effect, `Complete`
  and `RecordEarly` keep the result, pruning forgets it.

Pointers, for every choice of `Ops` but for `ToldOnlyOnce`:

* `TypeCorrect`: with it, that what a flight announces is never empty, on which `Newest` rests.
* `NothingWaitsForNothing` and `EnterIsNotMisplaced`.  `PointerInv` is inductive
  together with `FlightInv` and `PromptInv`: a flight in the map is one of its own terminal, which is
  writable, and has a callback due; and as long as it may press Enter, its text is in the
  prompt of a process that lives.  An exit removes the flight before the terminal can come
  back, which is why `Submit` looks at `isCurrentFlight` before it looks at the
  pane: without it (`FaultyCurrent`) a successor's process gets the Enter.
* `ToldOnlyOnce`, if `overtake` and `late_answer` do not occur (`OnTime`).  `ToldInv`: what a
  process was told counts as delivered or read, and only the flight whose Enter was pressed
  carries it.  Taking back what a flight announced must then not touch what another told:
  a Run has one flight at a time (`LoneInv`), because a flight is begun in the pane the Run
  has (`HomeInv`), then its watermark holds the mailbox, and a retired flight cannot
  release the watermark of its successor (`LateInv`).  The two excluded families break
  `HomeInv` and `LateInv`.

Worker terminals, without restriction:

* `TypeCorrect`, `ReleasingCommitted`, `ClosingSparesTheWorkers`, `OneOwnerEach`,
  `ClosesAreEarned`, `DeadAreSettled` and `ReleasedStays`, all from one invariant, `IInv`.  That a close spares
  workers is far from inductive: it needs that a row whose terminal is being closed is still `releasing` and
  no other row claims its process (`ClosingFits`), that the owner of a row with a release under way
  has succeeded or failed (`CommittedFits`), and that a worker at work owns a row of its
  process (`ActiveHasRow`, `RowsFit`), so that `Reusable` and `Conflict`, which look at rows only,
  see it.  One owned row for each process (`OneOwned`) rests on the order of processes: a terminal that is
  created has had none, so no row is of its first (`WorkersFit`, `TerminalsFit`).  A retry or a reconciliation
  that finds a `releasing` row after a restart relies on `CommittedFits` for the archive, and
  on `CallsFit` and `PassFits` for what it read before an await: whatever dispatch it acts for was in that
  very process.

Proved and not run are the invariants from which the properties of runs follow (`ReleaseInv`, `HoldInv`,
`MailboxInv`, `ReceiptInv`, `RelayInv`), and properties that another one implies or that a run
with a wider meaning has replaced: `RevokedForever`, `ActiveHoldsTask`,
`CompletedIsFinal`, `DependenciesFirst`, `ReadWasSeen`, `WaiterIsConsumer`, `LeaseIsUnread`, `ReleasingIsCommitted` and `ReleasedIsFinal`.

So every invariant and action property the passing runs check is proved, most
under named assumptions, which are the families the runs leave out too.  Only model-checked is
liveness (`MailIsRead`, `ItemsArrive`, `CallsEnd`, `OutcomeIsKept`, `MailIsPointed`, `ReleaseEnds`): TLAPS
does not prove ENABLED and fairness.

## 5. Findings

The runs that expect a violation show where the code and what the repository says
of it disagree.

* `circuit`: the guide says three consecutive failures of a task break the
  circuit.  A supervised attempt starts its count at zero.
* `late_stop`: the stop of a supervised worker that has been replaced blocks the task of its
  replacement; for a dispatch without a worker, and for abandon, tests demand
  the contrary.
* `stop_exit`: the exit of the agent that a stop kills makes the task ready, so
  that the retry the guide prescribes is refused.
* `relay_ack`: the answer to an acknowledgment that carries a settlement is lost.
  The next synchronization pulls an empty page and repeats the request id without the
  settlement, which the worker server's receipts refuse for good: home never
  learns of the acknowledgment, and hands over no more mail.  A test expects
  such a retry to succeed, and tries it with a status only.  Nothing needs
  to be lost if the sixth full page of a synchronization ends with a report, because home then
  records one less than was acknowledged.

Disagreements met while modelling that no run shows follow.

Of the ledger: `createDispatchContext` refuses a terminal that is busy and says why (`db.ts:7122`);
`worker-start --terminal` takes it (`db.ts:4828`), and `TerminalExclusive` fails in two steps with `reuse`.
The comment above `failActiveDispatchOnExit` says the task goes back to `pending`; it goes to `ready`.

Of the terminals:

* A comment in the completion, one above the reconciliation, and a test say that a recovery which
  does not find the terminal yet defers.  The check of the lease comes first, and a
  terminal that is not discovered has no authority, so the release is given up as
  `identity_unproven`.  `ReleaseEnds` counts that as an end: it says that no release is left open, not that
  every release closes its terminal.  The test supplies an authority for the missing terminal.  For the same reason the
  terminal of a worker whose process has exited is never released with `closed_exited_terminal`, as
  a test expects.
* Typing takes a terminal from orchestration durably, says a comment; not while
  its release is unknown or committed, and a repeated release then closes it.
* The guide says that output is preserved and that released workers remain readable.
  Repeating a release of unknown outcome discards the archive first, and if the terminal was
  in fact closed there is nothing left to save.
* The completion says that only an exact observation may settle a release, and
  does not look at `ptyKilled` in the answer of `closeTerminal`.
* A `worker-release` that finds the completion of an earlier owner's
  release at work joins it, and is answered with that dispatch's receipt.  The advice to
  repeat `worker-release` with the same `--retry-request` replays the stored receipt once it is
  complete (`orchestration-mutation-executor.ts:70`), so it cannot tell more than the first.

Of relay and receipts: items queued on the worker
server behind a report that settles the dispatch are pulled only by a synchronization
already under way: a settled dispatch is not `Eligible`, which is the second case of `ItemsArrive`.
A crash between an effect and its receipt leaves the receipt pending, and
every repeat is told `operation_unknown`.

Of the pointers: a comment at `orca-runtime.ts:10758` says that push delivery is gated on live idle, and
`settle` delivers what was parked without asking whether the agent rests.  A comment at
`db.ts:3729` says that push-on-idle delivers each row at most once; a Run that moves while the
text is being written has its mail typed in both panes.  `retirePty` cancels the Enter of a
flight, but not the probe before it: if that probe then proves the terminal absent,
`submitOrchestrationMailboxPointer` takes back mail without asking whether the flight is current.
`clearWatermark` compares terminal and sequence, not the flight, so an Enter answered after
exit and return clears the successor's watermark, and a pointer the successor withdraws is not
redelivered.  One probe serves all deliveries to a terminal that wait for it, and
delivers the first one's mailbox, whoever owns the pane by then.  An inactive watermark
holds back mail of a lower sequence that is routed late into the same pane.  Mail beyond the
batch limit, and mail whose write was refused, is announced only when the agent next comes to rest.
The text of a pointer that was withdrawn, or whose Enter was refused, stays in the prompt and is
submitted with the next.  A pointer that stays in the prompt of a busy agent counts as delivered, also when the terminal then exits.

## 6. Plan

Done: the ledger, the Run mailboxes, the federation relay, the mutation
receipts, the pointers and the worker terminals, each with its proofs, and the abstract `TaskBoard`,
`LeasedMailbox`, `RelayChannel` and `OnceOnly` they implement.  Next, in this order:

1. The mailbox of a dispatch in `RunMailbox`, with the waiting check of a
   worker, and the composition of ledger and mailbox in place of `Assign`.
2. `DispatchLedger` with `WorkerTerminals` in place of `Settle`, so that dispatches
   without a supervised worker are seen as well.
3. Outside the core: the PTY credit ledger, the SSH multiplexer, the daemon's sessions.

Theorems to come: the mailbox of a dispatch as a `LeasedMailbox`, and what the composition of ledger and
mailbox promises.
