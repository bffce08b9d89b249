-------------------------- MODULE MutationReceipts --------------------------
(***************************************************************************)
(* The durable receipts that make a repeated orchestration mutation safe   *)
(* (OrchestrationMutationExecutor and the mutation_receipts table).        *)
(*                                                                         *)
(* A client sends its mutation with a request id and repeats it with the   *)
(* same id when it has lost the answer.  The first call leaves a pending   *)
(* receipt and runs the handler; the receipt is completed with its result. *)
(* A repeated call joins the handler that is running, or is answered from  *)
(* the completed receipt; a pending one without a handler in this process  *)
(* has an unknown outcome.  A handler awaits, so other calls, and a crash  *)
(* of the server, come between its steps.                                  *)
(*                                                                         *)
(* A Faulty... operator is the definition below it with a mistake in it.   *)
(***************************************************************************)
EXTENDS Naturals, FiniteSets

CONSTANTS
  Call,         \* the calls made at the same time
  Request,      \* request ids, each with the fingerprint of its caller
  Input,        \* what a call asks for: its method and its parameters
  Kind,         \* the kind of method of each request
  Nil,
  Capacity,     \* MUTATION_RECEIPT_MAX_ROWS
  MaxEffects,   \* bound: effects taken
  MaxCrashes,   \* bound: crashes of the server
  Ops           \* the optional events that occur

\* A "start" is accepted together with its effect (workerStart and
\* federationAttachStart), a "release" is resumed (workerRelease), and an "ask"
\* completes its receipt before it waits (ask, check with an acknowledgment).
Kinds == {"plain", "start", "release", "ask"}

Effect == Input \X Nat

ASSUME ReceiptsAssumption ==
  /\ Kind \in [Request -> Kinds]
  /\ Nil \notin Call \cup Input \cup Effect
  /\ Capacity \in Nat \ {0}
  /\ {MaxEffects, MaxCrashes} \subseteq Nat
  /\ Ops \subseteq { "prune",           \* completed receipts are pruned,
                     "prune_running",   \* those of handlers that still run, too
                     "unknown",         \* a handler fails with operation_unknown
                     "late_failure",    \* a handler fails after its effect
                     "double_start" }   \* two equal starts run at once

VARIABLES
  row,        \* mutation_receipts
  inFlight,   \* the executor's map of the handlers that run
  call,       \* the calls under way
  effects,    \* number of effects taken
  taken,      \* the effect each request has had, until its receipt is pruned
  answers,    \* the results returned to callers
  crashes     \* crashes of the server

vars == <<row, inFlight, call, effects, taken, answers, crashes>>

NoRow == [state |-> "none", input |-> Nil, result |-> 0]
Row == [state : {"none", "pending", "completed"}, input : Input \cup {Nil}, result : Nat]

\* A call waits for the handler of the call "on", which may be its own; the
\* result of its handler is the number of the effect it has taken.
NoWait == [on |-> Nil]
Wait == [on : Call, request : Request, input : Input, result : Nat]

TypeOK ==
  /\ row \in [Request -> Row]
  /\ inFlight \in [Request -> Call \cup {Nil}]
  /\ call \in [Call -> Wait \cup {NoWait}]
  /\ effects \in Nat
  /\ taken \in [Request -> Effect \cup {Nil}]
  /\ answers \in SUBSET (Request \X Effect)
  /\ crashes \in Nat

Init ==
  /\ row = [r \in Request |-> NoRow]
  /\ inFlight = [r \in Request |-> Nil]
  /\ call = [c \in Call |-> NoWait]
  /\ effects = 0 /\ taken = [r \in Request |-> Nil] /\ answers = {} /\ crashes = 0

-----------------------------------------------------------------------------
(***************************************************************************)
(* A call arrives: OrchestrationMutationExecutor.run up to its handler.  A *)
(* call that is refused (request_mismatch, operation_unknown and           *)
(* mutation_ledger_full) changes nothing.                                  *)
(***************************************************************************)
Waits(c) == call[c].on # Nil
Runs(c) == call[c].on = c
Running(r) == \E c \in Call : Runs(c) /\ call[c].request = r

Recorded == { r \in Request : row[r].state # "none" }
Completed == { r \in Request : row[r].state = "completed" }

\* The receipts that may be pruned, by their age or to make room; of which age
\* they are is not modelled.
Prunable ==
  IF "prune" \notin Ops THEN {}
  ELSE { r \in Completed : "prune_running" \in Ops \/ ~Running(r) }

\* ensureMutationReceiptCapacity, in the transaction that inserts a receipt.
MakesRoom(gone) == gone \subseteq Prunable /\ Cardinality(Recorded \ gone) < Capacity

FaultyInsert(gone, r, i) ==
  row' = [q \in Request |-> IF q = r THEN [state |-> "pending", input |-> i, result |-> Nil]
                            ELSE IF q \in gone THEN NoRow ELSE row[q]]

Insert(gone, r, i) ==
  row' = [q \in Request |-> IF q = r THEN [state |-> "pending", input |-> i, result |-> 0]
                            ELSE IF q \in gone THEN NoRow ELSE row[q]]

Forgotten(gone) == [q \in Request |-> IF q \in gone THEN Nil ELSE taken[q]]

Start(c, r, i) ==
  /\ call' = [call EXCEPT ![c] = [on |-> c, request |-> r, input |-> i, result |-> 0]]
  /\ inFlight' = [inFlight EXCEPT ![r] = c]

\* beginMutationReceipt finds no receipt and leaves a pending one.
Begin(c, r, i, gone) ==
  /\ ~Waits(c)
  /\ Kind[r] # "start"
  /\ row[r] = NoRow
  /\ MakesRoom(gone)
  /\ Insert(gone, r, i)
  /\ taken' = Forgotten(gone)
  /\ Start(c, r, i)
  /\ UNCHANGED <<effects, answers, crashes>>

\* A start only looks for a receipt: its handler leaves one later.
BeginStart(c, r, i) ==
  /\ ~Waits(c)
  /\ Kind[r] = "start"
  /\ row[r] = NoRow
  /\ "double_start" \in Ops \/ inFlight[r] = Nil
  /\ Start(c, r, i)
  /\ UNCHANGED <<row, effects, taken, answers, crashes>>

FaultyResumable(r) == Kind[r] \in {"release", "ask"}

\* A pending receipt whose handler died with the server is taken up again.
Resumable(r) == Kind[r] = "release"

Resume(c, r, i) ==
  /\ ~Waits(c)
  /\ row[r].state = "pending" /\ row[r].input = i
  /\ inFlight[r] = Nil
  /\ Resumable(r)
  /\ Start(c, r, i)
  /\ UNCHANGED <<row, effects, taken, answers, crashes>>

Join(c, r, i) ==
  /\ ~Waits(c)
  /\ row[r].state # "none" /\ row[r].input = i
  /\ inFlight[r] # Nil
  /\ call' = [call EXCEPT ![c] = [on |-> inFlight[r], request |-> r, input |-> i, result |-> 0]]
  /\ UNCHANGED <<row, inFlight, effects, taken, answers, crashes>>

Matches(r, i) == row[r].state = "completed" /\ row[r].input = i

Replay(c, r, i) ==
  /\ ~Waits(c)
  /\ Matches(r, i)
  /\ inFlight[r] = Nil
  /\ answers' = answers \cup {<<r, <<i, row[r].result>>>>}
  /\ UNCHANGED <<row, inFlight, call, effects, taken, crashes>>

-----------------------------------------------------------------------------
(***************************************************************************)
(* The handler, and the end of its call.                                   *)
(***************************************************************************)
\* Its effect, one transaction.  A release that is done stays done.
TakeEffect(c) ==
  LET r == call[c].request IN
  /\ Runs(c) /\ call[c].result = 0
  /\ Kind[r] # "start"
  /\ IF Kind[r] = "release" /\ taken[r] # Nil
     THEN /\ call' = [call EXCEPT ![c].result = taken[r][2]]
          /\ UNCHANGED <<effects, taken>>
     ELSE /\ effects < MaxEffects
          /\ effects' = effects + 1
          /\ taken' = [taken EXCEPT ![r] = <<call[c].input, effects + 1>>]
          /\ call' = [call EXCEPT ![c].result = effects + 1]
  /\ UNCHANGED <<row, inFlight, answers, crashes>>

\* createStartingWorkerDispatch and createRemoteDispatchAttachment: a start is
\* accepted with its receipt, for a task that is ready.
Accept(c, gone) ==
  LET r == call[c].request IN
  /\ Runs(c) /\ call[c].result = 0
  /\ Kind[r] = "start"
  /\ row[r] = NoRow /\ taken[r] = Nil
  /\ effects < MaxEffects
  /\ MakesRoom(gone)
  /\ Insert(gone, r, call[c].input)
  /\ effects' = effects + 1
  /\ taken' = [Forgotten(gone) EXCEPT ![r] = <<call[c].input, effects + 1>>]
  /\ call' = [call EXCEPT ![c].result = effects + 1]
  /\ UNCHANGED <<inFlight, answers, crashes>>

Done(i, n) == [state |-> "completed", input |-> i, result |-> n]

\* recordReceipt.
RecordEarly(c) ==
  LET r == call[c].request IN
  /\ Runs(c) /\ call[c].result # 0
  /\ Kind[r] = "ask"
  /\ row[r].state = "pending" /\ row[r].input = call[c].input
  /\ row' = [row EXCEPT ![r] = Done(call[c].input, call[c].result)]
  /\ UNCHANGED <<inFlight, call, effects, taken, answers, crashes>>

FaultyJoined(c) == {c}

\* The calls that end with the handler of c.
Joined(c) == { d \in Call : call[d].on = c }

FaultyEnd(c) ==
  /\ call' = [d \in Call |-> IF d \in Joined(c) THEN NoWait ELSE call[d]]
  /\ UNCHANGED inFlight

End(c) ==
  /\ call' = [d \in Call |-> IF d \in Joined(c) THEN NoWait ELSE call[d]]
  /\ inFlight' = [inFlight EXCEPT ![call[c].request] = Nil]

\* completeMutationReceipt finds the receipt of c, completed early or not.
Completable(c) ==
  row[call[c].request].state # "none" /\ row[call[c].request].input = call[c].input

Complete(c) ==
  LET r == call[c].request IN
  /\ Runs(c) /\ call[c].result # 0
  /\ Completable(c)
  /\ row' = [row EXCEPT ![r] = Done(call[c].input, call[c].result)]
  /\ answers' = answers \cup { <<r, <<call[d].input, call[c].result>>>> : d \in Joined(c) }
  /\ End(c)
  /\ UNCHANGED <<effects, taken, crashes>>

\* discardPendingMutationReceipt spares a receipt that is complete.
Kept(r) == row[r].state = "completed"

Discard(r) == row' = IF Kept(r) THEN row ELSE [row EXCEPT ![r] = NoRow]

\* The handler throws: before its effect, at the validation of a start, or an
\* ask when its question closes.
Fail(c) ==
  LET r == call[c].request IN
  /\ Runs(c)
  /\ \/ call[c].result = 0 /\ (taken[r] = Nil \/ Kind[r] = "start")
     \/ row[r].state = "completed"
     \/ ~Completable(c)
     \/ "late_failure" \in Ops
  /\ Discard(r)
  /\ End(c)
  /\ UNCHANGED <<effects, taken, answers, crashes>>

\* The handler does not know its outcome, or a start finds that it was accepted.
FailUnknown(c) ==
  /\ Runs(c)
  /\ \/ "unknown" \in Ops
     \/ Kind[call[c].request] = "start" /\ call[c].result = 0 /\ row[call[c].request] # NoRow
  /\ End(c)
  /\ UNCHANGED <<row, effects, taken, answers, crashes>>

Crash ==
  /\ crashes < MaxCrashes
  /\ crashes' = crashes + 1
  /\ call' = [c \in Call |-> NoWait]
  /\ inFlight' = [r \in Request |-> Nil]
  /\ UNCHANGED <<row, effects, taken, answers>>

Arrive(c, r, i) ==
  \/ \E gone \in SUBSET Prunable : Begin(c, r, i, gone)
  \/ BeginStart(c, r, i) \/ Resume(c, r, i) \/ Join(c, r, i) \/ Replay(c, r, i)

Handle(c) ==
  \/ TakeEffect(c) \/ RecordEarly(c) \/ Complete(c) \/ Fail(c) \/ FailUnknown(c)
  \/ \E gone \in SUBSET Prunable : Accept(c, gone)

Next ==
  \/ \E c \in Call :
       \/ \E r \in Request, i \in Input : Arrive(c, r, i)
       \/ Handle(c)
  \/ Crash

Spec == Init /\ [][Next]_vars

\* A handler goes on until it returns or throws; no client has to repeat a call.
FairSpec == Spec /\ \A c \in Call : WF_vars(Handle(c))

-----------------------------------------------------------------------------
(***************************************************************************)
(* Properties.                                                             *)
(***************************************************************************)
\* The handlers that run and the executor's map of them agree.
InFlightInv ==
  /\ \A r \in Request : inFlight[r] # Nil =>
       Runs(inFlight[r]) /\ call[inFlight[r]].request = r
  /\ \A c \in Call : Runs(c) => inFlight[call[c].request] = c

\* A call that has joined another waits for a handler that runs, of the same
\* request with the same input.
JoinInv ==
  \A c \in Call : Waits(c) =>
    /\ Runs(call[c].on)
    /\ call[call[c].on].request = call[c].request
    /\ call[call[c].on].input = call[c].input

\* A handler has its own receipt from its first step, a start from the moment
\* it is accepted; and only a release may find its effect taken already.
HandlerInv ==
  \A c \in Call : Runs(c) =>
    LET r == call[c].request IN
    /\ call[c].result # 0 => taken[r] = <<call[c].input, call[c].result>>
    /\ IF Kind[r] = "start" /\ call[c].result = 0 THEN row[r] = NoRow
       ELSE row[r].state # "none" /\ row[r].input = call[c].input
    /\ call[c].result = 0 => row[r].state # "completed"
    /\ call[c].result = 0 /\ Kind[r] # "release" => taken[r] = Nil

\* No effect is left without a receipt of its input, and the result that a
\* completed receipt holds is that of the effect.
EffectInv ==
  \A r \in Request :
    /\ row[r].state = "none" => row[r] = NoRow
    /\ taken[r] # Nil => row[r].state # "none" /\ row[r].input = taken[r][1]
    /\ row[r].state = "completed" => taken[r] = <<row[r].input, row[r].result>>

\* The receipts, the executor's map of running handlers, the waiting calls and
\* the effects taken agree, whatever awaits, repeats, failures, prunings and
\* crashes come between the steps of OrchestrationMutationExecutor.run.
ReceiptInv == InFlightInv /\ JoinInv /\ HandlerInv /\ EffectInv

\* run() implements at-most-once requests: however calls interleave, a request
\* takes effect once until its result is pruned, every answer is the result of
\* that effect, and it is given to a call with the same input.
Once == INSTANCE OnceOnly WITH Nothing <- Nil, result <- taken, kept <- Completed
OnceSpec == Once!Spec

\* Every call of run() ends, one that has joined the handler of another too.
CallsEnd == \A c \in Call : Waits(c) ~> ~Waits(c)

\* An effect is not lost: its result is kept in the receipt for the repeats, or
\* the receipt stays pending without a handler, so that a repeat is told that
\* the outcome is unknown (or takes the release up again).
OutcomeIsKept ==
  \A r \in Request :
    taken[r] # Nil ~> \/ row[r].state = "completed"
                      \/ row[r].state = "pending" /\ inFlight[r] = Nil
=============================================================================
