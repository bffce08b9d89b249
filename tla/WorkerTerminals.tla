--------------------------- MODULE WorkerTerminals ---------------------------
(***************************************************************************)
(* The terminals of workers: who owns one, and how it is released when its *)
(* worker is done (worker_terminal_resources in db.ts,                     *)
(* orchestration-worker-release.ts and -release-completion.ts,             *)
(* worker-terminal-release-reconciliation.ts).                             *)
(*                                                                         *)
(* worker-release writes down the wish, and a completion carries it out:   *)
(* it looks at the terminal, saves the output, commits, closes, settles,   *)
(* with an await before each but the last.  Between these the user types,  *)
(* the coordinator retains or reuses the terminal, the process exits, the  *)
(* connection drops, the runtime restarts; a reconciliation takes up what  *)
(* is left.  A row is named by the dispatch that originated it.            *)
(*                                                                         *)
(* A Faulty... operator is the definition below it with a mistake in it.   *)
(***************************************************************************)
EXTENDS Naturals

CONSTANTS
  Dispatch, Terminal, NoDispatch, NoTerminal,
  MaxProcess,   \* bound: processes that run in a terminal, one after the other
  MaxFaults     \* bound: drops, restarts and failing calls

ASSUME WorkerTerminalsAssumption ==
  /\ NoDispatch \notin Dispatch /\ NoTerminal \notin Terminal
  /\ MaxProcess \in Nat \ {0} /\ MaxFaults \in Nat

VARIABLES
  state,      \* state of the worker of each dispatch
  at, born,   \* terminal and number of the process it was attached to
  owner,      \* owner_dispatch_id of each row
  prior,      \* prior_owner_dispatch_ids
  ownership, release, reason,
  archived,   \* dispatches with a row in worker_terminal_archives
  now,        \* the number of the last process of each terminal
  alive,      \* terminals whose last process runs
  view,       \* what the runtime knows of it
  call,       \* activeReleaseByRuntime: the completion at work on each row
  probe,      \* the row whose process a worker-release asks after
  pass,       \* activeReconciliationByRuntime
  faults      \* counter for the bound

workers == <<state, at, born>>
rows == <<owner, prior, ownership, release, reason>>
terminals == <<now, alive, view>>
memory == <<call, probe, pass>>
vars == <<workers, rows, archived, terminals, memory, faults>>

Settled == {"succeeded", "failed", "stopped", "abandoned"}  \* WORKER_SETTLED_STATES
Releasable == {"succeeded", "failed"}                     \* WORKER_RELEASABLE_STATES
Pending == {"requested", "releasing"}
Committed == Pending \cup {"unknown"}
Free == {"not_requested", "retained"}

Call == [phase : {"idle", "look", "capture", "close"},
         dispatch : Dispatch \cup {NoDispatch}, recovery : BOOLEAN]
Idle == [phase |-> "idle", dispatch |-> NoDispatch, recovery |-> FALSE]
Entry == [row : Dispatch, dispatch : Dispatch]
Pass == [on : BOOLEAN, rerun : BOOLEAN, queue : SUBSET Entry, row : Dispatch \cup {NoDispatch}]
NoPass == [on |-> FALSE, rerun |-> FALSE, queue |-> {}, row |-> NoDispatch]

TypeOK ==
  /\ state \in [Dispatch -> Settled \cup {"none", "active"}]
  /\ at \in [Dispatch -> Terminal \cup {NoTerminal}]
  /\ born \in [Dispatch -> 0 .. MaxProcess]
  /\ owner \in [Dispatch -> Dispatch \cup {NoDispatch}]
  /\ prior \in [Dispatch -> SUBSET Dispatch]
  /\ ownership \in [Dispatch -> {"none", "owned", "external", "user_owned", "released"}]
  /\ release \in [Dispatch -> {"none", "released"} \cup Free \cup Committed]
  /\ reason \in [Dispatch -> {"none", "external_terminal", "user_takeover",
                              "user_requested", "identity_unproven"}]
  /\ archived \in SUBSET Dispatch
  /\ now \in [Terminal -> 0 .. MaxProcess]
  /\ alive \in SUBSET Terminal
  /\ view \in [Terminal -> {"connected", "disconnected", "missing"}]
  /\ call \in [Dispatch -> Call]
  /\ probe \in [Dispatch -> Dispatch \cup {NoDispatch}]
  /\ pass \in Pass
  /\ faults \in Nat
  /\ \A o \in Dispatch : ownership[o] = "released" <=> release[o] = "released"

Init ==
  /\ state = [d \in Dispatch |-> "none"]
  /\ at = [d \in Dispatch |-> NoTerminal] /\ born = [d \in Dispatch |-> 0]
  /\ owner = [o \in Dispatch |-> NoDispatch] /\ prior = [o \in Dispatch |-> {}]
  /\ ownership = [o \in Dispatch |-> "none"] /\ release = [o \in Dispatch |-> "none"]
  /\ reason = [o \in Dispatch |-> "none"]
  /\ archived = {}
  /\ now = [t \in Terminal |-> 0] /\ alive = {}
  /\ view = [t \in Terminal |-> "missing"]
  /\ call = [o \in Dispatch |-> Idle]
  /\ probe = [d \in Dispatch |-> NoDispatch]
  /\ pass = NoPass
  /\ faults = 0

-----------------------------------------------------------------------------
(***************************************************************************)
(* Helpers.                                                                *)
(***************************************************************************)
Rows == { o \in Dispatch : owner[o] # NoDispatch }
Same(d, e) == at[d] = at[e] /\ born[d] = born[e]
Current(d) == at[d] \in Terminal /\ now[at[d]] = born[d]
Runs(d) == Current(d) /\ at[d] \in alive

\* Another row claims the process.
Conflict(o) == \E p \in Rows \ {o} : Same(o, p) /\ ownership[p] # "released"

\* workerTerminalLeaseIsCurrent: the authority of a terminal that is not
\* connected is null.
Lease(o, d) == view[at[o]] = "connected" /\ Current(d) /\ ~Conflict(o)

\* Forgets that a release may be half done.
FaultyBacklog == { [row |-> o, dispatch |-> owner[o]] : o \in { p \in Rows : release[p] = "requested" } }

\* What listWorkerTerminalReleaseBacklog returns.
Backlog == { [row |-> o, dispatch |-> owner[o]] : o \in { p \in Rows : release[p] \in Pending } }

Fault == faults < MaxFaults /\ faults' = faults + 1

-----------------------------------------------------------------------------
(***************************************************************************)
(* Workers: prepareStartingWorkerAuthority attaches one to its terminal.   *)
(***************************************************************************)
Attached(d, t, k) ==
  /\ state[d] = "none"
  /\ state' = [state EXCEPT ![d] = "active"]
  /\ at' = [at EXCEPT ![d] = t] /\ born' = [born EXCEPT ![d] = k]
  /\ UNCHANGED <<archived, memory, faults>>

\* Owns whatever terminal the worker is started in.
FaultyNewRow(d, owns, why) ==
  /\ owner' = [owner EXCEPT ![d] = d] /\ UNCHANGED prior
  /\ ownership' = [ownership EXCEPT ![d] = "owned"]
  /\ release' = [release EXCEPT ![d] = "not_requested"]
  /\ reason' = [reason EXCEPT ![d] = why]

\* createWorkerTerminalResourceStatement
NewRow(d, owns, why) ==
  /\ owner' = [owner EXCEPT ![d] = d] /\ UNCHANGED prior
  /\ ownership' = [ownership EXCEPT ![d] = owns]
  /\ release' = [release EXCEPT ![d] = "not_requested"]
  /\ reason' = [reason EXCEPT ![d] = why]

\* worker-start in a terminal it creates.
StartFresh(d, t) ==
  /\ now[t] = 0
  /\ now' = [now EXCEPT ![t] = 1] /\ alive' = alive \cup {t}
  /\ view' = [view EXCEPT ![t] = "connected"]
  /\ Attached(d, t, 1)
  /\ NewRow(d, "owned", "none")

Exact(t) == { o \in Rows : at[o] = t /\ born[o] = now[t] /\ ownership[o] # "released" }

\* findTransferableWorkerTerminalResource
Transferable(t) ==
  { o \in Exact(t) : ownership[o] = "owned" /\ release[o] \in Free /\ state[owner[o]] \in Settled }

Transfer(o, d) ==
  /\ owner' = [owner EXCEPT ![o] = d]
  /\ prior' = [prior EXCEPT ![o] = @ \cup {owner[o]}]
  /\ release' = [release EXCEPT ![o] = "not_requested"]
  /\ reason' = [reason EXCEPT ![o] = "none"]
  /\ UNCHANGED ownership

\* Looks for a release that is about to begin, not for one that has begun.
FaultyReusable(t) == \A o \in Exact(t) : release[o] \notin {"requested", "unknown"}

\* A release in progress refuses the terminal (terminal_release_in_progress).
Reusable(t) == \A o \in Exact(t) : release[o] \notin Committed

\* worker-start --terminal.
StartOn(d, t) ==
  /\ view[t] = "connected" /\ Reusable(t)
  /\ Attached(d, t, now[t])
  /\ \/ \E o \in Transferable(t) : Transfer(o, d)
     \/ Transferable(t) = {} /\ NewRow(d, "external", "external_terminal")
  /\ UNCHANGED terminals

\* The worker reports, fails, is stopped or abandoned (DispatchLedger).
Settle(d, s) ==
  /\ state[d] = "active" /\ s \in Settled
  /\ state' = [state EXCEPT ![d] = s]
  /\ UNCHANGED <<at, born, rows, archived, terminals, memory, faults>>

-----------------------------------------------------------------------------
(***************************************************************************)
(* worker-release, worker-retain and the keys of the user.                 *)
(***************************************************************************)

\* completeWorkerTerminalRelease: joins the completion at work on the row.
Begin(o, d, recovers) ==
  call' = IF call[o] # Idle THEN call
          ELSE [call EXCEPT ![o] = [phase |-> "look", dispatch |-> d, recovery |-> recovers]]

\* Output that a retry has to save again.
Discarded(o) ==
  release[o] = "unknown" \/ (release[o] = "retained" /\ reason[o] = "user_requested")

RequestRelease(o, d) ==
  /\ state[d] \in Releasable /\ owner[o] = d /\ ownership[o] = "owned"
  /\ release' = [release EXCEPT ![o] = IF @ = "releasing" THEN @ ELSE "requested"]
  /\ reason' = [reason EXCEPT ![o] = "none"]
  /\ archived' = IF Discarded(o) THEN archived \ {d} ELSE archived
  /\ Begin(o, d, FALSE)
  /\ UNCHANGED <<workers, owner, prior, ownership, terminals, probe, pass, faults>>

\* A terminal that is not released for d; is its process still there?
AskLiveness(o, d) ==
  /\ state[d] \in Settled /\ probe[d] = NoDispatch
  /\ \/ d \in prior[o]
     \/ /\ owner[o] = d /\ ownership[o] # "released"
        /\ ownership[o] # "owned" \/ state[d] \notin Releasable
  /\ probe' = [probe EXCEPT ![d] = o]
  /\ UNCHANGED <<workers, rows, archived, terminals, call, pass, faults>>

\* The one who asks is settled; who has the terminal now is not looked at.
FaultySettlesDead(o, d) ==
  /\ owner[o] = d \/ d \in prior[o]
  /\ state[d] \in Settled
  /\ ownership[o] # "released" /\ release[o] \in Free \cup {"unknown"}

\* What settleDeadWorkerTerminalRelease asks for.
SettlesDead(o, d) ==
  /\ owner[o] = d \/ d \in prior[o]
  /\ state[d] \in Settled /\ state[owner[o]] \in Settled
  /\ ownership[o] # "released" /\ release[o] \in Free \cup {"unknown"}

\* Forgets one of the two columns.
FaultyReleased(o) ==
  /\ release' = [release EXCEPT ![o] = "released"]
  /\ UNCHANGED ownership

Released(o) ==
  /\ release' = [release EXCEPT ![o] = "released"]
  /\ ownership' = [ownership EXCEPT ![o] = "released"]

\* The sessions are listed.  A list that fails tells nothing.
AnswerLiveness(d) ==
  /\ probe[d] # NoDispatch
  /\ LET o == probe[d] IN
     \/ /\ ~Runs(o) /\ SettlesDead(o, d)
        /\ Released(o) /\ reason' = [reason EXCEPT ![o] = "none"]
        /\ UNCHANGED <<owner, prior>>
     \/ UNCHANGED rows
  /\ probe' = [probe EXCEPT ![d] = NoDispatch]
  /\ UNCHANGED <<workers, archived, terminals, call, pass, faults>>

Retain(o) ==
  /\ owner[o] # NoDispatch /\ release[o] \in Free \cup {"requested"}
  /\ release' = [release EXCEPT ![o] = "retained"]
  /\ reason' = [reason EXCEPT ![o] = "user_requested"]
  /\ archived' = archived \ {owner[o]}
  /\ UNCHANGED <<workers, owner, prior, ownership, terminals, memory, faults>>

\* Rows of the pane, of whatever process, that markWorkerTerminalUserOwned takes.
Taken(t) ==
  { o \in Rows : at[o] = t /\ ownership[o] = "owned" /\ release[o] \in Free \cup {"requested"} }

UserTypes(t) ==
  /\ view[t] = "connected"
  /\ ownership' = [o \in Dispatch |-> IF o \in Taken(t) THEN "user_owned" ELSE ownership[o]]
  /\ release' = [o \in Dispatch |-> IF o \in Taken(t) THEN "retained" ELSE release[o]]
  /\ reason' = [o \in Dispatch |-> IF o \in Taken(t) THEN "user_takeover" ELSE reason[o]]
  /\ archived' = archived \ { owner[o] : o \in Taken(t) }
  /\ UNCHANGED <<workers, owner, prior, terminals, memory, faults>>

-----------------------------------------------------------------------------
(***************************************************************************)
(* The completion of a release: completeWorkerTerminalReleaseOnce.         *)
(***************************************************************************)
End(o) ==
  /\ call' = [call EXCEPT ![o] = Idle]
  /\ pass' = IF pass.row = o THEN [pass EXCEPT !.row = NoDispatch] ELSE pass

\* revertWorkerTerminalReleaseToRetained
Revert(o) ==
  /\ release' = [release EXCEPT ![o] = IF @ \in Pending THEN "retained" ELSE @]
  /\ reason' = [reason EXCEPT ![o] = IF release[o] \in Pending THEN "identity_unproven" ELSE @]
  /\ UNCHANGED <<owner, prior, ownership>>

\* markWorkerTerminalReleaseUnknown
MarkUnknown(o) ==
  /\ release' = [release EXCEPT ![o] = IF @ \in Pending THEN "unknown" ELSE @]
  /\ UNCHANGED <<owner, prior, ownership, reason>>

\* Goes on with the release that was asked for before the output was read.
FaultyCommits(o, d) == owner[o] = d

\* The transaction of commitWorkerTerminalArchiveForRelease takes effect.
Commits(o, d) == owner[o] = d /\ ownership[o] = "owned" /\ release[o] = "requested"

\* The output is there: commit, prove the process once more, begin to close.
CommitAndClose(o, d) ==
  LET committed == Commits(o, d) \/ (ownership[o] = "owned" /\ release[o] = "releasing") IN
  /\ archived' = IF Commits(o, d) THEN archived \cup {d} ELSE archived
  /\ \/ /\ committed /\ Lease(o, d)
        /\ release' = [release EXCEPT ![o] = "releasing"]
        /\ call' = [call EXCEPT ![o].phase = "close"]
        /\ UNCHANGED <<owner, prior, ownership, reason, pass>>
     \/ /\ committed /\ ~Lease(o, d)
        /\ release' = [release EXCEPT ![o] = "retained"]
        /\ reason' = [reason EXCEPT ![o] = "identity_unproven"]
        /\ UNCHANGED <<owner, prior, ownership>>
        /\ End(o)
     \/ ~committed /\ UNCHANGED rows /\ End(o)

\* The handle did not resolve, though its authority did.
Missing(o, c) == IF c.recovery THEN UNCHANGED rows ELSE MarkUnknown(o)

\* showTerminal answers: inspectWorkerTerminal, and what follows at once.
Look(o) ==
  LET c == call[o]
      d == c.dispatch IN
  /\ c.phase = "look"
  /\ \E shown \in BOOLEAN :
     /\ shown => view[at[o]] # "missing"
     /\ IF shown \/ view[at[o]] = "missing" THEN UNCHANGED faults ELSE Fault
     /\ \/ /\ (shown /\ ~Current(d)) \/ ~Lease(o, d)
           /\ Revert(o) /\ End(o) /\ UNCHANGED archived
        \/ /\ ~shown /\ Lease(o, d)
           /\ Missing(o, c) /\ End(o) /\ UNCHANGED archived
        \/ /\ shown /\ Lease(o, d) /\ d \in archived
           /\ CommitAndClose(o, d)
        \/ /\ shown /\ Lease(o, d) /\ d \notin archived
           /\ call' = [call EXCEPT ![o].phase = "capture"]
           /\ UNCHANGED <<rows, archived, pass>>
  /\ UNCHANGED <<workers, terminals, probe>>

\* captureWorkerOutputArchive answers, or throws archive_failed.
Capture(o) ==
  /\ call[o].phase = "capture"
  /\ \/ CommitAndClose(o, call[o].dispatch) /\ UNCHANGED faults
     \/ Fault /\ End(o) /\ UNCHANGED <<rows, archived>>
  /\ UNCHANGED <<workers, terminals, probe>>

\* What is left of the terminal.  A process that was replaced is not the one
\* the close was meant for.
Closes(o, ends) ==
  IF ends /\ Runs(o)
  THEN /\ alive' = alive \ {at[o]}
       /\ view' = [view EXCEPT ![at[o]] = IF @ = "connected" THEN "disconnected" ELSE @]
  ELSE UNCHANGED <<alive, view>>

\* closeTerminal succeeds, finds the endpoint unreachable, or fails otherwise.
Answer(o, ends) ==
  \/ Released(o) /\ UNCHANGED <<owner, prior, reason>> /\ (IF ends THEN UNCHANGED faults ELSE Fault)
  \/ Fault /\ UNCHANGED rows
  \/ Fault /\ MarkUnknown(o)

\* closeTerminal answers.
Close(o) ==
  /\ call[o].phase = "close"
  /\ \E ends \in BOOLEAN : Closes(o, ends) /\ Answer(o, ends)
  /\ End(o)
  /\ UNCHANGED <<workers, archived, now, probe>>

-----------------------------------------------------------------------------
(***************************************************************************)
(* Reconciliation, after the terminals of a provider were discovered.      *)
(***************************************************************************)

\* Takes the next release of Q, if there is one.
GoOn(Q, again) ==
  \/ \E e \in Q :
       /\ Begin(e.row, e.dispatch, TRUE)
       /\ pass' = [on |-> TRUE, rerun |-> again, queue |-> Q \ {e}, row |-> e.row]
  \/ Q = {} /\ pass' = NoPass /\ UNCHANGED call

\* reconcileRequestedWorkerTerminalReleases
Reconcile ==
  /\ \/ pass.on /\ pass' = [pass EXCEPT !.rerun = TRUE] /\ UNCHANGED call
     \/ ~pass.on /\ GoOn(Backlog, FALSE)
  /\ UNCHANGED <<workers, rows, archived, terminals, probe, faults>>

\* The completion the pass waits for is done.
NextOfPass ==
  /\ pass.on /\ pass.row = NoDispatch
  /\ IF pass.queue # {} THEN GoOn(pass.queue, pass.rerun)
     ELSE GoOn(IF pass.rerun THEN Backlog ELSE {}, FALSE)
  /\ UNCHANGED <<workers, rows, archived, terminals, probe, faults>>

-----------------------------------------------------------------------------
(***************************************************************************)
(* Terminals and the runtime.                                              *)
(***************************************************************************)

\* The user opens a terminal and starts an agent in it, or starts another
\* one where the last has ended.
Spawn(t) ==
  /\ t \notin alive /\ now[t] < MaxProcess
  /\ now' = [now EXCEPT ![t] = @ + 1] /\ alive' = alive \cup {t}
  /\ view' = [view EXCEPT ![t] = "connected"]
  /\ UNCHANGED <<workers, rows, archived, memory, faults>>

Exit(t) ==
  /\ t \in alive
  /\ alive' = alive \ {t}
  /\ view' = [view EXCEPT ![t] = IF @ = "connected" THEN "disconnected" ELSE @]
  /\ UNCHANGED <<workers, rows, archived, now, memory, faults>>

\* The connection is lost; the record of the terminal may go as well.
Drop(t) ==
  /\ view[t] = "connected" /\ Fault
  /\ \E v \in {"disconnected", "missing"} : view' = [view EXCEPT ![t] = v]
  /\ UNCHANGED <<workers, rows, archived, now, alive, memory>>

\* The inventory finds the terminal.
Find(t) ==
  /\ t \in alive /\ view[t] # "connected"
  /\ view' = [view EXCEPT ![t] = "connected"]
  /\ UNCHANGED <<workers, rows, archived, now, alive, memory, faults>>

\* The runtime stops and starts; the database is what it has.
Restart ==
  /\ Fault
  /\ call' = [o \in Dispatch |-> Idle] /\ probe' = [d \in Dispatch |-> NoDispatch]
  /\ pass' = NoPass
  /\ view' = [t \in Terminal |-> "missing"]
  /\ UNCHANGED <<workers, rows, archived, now, alive>>

-----------------------------------------------------------------------------
Next ==
  \/ \E d \in Dispatch, t \in Terminal : StartFresh(d, t) \/ StartOn(d, t)
  \/ \E d \in Dispatch, s \in Settled : Settle(d, s)
  \/ \E o, d \in Dispatch : RequestRelease(o, d) \/ AskLiveness(o, d)
  \/ \E d \in Dispatch : AnswerLiveness(d)
  \/ \E o \in Dispatch : Retain(o) \/ Look(o) \/ Capture(o) \/ Close(o)
  \/ \E t \in Terminal : UserTypes(t) \/ Spawn(t) \/ Exit(t) \/ Drop(t) \/ Find(t)
  \/ Reconcile \/ NextOfPass \/ Restart

Spec == Init /\ [][Next]_vars

\* Every await of a completion, of a pass and of a question is answered.
Fairness ==
  /\ \A o \in Dispatch : WF_vars(Look(o)) /\ WF_vars(Capture(o)) /\ WF_vars(Close(o))
  /\ \A d \in Dispatch : WF_vars(AnswerLiveness(d))
  /\ WF_vars(NextOfPass)

FairSpec == Spec /\ Fairness

-----------------------------------------------------------------------------
(***************************************************************************)
(* Properties.                                                             *)
(***************************************************************************)

\* A release that is about to close a terminal belongs to a dispatch that
\* owns it, reported success or failure, and has its output in the archive,
\* whatever the user, the coordinator and other dispatches did since.
ReleasingIsCommitted ==
  \A o \in Rows : release[o] = "releasing" =>
    /\ ownership[o] = "owned" /\ state[owner[o]] \in Releasable
    /\ owner[o] \in archived

\* While a terminal is being closed no worker is at work in its process.
ClosingSparesWorkers ==
  \A o, d \in Dispatch :
    call[o].phase = "close" /\ Current(o) /\ state[d] = "active" => ~Same(o, d)

\* A dispatch owns one terminal, and a process has one owner.
OneOwner ==
  \A o, p \in Rows :
    /\ owner[o] = owner[p] => o = p
    /\ ownership[o] = "owned" /\ ownership[p] = "owned" /\ Same(o, p) => o = p

StartsToClose(o) == call[o].phase # "close" /\ call'[o].phase = "close"

\* A close begins only for a release that was asked for and not taken back
\* by the user or the coordinator, and only on the process the worker ran in.
CloseIsEarned ==
  [][\A o \in Dispatch : StartsToClose(o) =>
       /\ release[o] \in Pending /\ ownership[o] = "owned" /\ Runs(o)
       /\ state[owner[o]] \in Releasable /\ owner[o] \in archived'
       /\ \A d \in Dispatch : state[d] = "active" => ~Same(o, d)]_vars

\* A terminal that was not closed counts as released only when its process
\* is dead and the dispatch that has it by then is settled.
DeadSettlement ==
  [][\A o \in Dispatch :
       release[o] # "released" /\ release'[o] = "released" /\ call[o].phase # "close" =>
         ~Runs(o) /\ state[owner[o]] \in Settled]_vars

\* What is released stays so, and is not handed on.
ReleasedIsFinal ==
  [][\A o \in Dispatch :
       release[o] = "released" => release'[o] = "released" /\ owner'[o] = owner[o]]_vars

\* As long as reconciliation keeps being triggered, no release stays pending.
ReleaseEnds ==
  WF_vars(Reconcile) =>
    \A o \in Dispatch : release[o] \in Pending ~> release[o] \notin Pending

=============================================================================
