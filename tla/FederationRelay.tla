-------------------------- MODULE FederationRelay ---------------------------
(***************************************************************************)
(* The relay of one federated dispatch between two Orca servers: its home, *)
(* whose database owns the Run, the task and the dispatch, and the worker  *)
(* server, on which its agent runs (federation-sync.ts, the relay tables   *)
(* of db.ts and the handlers orchestration.federationPull, federationAck   *)
(* and federationImport).                                                  *)
(*                                                                         *)
(* The agent's messages queue on the worker server until the home server   *)
(* has imported and acknowledged them; the coordinator's mail queues at    *)
(* home until the worker server has imported it.  The home server makes    *)
(* every call, in a synchronization it starts each second: pull a page,    *)
(* import it item by item, acknowledge it with the verdict of home on each *)
(* worker_done, hand over the mail, and pull the next page.  A call or its *)
(* answer may be lost or late, and either server may die and restart.      *)
(* Protocol 3 (lifecycle settlement) is modelled.                          *)
(*                                                                         *)
(* A Faulty... operator is the definition below it with a mistake in it.   *)
(***************************************************************************)
EXTENDS Naturals, Sequences

CONSTANTS
  Quota,        \* unacknowledged items a direction may hold (256 in the code)
  PageSize,     \* FEDERATION_PULL_PAGE_SIZE, and the limit of a mail call
  MaxPages,     \* MAX_FEDERATION_PULL_PAGES_PER_SYNC
  MaxItems,     \* bound: items the agent queues
  MaxIds,       \* bound: message ids minted for them
  MaxMail,      \* bound: mail the coordinator queues
  MaxCrashes,   \* bound: crashes of the two servers
  Kinds,        \* the kinds of item the agent queues
  Ops           \* the optional events that occur

Outcome == {"succeeded", "failed"}

\* "stray" is a worker_done for another task, or with a payload home rejects.
Report == Outcome \cup {"stray"}
Verdicts == Outcome \cup {"rejected"}

ASSUME FederationRelayAssumption ==
  /\ {Quota, PageSize, MaxPages} \subseteq Nat \ {0}
  /\ {MaxItems, MaxIds, MaxMail, MaxCrashes} \subseteq Nat
  /\ Kinds \subseteq Report \cup {"status", "heartbeat"}
  /\ Ops \subseteq { "starting",       \* home learns late that the worker runs
                     "stop",           \* worker-stop
                     "retry",          \* the failed task is retried
                     "early_import",   \* imports before home knows it runs
                     "early_retry",    \* retries before the report is acknowledged
                     "quota_race" }    \* a report takes the place of a heartbeat
                                       \* home has pulled or imported

Item == [id : Nat, kind : Report \cup {"status", "heartbeat"}]

VARIABLES
  \* the worker server
  queue,        \* federation_relay_items, direction to_home
  acked,        \* how many of them have acked_at
  minted,       \* message ids minted
  remote,       \* remote_dispatch_attachments.state
  receipts,     \* completed mutation receipts of federationAck: the requests
  torn,         \* request ids whose receipt a crash left pending
  epoch,        \* the runtime id: the number of this life of the server
  mailbox,      \* the mail imported, oldest first
  mailCursor,   \* to_worker_imported_sequence
  \* the home server
  imported,     \* to_home_imported_sequence
  inbox,        \* the messages imported, oldest first
  decided,      \* the verdict home gave on each item when it imported it
  ackedHome,    \* to_home_acknowledged_sequence
  ackedEpoch,   \* remote_runtime_epoch
  home,         \* worker_dispatches.state, with the state of its task
  mail,         \* number of items in federation_relay_items, direction to_worker
  mailAcked,    \* how many of them have acked_at
  \* between them
  sync,         \* the synchronization in progress
  acks,         \* federationAck calls made, which may reach the worker server late
  mails,        \* federationImport calls made, by their last item
  crashes       \* crashes of either server

attachment == <<remote, receipts, torn, epoch>>
mailboxVars == <<mailbox, mailCursor>>
workerVars == <<queue, acked, minted, attachment, mailboxVars>>
importVars == <<imported, inbox, decided>>
ackVars == <<ackedHome, ackedEpoch>>
homeVars == <<importVars, ackVars, home, mail, mailAcked>>
calls == <<acks, mails>>
vars == <<queue, acked, minted, remote, receipts, torn, epoch, mailbox, mailCursor,
          imported, inbox, decided, ackedHome, ackedEpoch, home, mail, mailAcked,
          sync, acks, mails, crashes>>

Idle == [phase |-> "idle", start |-> 0, items |-> << >>, done |-> 0, verdicts |-> {},
         pages |-> 0, epoch |-> 0, last |-> 0]

Settlement == Nat \X Verdicts
AckRequest == [through : Nat, verdicts : SUBSET Settlement]
Sync == [phase : {"idle", "pulling", "importing", "acking", "mailing"},
         start : Nat, items : Seq(Item), done : Nat, verdicts : SUBSET Settlement,
         pages : Nat, epoch : Nat, last : Nat]

TypeOK ==
  /\ queue \in Seq(Item)
  /\ acked \in Nat
  /\ minted \in Nat
  /\ remote \in {"ready", "stopped"} \cup Outcome
  /\ receipts \in SUBSET AckRequest
  /\ torn \in SUBSET ({"ack", "mail"} \X Nat)
  /\ epoch \in Nat
  /\ mailbox \in Seq(Nat)
  /\ mailCursor \in Nat
  /\ imported \in Nat
  /\ inbox \in Seq(Nat)
  /\ decided \in Seq(Verdicts \cup {"none"})
  /\ ackedHome \in Nat
  /\ ackedEpoch \in Nat
  /\ home \in {"starting", "ready", "stopping", "stopped", "replaced"} \cup Outcome
  /\ mail \in Nat
  /\ mailAcked \in Nat
  /\ crashes \in Nat
  /\ sync \in Sync
  /\ acks \in SUBSET AckRequest
  /\ mails \in SUBSET Nat

Init ==
  /\ queue = << >> /\ acked = 0 /\ minted = 0
  /\ remote = "ready"
  /\ receipts = {} /\ torn = {} /\ epoch = 1
  /\ mailbox = << >> /\ mailCursor = 0
  /\ imported = 0 /\ inbox = << >> /\ decided = << >>
  /\ ackedHome = 0 /\ ackedEpoch = 0
  /\ home = IF "starting" \in Ops THEN "starting" ELSE "ready"
  /\ mail = 0 /\ mailAcked = 0 /\ crashes = 0
  /\ sync = Idle /\ acks = {} /\ mails = {}

-----------------------------------------------------------------------------
(***************************************************************************)
(* The agent on the worker server queues items for home.                   *)
(***************************************************************************)
Larger(a, b) == IF a < b THEN b ELSE a
Smaller(a, b) == IF a < b THEN a ELSE b
Among(e, s) == \E i \in DOMAIN s : s[i] = e

New(kind) == [id |-> minted + 1, kind |-> kind]
Full == Len(queue) - acked >= Quota
Pending(kind) == { i \in acked + 1 .. Len(queue) : queue[i].kind = kind }

\* A heartbeat refreshes the one that is pending, without a new item.
Enqueue(kind) ==
  /\ remote = "ready"
  /\ ~Full
  /\ kind = "heartbeat" => Pending("heartbeat") = {}
  /\ Len(queue) < MaxItems /\ minted < MaxIds
  /\ queue' = Append(queue, New(kind))
  /\ minted' = minted + 1
  /\ UNCHANGED <<acked, attachment, mailboxVars, homeVars, sync, calls, crashes>>

\* Neither imported by home nor in the page it holds.
Unseen(i) == i > imported /\ i > sync.start + Len(sync.items)

\* At the quota a report takes the place of the oldest pending heartbeat.
TakePlace(kind, i) ==
  /\ remote = "ready"
  /\ Full
  /\ i \in Pending("heartbeat") /\ \A j \in Pending("heartbeat") : i <= j
  /\ "quota_race" \in Ops \/ Unseen(i)
  /\ minted < MaxIds
  /\ queue' = [queue EXCEPT ![i] = New(kind)]
  /\ minted' = minted + 1
  /\ UNCHANGED <<acked, attachment, mailboxVars, homeVars, sync, calls, crashes>>

-----------------------------------------------------------------------------
(***************************************************************************)
(* The state of the dispatch at home, but for its settlement by a report.  *)
(* Imports run to the end of their page without an await: nothing else     *)
(* happens at home between two of them.                                    *)
(***************************************************************************)
Active == {"starting", "ready", "stopping"}

AtHome(from, to) ==
  /\ sync.phase # "importing"
  /\ home \in from
  /\ home' = to
  /\ UNCHANGED <<workerVars, importVars, ackVars, mail, mailAcked, sync, calls, crashes>>

HomeReady == AtHome({"starting"}, "ready")

HomeStops == "stop" \in Ops /\ AtHome({"starting", "ready"}, "stopping")

HomeLearnsStop == remote = "stopped" /\ AtHome({"stopping"}, "stopped")

\* The task that failed goes to another dispatch.
Retry ==
  /\ "retry" \in Ops
  /\ "early_retry" \in Ops \/ (sync.phase = "idle" /\ acked = imported)
  /\ AtHome({"failed"}, "replaced")

\* The worker server closes the agent's terminal for home.
RemoteStop ==
  /\ home = "stopping" /\ remote = "ready"
  /\ remote' = "stopped"
  /\ UNCHANGED <<queue, acked, minted, receipts, torn, epoch, mailboxVars, homeVars, sync, calls, crashes>>

SendMail ==
  /\ sync.phase # "importing"
  /\ home = "ready"
  /\ mail < MaxMail /\ mail - mailAcked < Quota
  /\ mail' = mail + 1
  /\ UNCHANGED <<workerVars, importVars, ackVars, home, mailAcked, sync, calls, crashes>>

-----------------------------------------------------------------------------
(***************************************************************************)
(* A synchronization: syncFederatedDispatchPages.                          *)
(***************************************************************************)
FaultyEligible == home \in Active

Eligible == home \in Active \/ ackedHome < imported

\* federationPull answers with the oldest pending items.
Page == SubSeq(queue, acked + 1, Smaller(acked + PageSize, Len(queue)))

\* The cursor before the first item of the page, and after the items imported.
Start == IF Page = << >> THEN imported ELSE acked

Cursor == sync.start + sync.done

Pull ==
  /\ \/ sync.phase = "idle" /\ (Eligible \/ remote = "succeeded")
     \/ sync.phase = "pulling"
  /\ sync' = [phase |-> "importing", start |-> Start, items |-> Page, done |-> 0,
              verdicts |-> {}, epoch |-> epoch, last |-> 0,
              pages |-> IF sync.phase = "idle" THEN MaxPages ELSE sync.pages]
  /\ UNCHANGED <<workerVars, homeVars, calls, crashes>>

FaultyVerdict(kind) == IF kind = "stray" \/ home # "ready" THEN "rejected" ELSE kind

\* settleWorkerReportInTransaction.
Verdict(kind) ==
  IF kind = "stray" \/ home \notin {"ready", kind} THEN "rejected" ELSE kind

\* An item is imported in its turn, or again if its message is there.
Importable(seq, item) ==
  IF seq <= imported THEN Among(item.id, inbox) ELSE seq = imported + 1

FaultyDecide(kind) == Verdict(kind)

\* A settlement makes the report's outcome that of the dispatch and its task.
Decide(kind) == IF Verdict(kind) \in Outcome THEN kind ELSE home

FaultyInboxWith(item) == Append(inbox, item.id)

InboxWith(item) == IF Among(item.id, inbox) THEN inbox ELSE Append(inbox, item.id)

\* importFederatedRelayItem, one transaction.
ImportItem ==
  LET seq == Cursor + 1
      item == sync.items[sync.done + 1]
      verdict == IF item.kind \in Report THEN Verdict(item.kind) ELSE "none"
  IN
  /\ sync.phase = "importing"
  /\ sync.done < Len(sync.items)
  /\ home = "starting" => "early_import" \in Ops
  /\ IF Importable(seq, item)
     THEN /\ inbox' = InboxWith(item)
          /\ home' = IF item.kind \in Report THEN Decide(item.kind) ELSE home
          /\ imported' = Larger(imported, seq)
          /\ decided' = IF seq <= imported THEN decided ELSE Append(decided, verdict)
          /\ sync' = [sync EXCEPT !.done = @ + 1,
                        !.verdicts = IF verdict = "none" THEN @ ELSE @ \cup {<<seq, verdict>>}]
     ELSE /\ sync' = Idle
          /\ UNCHANGED <<inbox, home, imported, decided>>
  /\ UNCHANGED <<workerVars, ackVars, mail, mailAcked, calls, crashes>>

LastPage == sync.pages <= 1 \/ Len(sync.items) < PageSize

NextPage == IF LastPage THEN Idle
            ELSE [Idle EXCEPT !.phase = "pulling", !.pages = sync.pages - 1]

\* After the acknowledgment: the mail that is pending, or the next page.
AfterAck ==
  IF home = "ready" /\ mailAcked < mail
  THEN LET last == Smaller(mailAcked + PageSize, mail)
       IN /\ sync' = [sync EXCEPT !.phase = "mailing", !.last = last]
          /\ mails' = mails \cup {last}
  ELSE sync' = NextPage /\ UNCHANGED mails

\* The acknowledgment is due unless this life of the worker server had it.
KnownAcked == IF ackedEpoch = sync.epoch THEN ackedHome ELSE 0
AckCall == [through |-> Cursor, verdicts |-> sync.verdicts]

FinishPage ==
  /\ sync.phase = "importing"
  /\ sync.done = Len(sync.items)
  /\ IF Cursor > KnownAcked
     THEN /\ sync' = [sync EXCEPT !.phase = "acking"]
          /\ acks' = acks \cup {AckCall}
          /\ UNCHANGED mails
     ELSE AfterAck /\ UNCHANGED acks
  /\ UNCHANGED <<workerVars, homeVars, crashes>>

-----------------------------------------------------------------------------
(***************************************************************************)
(* The handler of federationAck.  The calls of a synchronization carry the *)
(* request id relay_ack_<dispatch>_<cursor>, so a repeated call finds the  *)
(* mutation receipt of the first: it is answered from it when it is the    *)
(* same request, and refused when it is another or when the receipt was    *)
(* left pending.                                                           *)
(***************************************************************************)
FaultyOutcomes(r) == { queue[t[1]].kind : t \in r.verdicts }

\* The outcomes home settled, of the reports that r acknowledges.
Outcomes(r) == { v \in Outcome : \E t \in r.verdicts : t[2] = v }

\* acknowledgeFederationRelay: what the settlements of r must agree with.
Accepts(r) ==
  /\ \A t \in r.verdicts :
       /\ t[1] \in 1 .. Smaller(r.through, Len(queue))
       /\ queue[t[1]].kind \in Report
       /\ t[2] \in Outcome => queue[t[1]].kind = t[2]
  /\ \A s \in acked + 1 .. Smaller(r.through, Len(queue)) :
       queue[s].kind \in Report => \E t \in r.verdicts : t[1] = s
  /\ \A v, w \in Outcomes(r) : v = w
  /\ \A v \in Outcomes(r) : remote \in {"ready", v}

Answered(r) == \E d \in receipts : d.through = r.through
Fresh(r) == <<"ack", r.through>> \notin torn /\ ~Answered(r)

\* The call is accepted: from its receipt, or applied.
Succeeds(r) == r \in receipts \/ (Fresh(r) /\ Accepts(r))

SettledRemote(r) == IF Outcomes(r) = {} THEN remote ELSE CHOOSE v \in Outcomes(r) : TRUE

Apply(r) ==
  /\ remote' = SettledRemote(r)
  /\ acked' = Larger(acked, r.through)

Handle(r) ==
  /\ IF Fresh(r) /\ Accepts(r)
     THEN Apply(r) /\ receipts' = receipts \cup {r}
     ELSE UNCHANGED <<remote, acked, receipts>>
  /\ UNCHANGED <<queue, minted, torn, epoch, mailboxVars, acks>>

\* The last page of a synchronization that is full leaves the dispatch eligible.
Acknowledged ==
  IF Len(sync.items) = PageSize /\ sync.pages = 1 THEN Larger(Cursor, 1) - 1 ELSE Cursor

\* The home server gets the answer: recordFederatedHomeAcknowledgment.
AnswerAck ==
  /\ sync.phase = "acking"
  /\ Handle(AckCall)
  /\ IF Succeeds(AckCall)
     THEN /\ ackedHome' = IF ackedEpoch = sync.epoch THEN Larger(ackedHome, Acknowledged)
                          ELSE Acknowledged
          /\ ackedEpoch' = sync.epoch
          /\ AfterAck
     ELSE sync' = Idle /\ UNCHANGED <<ackVars, mails>>
  /\ UNCHANGED <<importVars, home, mail, mailAcked, crashes>>

\* The worker server handles the call, and nobody gets its answer.
LoseAnswer(r) ==
  /\ Handle(r)
  /\ UNCHANGED <<homeVars, sync, mails, crashes>>

\* The worker server dies before the receipt of r is completed, its effect
\* applied or not.
TearAck(r) ==
  /\ crashes < MaxCrashes
  /\ Fresh(r)
  /\ \/ Accepts(r) /\ remote' = SettledRemote(r) /\ acked' = Larger(acked, r.through)
     \/ UNCHANGED <<remote, acked>>
  /\ torn' = torn \cup {<<"ack", r.through>>}
  /\ epoch' = epoch + 1 /\ crashes' = crashes + 1
  /\ UNCHANGED <<queue, minted, receipts, mailboxVars, homeVars, sync, calls>>

-----------------------------------------------------------------------------
(***************************************************************************)
(* The handler of federationImport, item by item: importing the message    *)
(* and advancing the cursor are two statements.  A call starts with the    *)
(* oldest pending item, which is never beyond the cursor (MailInv), so it  *)
(* is known by its last item.                                              *)
(***************************************************************************)
FaultyMailboxWith(k) == Append(mailbox, k)

\* importFederatedControlMessage.
MailboxWith(k) == IF Among(k, mailbox) THEN mailbox ELSE Append(mailbox, k)

ImportMail(last) ==
  LET k == mailCursor + 1 IN
  /\ <<"mail", last>> \notin torn
  /\ k <= last
  /\ remote = "ready"
  /\ mailbox' = MailboxWith(k)
  /\ mailCursor' = k
  /\ UNCHANGED <<queue, acked, minted, attachment, homeVars, sync, calls, crashes>>

\* The worker server dies before, between or after the two statements for an
\* item, with the receipt of the call not completed.
TearMail(last) ==
  LET k == mailCursor + 1 IN
  /\ crashes < MaxCrashes
  /\ <<"mail", last>> \notin torn
  /\ k <= last
  /\ remote = "ready"
  /\ \/ UNCHANGED <<mailbox, mailCursor>>
     \/ mailbox' = MailboxWith(k) /\ mailCursor' \in {mailCursor, k}
  /\ torn' = torn \cup {<<"mail", last>>}
  /\ epoch' = epoch + 1 /\ crashes' = crashes + 1
  /\ UNCHANGED <<queue, acked, minted, remote, receipts, homeVars, sync, calls>>

\* The home server gets the answer: acknowledgeFederationRelay.
AnswerMail ==
  /\ sync.phase = "mailing"
  /\ <<"mail", sync.last>> \notin torn /\ mailCursor >= sync.last
  /\ mailAcked' = Larger(mailAcked, mailCursor)
  /\ sync' = NextPage
  /\ UNCHANGED <<workerVars, importVars, ackVars, home, mail, calls, crashes>>

-----------------------------------------------------------------------------
(***************************************************************************)
(* Failures.                                                               *)
(***************************************************************************)
\* A call fails or times out; what was sent may arrive later.
CallFails ==
  /\ sync.phase \in {"pulling", "acking", "mailing"}
  /\ sync' = Idle
  /\ UNCHANGED <<workerVars, homeVars, calls, crashes>>

\* The home server dies between two imports; in any other phase that is as if
\* the call had failed.
CrashHome ==
  /\ crashes < MaxCrashes
  /\ sync.phase = "importing"
  /\ crashes' = crashes + 1
  /\ sync' = Idle
  /\ UNCHANGED <<workerVars, homeVars, calls>>

CrashWorker ==
  /\ crashes < MaxCrashes
  /\ epoch' = epoch + 1 /\ crashes' = crashes + 1
  /\ UNCHANGED <<queue, acked, minted, remote, receipts, torn, mailboxVars, homeVars, sync, calls>>

-----------------------------------------------------------------------------
AgentStep ==
  \E kind \in Kinds : \/ Enqueue(kind)
                      \/ kind \in Report /\ \E i \in DOMAIN queue : TakePlace(kind, i)

HomeStep == HomeReady \/ HomeStops \/ HomeLearnsStop \/ Retry \/ SendMail

SyncStep == Pull \/ ImportItem \/ FinishPage \/ AnswerAck \/ AnswerMail

WorkerStep ==
  \/ RemoteStop
  \/ \E r \in acks : LoseAnswer(r) \/ TearAck(r)
  \/ \E last \in mails : ImportMail(last) \/ TearMail(last)

Next == AgentStep \/ HomeStep \/ SyncStep \/ WorkerStep \/ CallFails \/ CrashHome \/ CrashWorker

Spec == Init /\ [][Next]_vars

\* The relay's timer starts a synchronization each second, and what home does
\* between two calls is done, unless it crashes; a call made again and again is
\* answered in the end.
Continues ==
  \/ Pull /\ (Eligible \/ sync.phase = "pulling")
  \/ ImportItem \/ FinishPage
  \/ CallFails /\ sync.phase # "pulling"

Fairness ==
  /\ WF_vars(Continues)
  /\ SF_vars(AnswerAck)

FairSpec == Spec /\ Fairness

-----------------------------------------------------------------------------
(***************************************************************************)
(* Properties.                                                             *)
(***************************************************************************)
\* Each direction is a channel that delivers every message once and in order:
\* the agent's messages to the Run's mailbox,
ToHome == INSTANCE RelayChannel WITH
  Message <- 1 .. MaxIds, sent <- [i \in DOMAIN queue |-> queue[i].id], delivered <- inbox

ToHomeSpec == ToHome!Spec

\* and the coordinator's mail to the worker's mailbox.
ToWorker == INSTANCE RelayChannel WITH
  Message <- 1 .. MaxMail, sent <- [i \in 1 .. mail |-> i], delivered <- mailbox

ToWorkerSpec == ToWorker!Spec

\* The servers agree on how the dispatch ended: the worker server has settled
\* it only as home has, though home may have moved on to a retry.
SettledTogether ==
  remote \in Outcome => home = remote \/ (remote = "failed" /\ home = "replaced")

\* The agent is told the verdict that home gave on its report, and no other.
Told == UNION { r.verdicts : r \in receipts }

ToldIsDecided ==
  \A t \in Told : t[1] \in DOMAIN decided /\ decided[t[1]] = t[2]

\* What keeps these true.  Home holds a copy of the queue's oldest items:
CopyInv ==
  /\ Len(inbox) = imported /\ Len(decided) = imported
  /\ acked <= imported /\ imported <= Len(queue)
  /\ \A i \in 1 .. imported : inbox[i] = queue[i].id
  /\ \A i, j \in 1 .. Len(queue) : queue[i].id = queue[j].id => i = j
  /\ \A i \in 1 .. Len(queue) : queue[i].id \in 1 .. minted

\* the page home is at work on is still what it was on the worker server:
PageInv ==
  /\ sync.done <= Len(sync.items) /\ Cursor <= imported
  /\ sync.start + Len(sync.items) <= Len(queue)
  /\ \A i \in 1 .. Len(sync.items) : sync.items[i] = queue[sync.start + i]

\* a verdict carried by a call is home's own, on a report it has imported:
TrueVerdicts(n, V) ==
  \A t \in V : t[1] \in 1 .. n /\ t[1] <= imported /\ queue[t[1]].kind \in Report
               /\ decided[t[1]] = t[2]

CallInv ==
  /\ TrueVerdicts(Cursor, sync.verdicts)
  /\ \A r \in acks : r.through <= imported /\ TrueVerdicts(r.through, r.verdicts)
  /\ \A r \in receipts : TrueVerdicts(r.through, r.verdicts)

\* importing a report again gives the verdict of the first time, and a dispatch
\* is unsettled only while it has rejected all its reports:
Replayed(i) == i > acked \/ (sync.phase = "importing" /\ i > sync.start)

VerdictInv ==
  /\ home = "starting" => imported = 0
  /\ \A i \in 1 .. imported :
       IF queue[i].kind \notin Report THEN decided[i] = "none"
       ELSE /\ home = "ready" => queue[i].kind = "stray"
            /\ home # "replaced" => decided[i] = Verdict(queue[i].kind)
            /\ home = "replaced" => /\ decided[i] \in {"failed", "rejected"}
                                    /\ Replayed(i) => decided[i] = "rejected"

\* and the mail that has arrived is what was sent, up to a torn call's item.
MailInv ==
  /\ mailAcked <= mailCursor /\ mailCursor <= Len(mailbox)
  /\ Len(mailbox) <= mailCursor + 1 /\ Len(mailbox) <= mail
  /\ \A i \in 1 .. Len(mailbox) : mailbox[i] = i
  /\ \A last \in mails : last <= mail
  /\ sync.last <= mail

RelayInv == CopyInv /\ PageInv /\ CallInv /\ VerdictInv /\ MailInv

\* Every item arrives: again and again all that is queued is acknowledged, through
\* lost calls and restarts, unless home waits to hear that the worker runs, ended
\* the dispatch before it imported the last item, or a crash tore a receipt.
ItemsArrive ==
  []<>( \/ acked = Len(queue)
        \/ imported < Len(queue) /\ home \notin Active \ {"starting"}
        \/ torn # {} )

\* A lost acknowledgment is repeated: home learns of what the worker server has
\* acknowledged.
AckIsLearned == \A n \in 1 .. MaxItems : acked >= n ~> ackedHome >= n
=============================================================================
