----------------------- MODULE FederationRelayProofs ------------------------
(***************************************************************************)
(* Theorems about FederationRelay for every quota, page size and bound.    *)
(***************************************************************************)
EXTENDS FederationRelay, SequenceTheorems, TLAPS

-----------------------------------------------------------------------------
(***************************************************************************)
(* Type correctness.                                                       *)
(***************************************************************************)
LEMMA Constants ==
  /\ PageSize \in Nat \ {0} /\ MaxPages \in Nat \ {0}
  /\ \A kind \in Kinds : kind \in Report \cup {"status", "heartbeat"}
  BY FederationRelayAssumption

\* A part of a sequence holds its items.
LEMMA Slice ==
  ASSUME NEW S, NEW q \in Seq(S), NEW a \in Nat, NEW n \in 0 .. Len(q)
  PROVE  /\ SubSeq(q, a + 1, n) \in Seq(S)
         /\ Len(SubSeq(q, a + 1, n)) = IF a < n THEN n - a ELSE 0
         /\ \A i \in 1 .. n - a : SubSeq(q, a + 1, n)[i] = q[a + i]
  BY SMT

\* The page that is pulled holds the items after the acknowledged ones.
LEMMA PageFacts ==
  ASSUME TypeOK
  PROVE  /\ Page \in Seq(Item)
         /\ Page # << >> => acked + Len(Page) <= Len(queue)
         /\ \A i \in 1 .. Len(Page) : Page[i] = queue[acked + i]
<1> DEFINE last == Smaller(acked + PageSize, Len(queue))
<1>1. queue \in Seq(Item) /\ acked \in Nat /\ last \in 0 .. Len(queue)
  BY Constants DEF TypeOK, Smaller
<1>2. Page = SubSeq(queue, acked + 1, last)
  BY DEF Page
<1> HIDE DEF last
<1>3. /\ Page \in Seq(Item)
      /\ Len(Page) = IF acked < last THEN last - acked ELSE 0
      /\ \A i \in 1 .. last - acked : Page[i] = queue[acked + i]
  BY <1>1, <1>2, Slice
<1> QED BY <1>1, <1>3

\* A synchronization has all its fields.
LEMMA SyncFields ==
  ASSUME TypeOK
  PROVE  /\ sync.phase \in {"idle", "pulling", "importing", "acking", "mailing"}
         /\ sync.start \in Nat /\ sync.items \in Seq(Item) /\ sync.done \in Nat
         /\ sync.verdicts \in SUBSET Settlement
         /\ sync.pages \in Nat /\ sync.epoch \in Nat /\ sync.last \in Nat
         /\ Cursor \in Nat
  BY DEF TypeOK, Sync, Cursor

LEMMA IdleType == Idle \in Sync
  BY DEF Idle, Sync

\* An import moves the synchronization on.
LEMMA SyncUpdate ==
  ASSUME NEW s \in Sync, NEW d \in Nat, NEW W \in SUBSET Settlement
  PROVE  /\ [s EXCEPT !.done = d] \in Sync
         /\ [s EXCEPT !.done = d, !.verdicts = W] \in Sync
  BY DEF Sync

LEMMA NextPageType ==
  ASSUME TypeOK
  PROVE  NextPage \in Sync
<1>1. CASE LastPage
  BY <1>1, IdleType DEF NextPage
<1>2. CASE ~LastPage
  <2>1. sync.pages - 1 \in Nat
    BY <1>2, SyncFields DEF LastPage
  <2>2. NextPage = [Idle EXCEPT !.phase = "pulling", !.pages = sync.pages - 1]
    BY <1>2 DEF NextPage
  <2> QED BY <2>1, <2>2, IdleType DEF Sync
<1> QED BY <1>1, <1>2

LEMMA AfterAckType ==
  ASSUME TypeOK, AfterAck
  PROVE  sync' \in Sync /\ mails' \in SUBSET Nat
<1>1. CASE home = "ready" /\ mailAcked < mail
  <2> DEFINE last == Smaller(mailAcked + PageSize, mail)
  <2>1. last \in Nat
    BY Constants DEF TypeOK, Smaller
  <2>2. sync' = [sync EXCEPT !.phase = "mailing", !.last = last] /\ mails' = mails \cup {last}
    BY <1>1 DEF AfterAck
  <2> HIDE DEF last
  <2> QED BY <2>1, <2>2 DEF TypeOK, Sync
<1>2. CASE ~(home = "ready" /\ mailAcked < mail)
  BY <1>2, NextPageType DEF AfterAck, TypeOK
<1> QED BY <1>1, <1>2

LEMMA AckCallType ==
  ASSUME TypeOK
  PROVE  AckCall \in AckRequest
  BY SyncFields DEF AckCall, AckRequest

LEMMA SettledRemoteType ==
  ASSUME TypeOK, NEW r \in AckRequest
  PROVE  /\ SettledRemote(r) \in {"ready", "stopped"} \cup Outcome
         /\ Larger(acked, r.through) \in Nat
<1>1. CASE Outcomes(r) = {}
  BY <1>1 DEF SettledRemote, TypeOK, Larger, AckRequest
<1>2. CASE Outcomes(r) # {}
  <2>1. SettledRemote(r) \in Outcomes(r)
    BY <1>2 DEF SettledRemote
  <2> QED BY <2>1 DEF Outcomes, TypeOK, Larger, AckRequest
<1> QED BY <1>1, <1>2

LEMMA HandleType ==
  ASSUME TypeOK, NEW r \in AckRequest, Handle(r)
  PROVE  /\ queue' \in Seq(Item) /\ acked' \in Nat /\ minted' \in Nat
         /\ remote' \in {"ready", "stopped"} \cup Outcome
         /\ receipts' \in SUBSET AckRequest
         /\ torn' \in SUBSET ({"ack", "mail"} \X Nat) /\ epoch' \in Nat
         /\ mailbox' \in Seq(Nat) /\ mailCursor' \in Nat
         /\ acks' \in SUBSET AckRequest
  BY SettledRemoteType DEF TypeOK, Handle, Apply, mailboxVars

\* What the steps of either server leave alone stays typed.
LEMMA TypeUnchanged ==
  ASSUME TypeOK
  PROVE  /\ UNCHANGED workerVars =>
              /\ queue' \in Seq(Item) /\ acked' \in Nat /\ minted' \in Nat
              /\ remote' \in {"ready", "stopped"} \cup Outcome
              /\ receipts' \in SUBSET AckRequest
              /\ torn' \in SUBSET ({"ack", "mail"} \X Nat) /\ epoch' \in Nat
              /\ mailbox' \in Seq(Nat) /\ mailCursor' \in Nat
         /\ UNCHANGED importVars =>
              /\ imported' \in Nat /\ inbox' \in Seq(Nat)
              /\ decided' \in Seq(Verdicts \cup {"none"})
         /\ UNCHANGED ackVars => ackedHome' \in Nat /\ ackedEpoch' \in Nat
         /\ UNCHANGED homeVars =>
              /\ UNCHANGED importVars /\ UNCHANGED ackVars
              /\ home' \in {"starting", "ready", "stopping", "stopped", "replaced"} \cup Outcome
              /\ mail' \in Nat /\ mailAcked' \in Nat
         /\ UNCHANGED calls => acks' \in SUBSET AckRequest /\ mails' \in SUBSET Nat
  BY DEF TypeOK, workerVars, importVars, ackVars, homeVars, calls, attachment, mailboxVars

LEMMA ImportItemType ==
  ASSUME TypeOK, ImportItem
  PROVE  TypeOK'
<1> DEFINE item == sync.items[sync.done + 1]
           verdict == IF item.kind \in Report THEN Verdict(item.kind) ELSE "none"
<1>1. item \in Item
  <2>1. sync.done < Len(sync.items)
    BY DEF ImportItem
  <2>2. sync.done \in Nat /\ Len(sync.items) \in Nat /\ sync.items \in Seq(Item)
    BY SyncFields
  <2>3. sync.done + 1 \in 1 .. Len(sync.items)
    BY <2>1, <2>2
  <2> QED BY <2>2, <2>3
<1>2. /\ verdict \in Verdicts \cup {"none"}
      /\ verdict # "none" => verdict \in Verdicts
  BY <1>1 DEF Verdict, Verdicts, Report, Outcome, Item
<1>3. /\ Cursor + 1 \in Nat /\ Larger(imported, Cursor + 1) \in Nat
      /\ InboxWith(item) \in Seq(Nat)
      /\ Append(decided, verdict) \in Seq(Verdicts \cup {"none"})
      /\ Decide(item.kind) \in {"starting", "ready", "stopping", "stopped", "replaced"} \cup Outcome
  <2>1. item.id \in Nat
    BY <1>1 DEF Item
  <2>2. Verdict(item.kind) \in Outcome => item.kind \in Outcome
    BY DEF Verdict, Outcome
  <2> HIDE DEF item, verdict
  <2>3. Cursor + 1 \in Nat /\ Larger(imported, Cursor + 1) \in Nat
    BY SyncFields DEF TypeOK, Larger
  <2>4. InboxWith(item) \in Seq(Nat)
    BY <2>1 DEF TypeOK, InboxWith
  <2>5. Append(decided, verdict) \in Seq(Verdicts \cup {"none"})
    BY <1>2 DEF TypeOK
  <2>6. Decide(item.kind) \in {"starting", "ready", "stopping", "stopped", "replaced"} \cup Outcome
    BY <2>2 DEF TypeOK, Decide
  <2> QED BY <2>3, <2>4, <2>5, <2>6
<1>4. /\ inbox' = InboxWith(item) \/ inbox' = inbox
      /\ decided' = Append(decided, verdict) \/ decided' = decided
      /\ imported' = Larger(imported, Cursor + 1) \/ imported' = imported
      /\ home' = Decide(item.kind) \/ home' = home
      /\ \/ sync' = Idle
         \/ sync' = [sync EXCEPT !.done = @ + 1]
         \/ /\ verdict # "none"
            /\ sync' = [sync EXCEPT !.done = @ + 1,
                                  !.verdicts = sync.verdicts \cup {<<Cursor + 1, verdict>>}]
  <2>1. sync' = [sync EXCEPT !.done = @ + 1, !.verdicts = @] => sync' = [sync EXCEPT !.done = @ + 1]
    BY DEF TypeOK, Sync
  <2> QED BY <2>1 DEF ImportItem
<1>5. UNCHANGED <<workerVars, ackVars, mail, mailAcked, calls, crashes>>
  BY DEF ImportItem
<1> HIDE DEF item, verdict
<1>6. sync' \in Sync
  <2> DEFINE V == sync.verdicts \cup {<<Cursor + 1, verdict>>}
  <2>1. ASSUME verdict # "none" PROVE V \in SUBSET Settlement
    <3>1. <<Cursor + 1, verdict>> \in Settlement
      BY <1>2, <1>3, <2>1 DEF Settlement
    <3> QED BY <3>1, SyncFields
  <2>2. ASSUME NEW W \in SUBSET Settlement
        PROVE  /\ [sync EXCEPT !.done = @ + 1] \in Sync
               /\ [sync EXCEPT !.done = @ + 1, !.verdicts = W] \in Sync
    <3>1. sync.done \in Nat /\ sync \in Sync
      BY SyncFields DEF TypeOK
    <3>2. sync.done + 1 \in Nat
      BY <3>1
    <3> QED BY <3>1, <3>2, SyncUpdate
  <2>3. \/ sync' \in {Idle, [sync EXCEPT !.done = @ + 1]}
        \/ verdict # "none" /\ sync' = [sync EXCEPT !.done = @ + 1, !.verdicts = V]
    BY <1>4
  <2> HIDE DEF V
  <2> QED BY <2>1, <2>2, <2>3, IdleType
<1>7. inbox' \in Seq(Nat) /\ decided' \in Seq(Verdicts \cup {"none"}) /\ imported' \in Nat
  BY <1>3, <1>4 DEF TypeOK
<1>8. home' \in {"starting", "ready", "stopping", "stopped", "replaced"} \cup Outcome
  BY <1>3, <1>4 DEF TypeOK
<1> QED BY <1>5, <1>6, <1>7, <1>8, TypeUnchanged DEF TypeOK

LEMMA TypeStep == TypeOK /\ [Next]_vars => TypeOK'
<1> SUFFICES ASSUME TypeOK, [Next]_vars PROVE TypeOK'
  OBVIOUS
<1>1. ASSUME NEW kind \in Kinds, Enqueue(kind) PROVE TypeOK'
  <2>1. New(kind) \in Item /\ minted + 1 \in Nat
    BY Constants DEF New, Item, TypeOK
  <2> QED BY <1>1, <2>1 DEF TypeOK, Enqueue, attachment, mailboxVars, homeVars, importVars, ackVars, calls
<1>2. ASSUME NEW kind \in Kinds, NEW i \in DOMAIN queue, TakePlace(kind, i) PROVE TypeOK'
  <2>1. New(kind) \in Item /\ minted + 1 \in Nat
    BY Constants DEF New, Item, TypeOK
  <2>2. queue' \in Seq(Item) /\ minted' \in Nat
    <3>1. queue \in Seq(Item) /\ queue' = [queue EXCEPT ![i] = New(kind)] /\ minted' = minted + 1
      BY <1>2 DEF TypeOK, TakePlace
    <3> QED BY <2>1, <3>1, ExceptSeq
  <2>3. UNCHANGED <<acked, attachment, mailboxVars, homeVars, sync, calls, crashes>>
    BY <1>2 DEF TakePlace
  <2> QED BY <2>2, <2>3, TypeUnchanged DEF TypeOK, attachment, mailboxVars
<1>3. ASSUME HomeReady \/ HomeStops \/ HomeLearnsStop \/ Retry PROVE TypeOK'
  BY <1>3, TypeUnchanged DEF TypeOK, HomeReady, HomeStops, HomeLearnsStop, Retry, AtHome
<1>4. CASE SendMail
  <2>1. mail' \in Nat
    BY <1>4 DEF TypeOK, SendMail
  <2>2. UNCHANGED <<workerVars, importVars, ackVars, home, mailAcked, sync, calls, crashes>>
    BY <1>4 DEF SendMail
  <2> QED BY <2>1, <2>2, TypeUnchanged DEF TypeOK
<1>5. CASE RemoteStop
  BY <1>5 DEF TypeOK, RemoteStop, mailboxVars, homeVars, importVars, ackVars, calls
<1>6. CASE Pull
  <2>1. Start \in Nat
    BY DEF Start, TypeOK
  <2>2. (IF sync.phase = "idle" THEN MaxPages ELSE sync.pages) \in Nat
    BY SyncFields, Constants
  <2>3. sync' \in Sync
    BY <1>6, <2>1, <2>2, PageFacts DEF Pull, Sync, TypeOK
  <2> QED BY <1>6, <2>3, TypeUnchanged DEF TypeOK, Pull
<1>7. CASE ImportItem
  BY <1>7, ImportItemType
<1>8. CASE FinishPage
  <2>1. UNCHANGED <<workerVars, homeVars, crashes>>
    BY <1>8 DEF FinishPage
  <2>2. sync' \in Sync /\ acks' \in SUBSET AckRequest /\ mails' \in SUBSET Nat
    <3>1. CASE Cursor > KnownAcked
      BY <1>8, <3>1, AckCallType DEF FinishPage, TypeOK, Sync
    <3>2. CASE ~(Cursor > KnownAcked)
      BY <1>8, <3>2, AfterAckType DEF FinishPage, TypeOK
    <3> QED BY <3>1, <3>2
  <2> QED BY <2>1, <2>2, TypeUnchanged DEF TypeOK
<1>9. CASE AnswerAck
  <2>1. Handle(AckCall) /\ UNCHANGED <<importVars, home, mail, mailAcked, crashes>>
    BY <1>9 DEF AnswerAck
  <2>2. /\ sync' \in Sync /\ mails' \in SUBSET Nat
        /\ ackedHome' \in Nat /\ ackedEpoch' \in Nat
    <3>1. CASE Succeeds(AckCall)
      <4>1. Acknowledged \in Nat
        BY SyncFields DEF Acknowledged, Larger
      <4> QED BY <1>9, <3>1, <4>1, AfterAckType, SyncFields DEF AnswerAck, TypeOK, Larger
    <3>2. CASE ~Succeeds(AckCall)
      BY <1>9, <3>2, IdleType DEF AnswerAck, TypeOK, ackVars
    <3> QED BY <3>1, <3>2
  <2> QED BY <2>1, <2>2, HandleType, AckCallType, TypeUnchanged DEF TypeOK
<1>10. ASSUME NEW r \in acks, LoseAnswer(r) PROVE TypeOK'
  <2>1. r \in AckRequest
    BY DEF TypeOK
  <2> QED BY <1>10, <2>1, HandleType, TypeUnchanged DEF TypeOK, LoseAnswer
<1>11. ASSUME NEW r \in acks, TearAck(r) PROVE TypeOK'
  <2>1. r \in AckRequest /\ <<"ack", r.through>> \in {"ack", "mail"} \X Nat
    BY DEF TypeOK, AckRequest
  <2>2. /\ remote' \in {"ready", "stopped"} \cup Outcome
        /\ acked' \in Nat
    BY <1>11, <2>1, SettledRemoteType DEF TypeOK, TearAck
  <2>3. torn' \in SUBSET ({"ack", "mail"} \X Nat) /\ epoch' \in Nat /\ crashes' \in Nat
    <3>1. torn' = torn \cup {<<"ack", r.through>>} /\ epoch' = epoch + 1 /\ crashes' = crashes + 1
      BY <1>11 DEF TearAck
    <3> QED BY <2>1, <3>1 DEF TypeOK
  <2>4. UNCHANGED <<queue, minted, receipts, mailboxVars, homeVars, sync, calls>>
    BY <1>11 DEF TearAck
  <2> QED BY <2>2, <2>3, <2>4, TypeUnchanged DEF TypeOK, mailboxVars
<1>12. ASSUME NEW last \in mails, ImportMail(last) PROVE TypeOK'
  <2>1. MailboxWith(mailCursor + 1) \in Seq(Nat) /\ mailCursor + 1 \in Nat
    BY DEF TypeOK, MailboxWith
  <2> QED BY <1>12, <2>1, TypeUnchanged DEF TypeOK, ImportMail, attachment
<1>13. ASSUME NEW last \in mails, TearMail(last) PROVE TypeOK'
  <2>1. MailboxWith(mailCursor + 1) \in Seq(Nat) /\ <<"mail", last>> \in {"ack", "mail"} \X Nat
    BY DEF TypeOK, MailboxWith
  <2>2. /\ torn' \in SUBSET ({"ack", "mail"} \X Nat) /\ epoch' \in Nat /\ crashes' \in Nat
        /\ mailbox' \in Seq(Nat) /\ mailCursor' \in Nat
    BY <1>13, <2>1 DEF TypeOK, TearMail
  <2>3. UNCHANGED <<queue, acked, minted, remote, receipts, homeVars, sync, calls>>
    BY <1>13 DEF TearMail
  <2> QED BY <2>2, <2>3, TypeUnchanged DEF TypeOK
<1>14. CASE AnswerMail
  <2>1. Larger(mailAcked, mailCursor) \in Nat
    BY DEF Larger, TypeOK
  <2> QED BY <1>14, <2>1, NextPageType, TypeUnchanged DEF TypeOK, AnswerMail
<1>15. ASSUME CallFails \/ CrashHome PROVE TypeOK'
  <2>1. UNCHANGED <<workerVars, homeVars, calls>> /\ sync' \in Sync /\ crashes' \in Nat
    BY <1>15, IdleType DEF TypeOK, CallFails, CrashHome
  <2> QED BY <2>1, TypeUnchanged DEF TypeOK
<1>16. CASE CrashWorker
  <2>1. epoch' \in Nat /\ crashes' \in Nat
    BY <1>16 DEF TypeOK, CrashWorker
  <2>2. UNCHANGED <<queue, acked, minted, remote, receipts, torn, mailboxVars, homeVars, sync, calls>>
    BY <1>16 DEF CrashWorker
  <2> QED BY <2>1, <2>2, TypeUnchanged DEF TypeOK, mailboxVars
<1>17. CASE UNCHANGED vars
  BY <1>17 DEF TypeOK, vars
<1> QED
  BY <1>1, <1>2, <1>3, <1>4, <1>5, <1>6, <1>7, <1>8, <1>9, <1>10, <1>11, <1>12, <1>13,
     <1>14, <1>15, <1>16, <1>17
     DEF Next, AgentStep, HomeStep, SyncStep, WorkerStep

LEMMA TypeInit == Init => TypeOK
  BY IdleType DEF Init, TypeOK

\* Every variable of the relay keeps its type, whatever is lost or repeated.
THEOREM TypeCorrect == Spec => []TypeOK
  BY TypeInit, TypeStep, PTL DEF Spec

-----------------------------------------------------------------------------
(***************************************************************************)
(* The inductive invariant.  RelayInv and SettledTogether are inductive    *)
(* together, when a report does not take the place of a heartbeat home has *)
(* seen, home imports no report before it knows that the worker runs, and  *)
(* a retry waits until the reports are acknowledged.                       *)
(***************************************************************************)
Careful == {"quota_race", "early_import", "early_retry"} \cap Ops = {}

IInv == TypeOK /\ RelayInv /\ SettledTogether

Agent == \E kind \in Kinds : Enqueue(kind) \/ \E i \in DOMAIN queue : TakePlace(kind, i)

\* Only the agent changes the queue, and only an import changes what home holds.
LEMMA CopiesFrame ==
  ASSUME [Next]_vars
  PROVE  Agent \/ ImportItem \/ UNCHANGED <<queue, minted, imported, inbox, decided>>
<1> USE DEF Agent, workerVars, homeVars, importVars, mailboxVars
<1>1. CASE AgentStep
  BY <1>1 DEF AgentStep
<1>2. CASE HomeStep
  BY <1>2 DEF HomeStep, HomeReady, HomeStops, HomeLearnsStop, Retry, AtHome, SendMail
<1>3. CASE SyncStep
  BY <1>3 DEF SyncStep, Pull, FinishPage, AnswerAck, AnswerMail, Handle
<1>4. CASE WorkerStep
  BY <1>4 DEF WorkerStep, RemoteStop, LoseAnswer, TearAck, ImportMail, TearMail, Handle
<1>5. CASE CallFails \/ CrashHome \/ CrashWorker \/ UNCHANGED vars
  BY <1>5 DEF CallFails, CrashHome, CrashWorker, vars
<1> QED BY <1>1, <1>2, <1>3, <1>4, <1>5 DEF Next

\* A step on the acknowledged items is an answer to a call.
AckHandled(r) ==
  /\ acked' \in {acked, Larger(acked, r.through)}
  /\ remote' \in {remote, SettledRemote(r)}
  /\ receipts' \in {receipts, receipts \cup {r}}
  /\ UNCHANGED <<queue, imported, inbox, decided, minted, home>>
  /\ acks' = acks

LEMMA AckFrame ==
  ASSUME [Next]_vars
  PROVE  \/ \E r \in acks \cup {AckCall} : AckHandled(r)
         \/ RemoteStop
         \/ UNCHANGED <<acked, remote, receipts>>
<1> USE DEF workerVars, homeVars, importVars, attachment, calls, mailboxVars
<1>1. CASE AgentStep
  BY <1>1 DEF AgentStep, Enqueue, TakePlace
<1>2. CASE HomeStep
  BY <1>2 DEF HomeStep, HomeReady, HomeStops, HomeLearnsStop, Retry, AtHome, SendMail
<1>3. CASE SyncStep
  <2>1. CASE AnswerAck
    BY <2>1 DEF AnswerAck, Handle, Apply, AckHandled
  <2>2. CASE Pull \/ ImportItem \/ FinishPage \/ AnswerMail
    BY <2>2 DEF Pull, ImportItem, FinishPage, AnswerMail
  <2> QED BY <1>3, <2>1, <2>2 DEF SyncStep
<1>4. CASE WorkerStep
  <2>1. ASSUME NEW r \in acks, LoseAnswer(r) PROVE AckHandled(r)
    BY <2>1 DEF LoseAnswer, Handle, Apply, AckHandled
  <2>2. ASSUME NEW r \in acks, TearAck(r) PROVE AckHandled(r)
    BY <2>2 DEF TearAck, AckHandled
  <2>3. ASSUME NEW last, ImportMail(last) \/ TearMail(last) PROVE UNCHANGED <<acked, remote, receipts>>
    BY <2>3 DEF ImportMail, TearMail
  <2> QED BY <1>4, <2>1, <2>2, <2>3 DEF WorkerStep
<1>5. CASE CallFails \/ CrashHome \/ CrashWorker \/ UNCHANGED vars
  BY <1>5 DEF CallFails, CrashHome, CrashWorker, vars
<1> QED BY <1>1, <1>2, <1>3, <1>4, <1>5 DEF Next

\* The page home is at work on stays, or is given up, but in Pull and ImportItem.
SamePage ==
  /\ sync'.start = sync.start /\ sync'.items = sync.items /\ sync'.done = sync.done
  /\ sync'.verdicts = sync.verdicts
  /\ sync'.phase = "importing" => sync.phase = "importing"

NoPage ==
  /\ sync'.start = 0 /\ sync'.items = << >> /\ sync'.done = 0 /\ sync'.verdicts = {}
  /\ sync'.phase # "importing"

LEMMA NoPageFacts == sync' = Idle \/ sync' = NextPage => NoPage
<1>1. CASE sync' = Idle
  BY <1>1 DEF NoPage, Idle
<1>2. CASE sync' = NextPage /\ ~LastPage
  <2>1. sync' = [Idle EXCEPT !.phase = "pulling", !.pages = sync.pages - 1]
    BY <1>2 DEF NextPage
  <2> QED BY <2>1 DEF NoPage, Idle
<1>3. sync' = NextPage /\ LastPage => sync' = Idle
  BY DEF NextPage
<1> QED BY <1>1, <1>2, <1>3

LEMMA AfterAckPage ==
  ASSUME TypeOK, AfterAck
  PROVE  SamePage \/ NoPage
<1>1. CASE home = "ready" /\ mailAcked < mail
  <2>1. \E last : sync' = [sync EXCEPT !.phase = "mailing", !.last = last]
    BY <1>1 DEF AfterAck
  <2> QED BY <2>1 DEF SamePage, TypeOK, Sync
<1>2. CASE ~(home = "ready" /\ mailAcked < mail)
  BY <1>2, NoPageFacts DEF AfterAck
<1> QED BY <1>1, <1>2

LEMMA PageFrame ==
  ASSUME TypeOK, [Next]_vars
  PROVE  \/ Pull \/ ImportItem
         \/ (SamePage \/ NoPage) /\ (UNCHANGED acks \/ acks' = acks \cup {AckCall})
<1> USE DEF calls
<1>1. sync' = sync => SamePage
  BY DEF SamePage
<1>2. CASE AgentStep
  BY <1>1, <1>2 DEF AgentStep, Enqueue, TakePlace
<1>3. CASE HomeStep
  BY <1>1, <1>3 DEF HomeStep, HomeReady, HomeStops, HomeLearnsStop, Retry, AtHome, SendMail
<1>4. CASE FinishPage
  <2>1. CASE Cursor > KnownAcked
    <3>1. sync' = [sync EXCEPT !.phase = "acking"] /\ acks' = acks \cup {AckCall}
      BY <1>4, <2>1 DEF FinishPage
    <3> QED BY <3>1 DEF SamePage, TypeOK, Sync
  <2>2. CASE ~(Cursor > KnownAcked)
    BY <1>4, <2>2, AfterAckPage DEF FinishPage
  <2> QED BY <2>1, <2>2
<1>5. CASE AnswerAck
  <2>1. acks' = acks
    BY <1>5 DEF AnswerAck, Handle
  <2>2. AfterAck \/ sync' = Idle
    BY <1>5 DEF AnswerAck
  <2> QED BY <2>1, <2>2, AfterAckPage, NoPageFacts
<1>6. CASE AnswerMail
  BY <1>6, NoPageFacts DEF AnswerMail
<1>7. CASE WorkerStep
  BY <1>1, <1>7 DEF WorkerStep, RemoteStop, LoseAnswer, TearAck, ImportMail, TearMail, Handle
<1>8. CASE CallFails \/ CrashHome
  BY <1>8, NoPageFacts DEF CallFails, CrashHome
<1>9. CASE CrashWorker \/ UNCHANGED vars
  BY <1>1, <1>9 DEF CrashWorker, vars
<1> QED BY <1>2, <1>3, <1>4, <1>5, <1>6, <1>7, <1>8, <1>9 DEF Next, SyncStep

-----------------------------------------------------------------------------
\* The next item of the page is the queue's item after the cursor.
LEMMA NextItem ==
  ASSUME TypeOK, PageInv, sync.done < Len(sync.items)
  PROVE  /\ sync.items[sync.done + 1] = queue[Cursor + 1]
         /\ Cursor + 1 \in 1 .. Len(queue)
<1>1. sync.done \in Nat /\ sync.start \in Nat /\ Len(sync.items) \in Nat /\ Len(queue) \in Nat
  <2>1. sync.done \in Nat /\ sync.start \in Nat /\ sync.items \in Seq(Item)
    BY SyncFields
  <2>2. queue \in Seq(Item)
    BY DEF TypeOK
  <2> QED BY <2>1, <2>2
<1>2. sync.done + 1 \in 1 .. Len(sync.items) /\ sync.start + (sync.done + 1) = Cursor + 1
  BY <1>1 DEF Cursor
<1>3. sync.items[sync.done + 1] = queue[sync.start + (sync.done + 1)]
  BY <1>2 DEF PageInv
<1>4. Cursor + 1 \in 1 .. Len(queue)
  <2>1. sync.start + Len(sync.items) <= Len(queue)
    BY DEF PageInv
  <2> QED BY <1>1, <1>2, <2>1
<1> QED BY <1>2, <1>3, <1>4

\* What an import does: nothing, the item again, or the next item.
LEMMA ImportCases ==
  ASSUME TypeOK, CopyInv, PageInv, ImportItem
  PROVE  LET seq == Cursor + 1
             item == queue[seq]
             verdict == IF item.kind \in Report THEN Verdict(item.kind) ELSE "none"
         IN
         /\ seq \in 1 .. Len(queue)
         /\ home = "starting" => "early_import" \in Ops
         /\ UNCHANGED <<workerVars, ackVars, mail, mailAcked, calls, crashes>>
         /\ \/ sync' = Idle /\ UNCHANGED <<imported, inbox, decided, home>>
            \/ /\ seq <= imported \/ seq = imported + 1
               /\ home' = IF item.kind \in Report THEN Decide(item.kind) ELSE home
               /\ sync' = [sync EXCEPT !.done = sync.done + 1,
                             !.verdicts = IF verdict = "none" THEN sync.verdicts
                                          ELSE sync.verdicts \cup {<<seq, verdict>>}]
               /\ seq <= imported => UNCHANGED <<imported, inbox, decided>>
               /\ seq = imported + 1 => /\ imported' = imported + 1
                                        /\ inbox' = Append(inbox, item.id)
                                        /\ decided' = Append(decided, verdict)
<1> DEFINE seq == Cursor + 1
           item == queue[seq]
           verdict == IF item.kind \in Report THEN Verdict(item.kind) ELSE "none"
<1>1. item = sync.items[sync.done + 1] /\ seq \in 1 .. Len(queue)
  BY NextItem DEF ImportItem
<1>2. seq \in Nat /\ imported \in Nat
  <2>1. Cursor \in Nat
    BY SyncFields
  <2> QED BY <2>1 DEF TypeOK
<1>3. CASE ~Importable(seq, item)
  BY <1>1, <1>3 DEF ImportItem
<1>4. CASE Importable(seq, item)
  <2>1. /\ inbox' = InboxWith(item)
        /\ home' = IF item.kind \in Report THEN Decide(item.kind) ELSE home
        /\ imported' = Larger(imported, seq)
        /\ decided' = IF seq <= imported THEN decided ELSE Append(decided, verdict)
        /\ sync' = [sync EXCEPT !.done = sync.done + 1,
                      !.verdicts = IF verdict = "none" THEN sync.verdicts
                                   ELSE sync.verdicts \cup {<<seq, verdict>>}]
        /\ home = "starting" => "early_import" \in Ops
        /\ UNCHANGED <<workerVars, ackVars, mail, mailAcked, calls, crashes>>
    BY <1>1, <1>4 DEF ImportItem
  <2>2. CASE seq <= imported
    <3>1. Among(item.id, inbox)
      BY <1>4, <2>2 DEF Importable
    <3>2. imported' = imported
      BY <1>2, <2>1, <2>2 DEF Larger
    <3>3. ~(seq = imported + 1)
      BY <1>2, <2>2
    <3> HIDE DEF seq, item, verdict
    <3>4. inbox' = inbox /\ decided' = decided
      BY <2>1, <2>2, <3>1 DEF InboxWith
    <3> QED BY <2>1, <2>2, <3>2, <3>3, <3>4, <1>1 DEF seq, item, verdict
  <2>3. CASE seq = imported + 1
    <3>1. ~Among(item.id, inbox)
      <4> SUFFICES ASSUME NEW i \in DOMAIN inbox, inbox[i] = item.id PROVE FALSE
        BY DEF Among
      <4>1. i \in 1 .. imported
        BY DEF CopyInv, TypeOK
      <4>2. inbox[i] = queue[i].id /\ imported <= Len(queue) /\ Len(queue) \in Nat
        BY <4>1 DEF CopyInv, TypeOK
      <4>3. i = seq
        <5>1. i \in 1 .. Len(queue)
          BY <4>1, <4>2, <1>2
        <5> QED BY <4>2, <5>1, <1>1 DEF CopyInv
      <4> QED BY <4>1, <4>3, <2>3, <1>2
    <3>2. imported' = imported + 1 /\ ~(seq <= imported)
      BY <1>2, <2>1, <2>3 DEF Larger
    <3> HIDE DEF seq, item, verdict
    <3>3. inbox' = Append(inbox, item.id) /\ decided' = Append(decided, verdict)
      BY <2>1, <3>1, <3>2 DEF InboxWith
    <3> QED BY <2>1, <2>3, <3>2, <3>3, <1>1 DEF seq, item, verdict
  <2>4. seq <= imported \/ seq = imported + 1
    BY <1>4 DEF Importable
  <2> QED BY <2>2, <2>3, <2>4
<1> QED BY <1>3, <1>4

\* A call acknowledges only what home has imported.
LEMMA CallsInv ==
  ASSUME TypeOK, PageInv, CallInv, NEW r \in acks \cup {AckCall}
  PROVE  /\ r \in AckRequest /\ r.through <= imported
         /\ TrueVerdicts(r.through, r.verdicts)
<1>1. CASE r \in acks
  BY <1>1 DEF TypeOK, CallInv
<1>2. CASE r = AckCall
  BY <1>2, AckCallType DEF AckCall, PageInv, CallInv
<1> QED BY <1>1, <1>2

\* What the agent's steps do to the queue.
LEMMA AgentCases ==
  ASSUME TypeOK, CopyInv, Careful, Agent
  PROVE  /\ UNCHANGED <<acked, attachment, mailboxVars, homeVars, sync, calls, crashes>>
         /\ minted' = minted + 1 /\ minted < MaxIds
         /\ \E kind \in Kinds :
              \/ queue' = Append(queue, New(kind))
              \/ \E i \in 1 .. Len(queue) :
                   /\ queue' = [queue EXCEPT ![i] = New(kind)]
                   /\ Unseen(i)
<1>1. ASSUME NEW kind \in Kinds, NEW i \in DOMAIN queue, TakePlace(kind, i)
      PROVE  Unseen(i) /\ i \in 1 .. Len(queue)
  BY <1>1 DEF TakePlace, Careful, TypeOK
<1> QED BY <1>1 DEF Agent, Enqueue, TakePlace

\* The queue only grows, or changes beyond what home has seen.
LEMMA QueueAfter ==
  ASSUME TypeOK, CopyInv, PageInv, Careful, Agent
  PROVE  /\ Len(queue') \in Nat /\ Len(queue) <= Len(queue')
         /\ \A i \in 1 .. imported : i \in 1 .. Len(queue) /\ queue'[i] = queue[i]
         /\ \A i \in 1 .. Len(sync.items) : queue'[sync.start + i] = queue[sync.start + i]
         /\ \A i, j \in 1 .. Len(queue') : queue'[i].id = queue'[j].id => i = j
         /\ \A i \in 1 .. Len(queue') : queue'[i].id \in 1 .. minted'
<1>1. PICK kind \in Kinds :
              \/ queue' = Append(queue, New(kind))
              \/ \E i \in 1 .. Len(queue) :
                   /\ queue' = [queue EXCEPT ![i] = New(kind)]
                   /\ Unseen(i)
  BY AgentCases
<1>2. minted' = minted + 1 /\ minted \in Nat /\ imported \in Nat /\ Len(queue) \in Nat
  BY AgentCases DEF TypeOK
<1>3. New(kind).id = minted + 1 /\ New(kind) \in Item
  BY <1>2, Constants DEF New, Item
<1>4. sync.start \in Nat /\ Len(sync.items) \in Nat
  <2>1. sync.start \in Nat /\ sync.items \in Seq(Item)
    BY SyncFields
  <2> QED BY <2>1
<1>5. queue \in Seq(Item)
  BY DEF TypeOK
<1>6. /\ imported <= Len(queue)
      /\ \A i, j \in 1 .. Len(queue) : queue[i].id = queue[j].id => i = j
      /\ \A i \in 1 .. Len(queue) : queue[i].id \in 1 .. minted
      /\ sync.start + Len(sync.items) <= Len(queue)
  BY DEF CopyInv, PageInv
<1> HIDE DEF New
<1>7. CASE queue' = Append(queue, New(kind))
  <2>1. /\ Len(queue') = Len(queue) + 1
        /\ \A i \in 1 .. Len(queue) : queue'[i] = queue[i]
        /\ queue'[Len(queue) + 1] = New(kind)
    BY <1>3, <1>5, <1>7, AppendProperties
  <2>2. \A i \in 1 .. Len(queue') : i \in 1 .. Len(queue) \/ i = Len(queue) + 1
    BY <1>2, <2>1
  <2>3. ASSUME NEW i \in 1 .. Len(queue') PROVE queue'[i].id \in 1 .. minted'
    BY <1>2, <1>3, <1>6, <2>1, <2>2
  <2>4. ASSUME NEW i \in 1 .. Len(queue'), NEW j \in 1 .. Len(queue'), queue'[i].id = queue'[j].id
        PROVE  i = j
    <3>1. CASE i \in 1 .. Len(queue) /\ j \in 1 .. Len(queue)
      BY <2>1, <2>4, <3>1, <1>6
    <3>2. CASE i \in 1 .. Len(queue) /\ j = Len(queue) + 1
      BY <2>1, <2>4, <3>2, <1>2, <1>3, <1>6
    <3>3. CASE j \in 1 .. Len(queue) /\ i = Len(queue) + 1
      BY <2>1, <2>4, <3>3, <1>2, <1>3, <1>6
    <3> QED BY <2>2, <3>1, <3>2, <3>3
  <2>5. ASSUME NEW i \in 1 .. imported PROVE i \in 1 .. Len(queue) /\ queue'[i] = queue[i]
    BY <1>2, <1>6, <2>1
  <2>6. ASSUME NEW i \in 1 .. Len(sync.items) PROVE queue'[sync.start + i] = queue[sync.start + i]
    <3>1. sync.start + i \in 1 .. Len(queue)
      BY <1>2, <1>4, <1>6
    <3> QED BY <2>1, <3>1
  <2> QED BY <1>2, <2>1, <2>3, <2>4, <2>5, <2>6
<1>8. ASSUME NEW k \in 1 .. Len(queue), queue' = [queue EXCEPT ![k] = New(kind)], Unseen(k)
      PROVE  /\ Len(queue') \in Nat /\ Len(queue) <= Len(queue')
             /\ \A i \in 1 .. imported : i \in 1 .. Len(queue) /\ queue'[i] = queue[i]
             /\ \A i \in 1 .. Len(sync.items) : queue'[sync.start + i] = queue[sync.start + i]
             /\ \A i, j \in 1 .. Len(queue') : queue'[i].id = queue'[j].id => i = j
             /\ \A i \in 1 .. Len(queue') : queue'[i].id \in 1 .. minted'
  <2>1. /\ Len(queue') = Len(queue)
        /\ \A i \in 1 .. Len(queue) : queue'[i] = IF i = k THEN New(kind) ELSE queue[i]
    BY <1>3, <1>5, <1>8, ExceptSeq
  <2>2. k > imported /\ k > sync.start + Len(sync.items)
    BY <1>8 DEF Unseen
  <2>3. ASSUME NEW i \in 1 .. Len(queue') PROVE queue'[i].id \in 1 .. minted'
    BY <1>2, <1>3, <1>6, <2>1
  <2>4. ASSUME NEW i \in 1 .. Len(queue'), NEW j \in 1 .. Len(queue'), queue'[i].id = queue'[j].id
        PROVE  i = j
    <3>1. queue[i].id < minted + 1 /\ queue[j].id < minted + 1
      BY <1>2, <1>6, <2>1
    <3> QED BY <2>1, <2>4, <3>1, <1>3, <1>6, <1>2
  <2>5. ASSUME NEW i \in 1 .. imported PROVE i \in 1 .. Len(queue) /\ queue'[i] = queue[i]
    BY <1>2, <1>6, <2>1, <2>2
  <2>6. ASSUME NEW i \in 1 .. Len(sync.items) PROVE queue'[sync.start + i] = queue[sync.start + i]
    <3>1. sync.start + i \in 1 .. Len(queue) /\ sync.start + i # k
      BY <1>2, <1>4, <1>6, <2>2
    <3> QED BY <2>1, <3>1
  <2> QED BY <1>2, <2>1, <2>3, <2>4, <2>5, <2>6
<1> QED BY <1>1, <1>7, <1>8

LEMMA CopyStep == IInv /\ Careful /\ [Next]_vars => CopyInv'
<1> SUFFICES ASSUME TypeOK, RelayInv, Careful, [Next]_vars PROVE CopyInv'
  BY DEF IInv
<1>1. CopyInv /\ PageInv /\ CallInv
  BY DEF RelayInv
<1>2. acked' = acked \/ (acked' <= imported /\ UNCHANGED <<queue, minted, imported, inbox, decided>>)
  <2>1. ASSUME NEW r \in acks \cup {AckCall}, AckHandled(r) PROVE acked' <= imported
    <3>1. acked' \in {acked, Larger(acked, r.through)} /\ r.through <= imported /\ acked <= imported
      BY <1>1, <2>1, CallsInv DEF AckHandled, CopyInv
    <3> QED BY <3>1 DEF Larger
  <2>2. RemoteStop => acked' = acked
    BY DEF RemoteStop
  <2> QED BY <2>1, <2>2, AckFrame DEF AckHandled
<1>3. CASE Agent
  <2>1. UNCHANGED <<acked, imported, inbox, decided>>
    BY <1>1, <1>3, AgentCases DEF homeVars, importVars
  <2>2. imported \in Nat /\ Len(queue) \in Nat
    BY DEF TypeOK
  <2>3. /\ Len(inbox) = imported /\ Len(decided) = imported
        /\ acked <= imported /\ imported <= Len(queue)
        /\ \A i \in 1 .. imported : inbox[i] = queue[i].id
    BY <1>1 DEF CopyInv
  <2>4. /\ Len(queue') \in Nat /\ Len(queue) <= Len(queue')
        /\ \A i \in 1 .. imported : queue'[i] = queue[i]
        /\ \A i, j \in 1 .. Len(queue') : queue'[i].id = queue'[j].id => i = j
        /\ \A i \in 1 .. Len(queue') : queue'[i].id \in 1 .. minted'
    BY <1>1, <1>3, QueueAfter
  <2>5. imported <= Len(queue')
    BY <2>2, <2>3, <2>4
  <2> QED BY <2>1, <2>3, <2>4, <2>5 DEF CopyInv
<1>4. CASE ImportItem
  <2>1. UNCHANGED <<queue, acked, minted>>
    BY <1>4 DEF ImportItem, workerVars
  <2>2. CASE UNCHANGED <<imported, inbox, decided>>
    BY <1>1, <2>1, <2>2 DEF CopyInv
  <2>3. CASE ~UNCHANGED <<imported, inbox, decided>>
    <3> DEFINE seq == Cursor + 1
               verdict == IF queue[seq].kind \in Report THEN Verdict(queue[seq].kind) ELSE "none"
    <3>1. /\ seq = imported + 1 /\ seq \in 1 .. Len(queue)
          /\ imported' = imported + 1
          /\ inbox' = Append(inbox, queue[seq].id) /\ decided' = Append(decided, verdict)
      BY <1>1, <1>4, <2>3, ImportCases
    <3>2. inbox \in Seq(Nat) /\ decided \in Seq(Verdicts \cup {"none"})
          /\ imported \in Nat /\ acked \in Nat
      BY DEF TypeOK
    <3> HIDE DEF seq, verdict
    <3>3. Len(inbox') = imported' /\ Len(decided') = imported'
          /\ acked <= imported' /\ imported' <= Len(queue)
      BY <1>1, <3>1, <3>2 DEF CopyInv
    <3>4. ASSUME NEW i \in 1 .. imported' PROVE inbox'[i] = queue[i].id
      <4>1. CASE i \in 1 .. imported
        BY <1>1, <3>1, <3>2, <4>1 DEF CopyInv
      <4>2. CASE i = imported + 1
        BY <1>1, <3>1, <3>2, <4>2 DEF CopyInv
      <4>3. i \in 1 .. imported \/ i = imported + 1
        BY <3>1, <3>2
      <4> QED BY <4>1, <4>2, <4>3
    <3> QED BY <1>1, <2>1, <3>3, <3>4 DEF CopyInv
  <2> QED BY <2>2, <2>3
<1>5. CASE UNCHANGED <<queue, minted, imported, inbox, decided>>
  BY <1>1, <1>2, <1>5 DEF CopyInv
<1> QED BY <1>3, <1>4, <1>5, CopiesFrame

\* The cursor of the queue's copy only grows, and what was decided stays.
LEMMA ImportedGrows ==
  ASSUME TypeOK, RelayInv, Careful, [Next]_vars
  PROVE  /\ imported \in Nat /\ imported' \in Nat /\ imported <= imported'
         /\ \A i \in 1 .. imported : queue'[i] = queue[i] /\ decided'[i] = decided[i]
<1>1. CopyInv /\ PageInv /\ imported \in Nat /\ decided \in Seq(Verdicts \cup {"none"})
  BY DEF RelayInv, TypeOK
<1>2. CASE Agent
  <2>1. UNCHANGED <<imported, decided>>
    BY <1>1, <1>2, AgentCases DEF homeVars, importVars
  <2> QED BY <1>1, <1>2, <2>1, QueueAfter
<1>3. CASE ImportItem
  <2>1. UNCHANGED queue
    BY <1>3 DEF ImportItem, workerVars
  <2>2. \/ UNCHANGED <<imported, decided>>
        \/ imported' = imported + 1 /\ \E v : decided' = Append(decided, v) /\ v \in Verdicts \cup {"none"}
    <3> DEFINE verdict == IF queue[Cursor + 1].kind \in Report THEN Verdict(queue[Cursor + 1].kind)
                          ELSE "none"
    <3>1. verdict \in Verdicts \cup {"none"}
      BY DEF Verdict, Verdicts, Report, Outcome
    <3>2. \/ UNCHANGED <<imported, decided>>
          \/ imported' = imported + 1 /\ decided' = Append(decided, verdict)
      BY <1>1, <1>3, ImportCases
    <3> QED BY <3>1, <3>2
  <2>3. Len(decided) = imported
    BY <1>1 DEF CopyInv
  <2> QED BY <1>1, <2>1, <2>2, <2>3
<1>4. CASE UNCHANGED <<queue, minted, imported, inbox, decided>>
  BY <1>1, <1>4
<1> QED BY <1>2, <1>3, <1>4, CopiesFrame

LEMMA PageStep == IInv /\ Careful /\ [Next]_vars => PageInv'
<1> SUFFICES ASSUME TypeOK, RelayInv, Careful, [Next]_vars PROVE PageInv'
  BY DEF IInv
<1>1. CopyInv /\ PageInv
  BY DEF RelayInv
<1>2. /\ sync.done \in Nat /\ sync.start \in Nat /\ sync.items \in Seq(Item)
      /\ Len(sync.items) \in Nat /\ Cursor \in Nat
  <2>1. sync.done \in Nat /\ sync.start \in Nat /\ sync.items \in Seq(Item) /\ Cursor \in Nat
    BY SyncFields
  <2> QED BY <2>1
<1>3. queue \in Seq(Item) /\ Len(queue) \in Nat /\ imported \in Nat /\ acked \in Nat
  BY DEF TypeOK
<1>4. CASE Pull
  <2>1. /\ sync'.start = Start /\ sync'.items = Page /\ sync'.done = 0
        /\ UNCHANGED <<queue, imported>>
    BY <1>4 DEF Pull, workerVars, homeVars, importVars
  <2>2. acked <= imported /\ imported <= Len(queue)
    BY <1>1 DEF CopyInv
  <2>3. /\ Start \in Nat /\ Start <= imported
        /\ Start + Len(Page) <= Len(queue)
        /\ \A i \in 1 .. Len(Page) : Page[i] = queue[Start + i]
    <3>1. CASE Page = << >>
      BY <1>3, <2>2, <3>1 DEF Start
    <3>2. CASE Page # << >>
      BY <1>3, <2>2, <3>2, PageFacts DEF Start
    <3> QED BY <3>1, <3>2
  <2>4. Len(Page) \in Nat
    BY PageFacts
  <2> HIDE DEF Page, Start
  <2> QED BY <2>1, <2>3, <2>4 DEF PageInv, Cursor
<1>5. CASE ImportItem
  <2>1. UNCHANGED queue
    BY <1>5 DEF ImportItem, workerVars
  <2>2. CASE sync' = Idle
    BY <1>3, <2>1, <2>2, ImportedGrows DEF PageInv, Cursor, Idle
  <2>3. CASE sync' # Idle
    <3>1. PICK V : sync' = [sync EXCEPT !.done = sync.done + 1, !.verdicts = V]
      BY <1>1, <1>5, <2>3, ImportCases
    <3>2. sync'.start = sync.start /\ sync'.items = sync.items /\ sync'.done = sync.done + 1
      BY <3>1 DEF TypeOK, Sync
    <3>3. Cursor + 1 <= imported'
      <4>1. \/ Cursor + 1 <= imported
            \/ Cursor + 1 = imported + 1 /\ imported' = imported + 1
        BY <1>1, <1>5, <2>3, ImportCases
      <4> QED BY <1>2, <4>1, ImportedGrows
    <3>4. sync.done < Len(sync.items)
      BY <1>5 DEF ImportItem
    <3>5. sync'.done <= Len(sync'.items) /\ Cursor' = Cursor + 1
      BY <1>2, <3>2, <3>4 DEF Cursor
    <3> QED BY <1>1, <2>1, <3>2, <3>3, <3>5 DEF PageInv
  <2> QED BY <2>2, <2>3
<1>6. CASE NoPage
  <2>1. imported' \in Nat /\ Len(queue') \in Nat
    <3>1. TypeOK'
      BY TypeStep
    <3> QED BY <3>1 DEF TypeOK
  <2> QED BY <1>6, <2>1 DEF NoPage, PageInv, Cursor
<1>7. CASE SamePage /\ ~Pull /\ ~ImportItem
  <2>1. /\ Len(queue') \in Nat /\ Len(queue) <= Len(queue')
        /\ \A i \in 1 .. Len(sync.items) : queue'[sync.start + i] = queue[sync.start + i]
    <3>1. CASE Agent
      BY <1>1, <3>1, QueueAfter
    <3>2. CASE ~Agent
      BY <1>3, <1>7, <3>2, CopiesFrame
    <3> QED BY <3>1, <3>2
  <2>2. imported <= imported' /\ imported' \in Nat
    BY ImportedGrows
  <2>3. /\ sync.done <= Len(sync.items) /\ Cursor <= imported
        /\ sync.start + Len(sync.items) <= Len(queue)
        /\ \A i \in 1 .. Len(sync.items) : sync.items[i] = queue[sync.start + i]
    BY <1>1 DEF PageInv
  <2>4. sync'.start = sync.start /\ sync'.items = sync.items /\ sync'.done = sync.done
    BY <1>7 DEF SamePage
  <2>5. Cursor' <= imported' /\ sync'.start + Len(sync'.items) <= Len(queue')
    BY <1>2, <1>3, <2>1, <2>2, <2>3, <2>4 DEF Cursor
  <2> QED BY <2>1, <2>3, <2>4, <2>5 DEF PageInv
<1> QED BY <1>4, <1>5, <1>6, <1>7, PageFrame

\* The verdict of an import is the one decided when the item was first imported.
LEMMA ReplayVerdict ==
  ASSUME TypeOK, CopyInv, PageInv, VerdictInv, ImportItem, Cursor + 1 <= imported,
         queue[Cursor + 1].kind \in Report
  PROVE  decided[Cursor + 1] = Verdict(queue[Cursor + 1].kind)
<1> DEFINE seq == Cursor + 1
<1>1. seq \in 1 .. imported /\ seq > sync.start
  <2>1. Cursor \in Nat /\ sync.start \in Nat /\ sync.done \in Nat /\ imported \in Nat
    BY SyncFields DEF TypeOK
  <2> QED BY <2>1 DEF Cursor
<1>2. sync.phase = "importing"
  BY DEF ImportItem
<1>3. CASE home # "replaced"
  BY <1>1, <1>3 DEF VerdictInv
<1>4. CASE home = "replaced"
  <2>1. decided[seq] = "rejected"
    BY <1>1, <1>2, <1>4 DEF VerdictInv, Replayed
  <2>2. queue[seq].kind # "replaced"
    BY DEF Report, Outcome
  <2> QED BY <1>4, <2>1, <2>2 DEF Verdict
<1> QED BY <1>3, <1>4

\* True verdicts stay true.
StillTrue(n, V) ==
  \A t \in V : t[1] \in 1 .. n /\ t[1] <= imported' /\ queue'[t[1]].kind \in Report
               /\ decided'[t[1]] = t[2]

LEMMA TrueVerdictsStep ==
  ASSUME TypeOK, RelayInv, Careful, [Next]_vars
  PROVE  \A n, m \in Nat : \A V : n <= m /\ TrueVerdicts(n, V) => StillTrue(m, V)
<1> SUFFICES ASSUME NEW n \in Nat, NEW m \in Nat, n <= m, NEW V, TrueVerdicts(n, V),
                    NEW t \in V
             PROVE  t[1] \in 1 .. m /\ t[1] <= imported' /\ queue'[t[1]].kind \in Report
                    /\ decided'[t[1]] = t[2]
  BY Zenon DEF StillTrue
<1>1. t[1] \in 1 .. n /\ t[1] <= imported /\ queue[t[1]].kind \in Report /\ decided[t[1]] = t[2]
  BY DEF TrueVerdicts
<1>2. imported \in Nat /\ imported' \in Nat /\ imported <= imported'
  BY ImportedGrows
<1>3. t[1] \in 1 .. imported
  BY <1>1, <1>2
<1> QED BY <1>1, <1>2, <1>3, ImportedGrows

LEMMA CallStep == IInv /\ Careful /\ [Next]_vars => CallInv'
<1> SUFFICES ASSUME TypeOK, RelayInv, Careful, [Next]_vars PROVE CallInv'
  BY DEF IInv
<1>1. CopyInv /\ PageInv /\ CallInv /\ VerdictInv
  BY DEF RelayInv
<1>2. Cursor \in Nat /\ imported \in Nat /\ imported' \in Nat /\ imported <= imported'
  BY SyncFields, ImportedGrows
<1>3. ASSUME NEW r \in acks \cup {AckCall}
      PROVE  r.through <= imported' /\ StillTrue(r.through, r.verdicts)
  <2>1. r \in AckRequest /\ r.through <= imported /\ TrueVerdicts(r.through, r.verdicts)
    BY <1>1, CallsInv
  <2>2. r.through \in Nat
    BY <2>1 DEF AckRequest
  <2>3. StillTrue(r.through, r.verdicts)
    BY <2>1, <2>2, TrueVerdictsStep
  <2> QED BY <1>2, <2>1, <2>2, <2>3
<1>4. \A r \in receipts' : StillTrue(r.through, r.verdicts)
  <2>1. \A r \in receipts : StillTrue(r.through, r.verdicts)
    <3> SUFFICES ASSUME NEW r \in receipts PROVE StillTrue(r.through, r.verdicts)
      OBVIOUS
    <3>1. r.through \in Nat /\ TrueVerdicts(r.through, r.verdicts)
      BY <1>1 DEF CallInv, TypeOK, AckRequest
    <3> QED BY <3>1, TrueVerdictsStep
  <2>2. RemoteStop => receipts' = receipts
    BY DEF RemoteStop
  <2> QED BY <1>3, <2>1, <2>2, AckFrame DEF AckHandled
<1>5. \A r \in acks' : r.through <= imported' /\ StillTrue(r.through, r.verdicts)
  <2>1. Pull \/ ImportItem => acks' = acks
    BY DEF Pull, ImportItem, calls
  <2> QED BY <1>3, <2>1, PageFrame
<1>6. StillTrue(Cursor', sync'.verdicts)
  <2>1. TrueVerdicts(Cursor, sync.verdicts)
    BY <1>1 DEF CallInv
  <2>2. CASE sync'.verdicts = {}
    BY <2>2 DEF StillTrue
  <2>3. CASE SamePage
    <3>1. Cursor' = Cursor /\ sync'.verdicts = sync.verdicts
      BY <2>3 DEF SamePage, Cursor
    <3> QED BY <1>2, <2>1, <3>1, TrueVerdictsStep
  <2>4. CASE ImportItem /\ sync'.verdicts # {}
    <3> DEFINE seq == Cursor + 1
               verdict == IF queue[seq].kind \in Report THEN Verdict(queue[seq].kind) ELSE "none"
               V == IF verdict = "none" THEN sync.verdicts ELSE sync.verdicts \cup {<<seq, verdict>>}
    <3>1. sync' # Idle /\ UNCHANGED queue
      BY <2>4 DEF Idle, ImportItem, workerVars
    <3>2. /\ sync' = [sync EXCEPT !.done = sync.done + 1, !.verdicts = V]
          /\ seq \in 1 .. Len(queue)
          /\ seq <= imported \/ seq = imported + 1
          /\ seq <= imported => UNCHANGED <<imported, inbox, decided>>
          /\ seq = imported + 1 => imported' = imported + 1 /\ decided' = Append(decided, verdict)
      BY <1>1, <2>4, <3>1, ImportCases
    <3>3. seq \in Nat /\ Cursor <= seq
      BY <1>2
    <3>4. Cursor' = seq /\ sync'.verdicts = V
      <4>1. sync'.start = sync.start /\ sync'.done = sync.done + 1 /\ sync'.verdicts = V
        BY <3>2 DEF TypeOK, Sync
      <4>2. sync.start \in Nat /\ sync.done \in Nat
        BY SyncFields
      <4> QED BY <4>1, <4>2 DEF Cursor
    <3>5. StillTrue(seq, sync.verdicts)
      BY <1>2, <2>1, <3>3, TrueVerdictsStep
    <3>6. verdict # "none" =>
            seq \in 1 .. seq /\ seq <= imported' /\ queue'[seq].kind \in Report
            /\ decided'[seq] = verdict
      <4> SUFFICES ASSUME verdict # "none" PROVE seq <= imported' /\ decided'[seq] = verdict
        BY <3>1, <3>2
      <4>1. queue[seq].kind \in Report
        OBVIOUS
      <4>2. CASE seq <= imported
        BY <1>1, <2>4, <3>2, <4>1, <4>2, ReplayVerdict
      <4>3. CASE seq = imported + 1
        <5>1. decided \in Seq(Verdicts \cup {"none"}) /\ Len(decided) = imported
          BY <1>1 DEF CopyInv, TypeOK
        <5> HIDE DEF seq, verdict
        <5> QED BY <1>2, <3>2, <4>3, <5>1
      <4> QED BY <3>2, <4>2, <4>3
    <3> HIDE DEF seq, verdict
    <3>7. StillTrue(seq, V)
      BY <3>5, <3>6 DEF StillTrue
    <3> QED BY <3>4, <3>7
  <2>5. Pull => sync'.verdicts = {}
    BY DEF Pull
  <2> QED BY <2>2, <2>3, <2>4, <2>5, PageFrame DEF NoPage
<1> QED BY <1>4, <1>5, <1>6 DEF CallInv, TrueVerdicts, StillTrue

\* What home does to the dispatch, beside the settlement by a report.
LEMMA HomeFrame ==
  ASSUME [Next]_vars
  PROVE  \/ HomeReady \/ HomeStops \/ HomeLearnsStop \/ Retry \/ ImportItem
         \/ UNCHANGED home
<1> USE DEF homeVars
<1>1. CASE AgentStep
  BY <1>1 DEF AgentStep, Enqueue, TakePlace
<1>2. CASE HomeStep
  BY <1>2 DEF HomeStep, SendMail
<1>3. CASE SyncStep
  BY <1>3 DEF SyncStep, Pull, FinishPage, AnswerAck, AnswerMail
<1>4. CASE WorkerStep
  BY <1>4 DEF WorkerStep, RemoteStop, LoseAnswer, TearAck, ImportMail, TearMail
<1>5. CASE CallFails \/ CrashHome \/ CrashWorker \/ UNCHANGED vars
  BY <1>5 DEF CallFails, CrashHome, CrashWorker, vars
<1> QED BY <1>1, <1>2, <1>3, <1>4, <1>5 DEF Next

\* Which items may be imported again grows only with the items not yet imported.
LEMMA ReplayedStep ==
  ASSUME TypeOK, RelayInv, [Next]_vars, NEW i \in 1 .. imported, Replayed(i)'
  PROVE  Replayed(i)
<1>1. CopyInv /\ PageInv /\ CallInv
  BY DEF RelayInv
<1>2. acked \in Nat /\ acked' \in Nat /\ acked <= acked' /\ imported \in Nat /\ sync.start \in Nat
  <2>1. acked \in Nat /\ imported \in Nat /\ sync.start \in Nat
    BY SyncFields DEF TypeOK
  <2>2. ASSUME NEW r \in acks \cup {AckCall}, AckHandled(r) PROVE acked' \in Nat /\ acked <= acked'
    <3>1. r.through \in Nat /\ acked' \in {acked, Larger(acked, r.through)}
      BY <1>1, <2>2, CallsInv DEF AckHandled, AckRequest
    <3> QED BY <2>1, <3>1 DEF Larger
  <2>3. RemoteStop => acked' = acked
    BY DEF RemoteStop
  <2> QED BY <2>1, <2>2, <2>3, AckFrame
<1>3. i > acked' => i > acked
  BY <1>2
<1>4. CASE sync'.phase = "importing" /\ i > sync'.start
  <2>1. CASE Pull
    <3>1. sync'.start = Start
      BY <2>1 DEF Pull
    <3> QED BY <1>2, <1>4, <3>1 DEF Start, Replayed
  <2>2. CASE ImportItem
    <3>1. sync' # Idle
      BY <1>4 DEF Idle
    <3>2. PICK V : sync' = [sync EXCEPT !.done = sync.done + 1, !.verdicts = V]
      BY <1>1, <2>2, <3>1, ImportCases
    <3>3. sync'.start = sync.start /\ sync'.phase = sync.phase
      BY <3>2 DEF TypeOK, Sync
    <3> QED BY <1>4, <3>3 DEF Replayed
  <2>3. CASE SamePage
    BY <1>4, <2>3 DEF SamePage, Replayed
  <2>4. ~NoPage
    BY <1>4 DEF NoPage
  <2> QED BY <2>1, <2>2, <2>3, <2>4, PageFrame
<1> QED BY <1>3, <1>4 DEF Replayed

\* The verdict on an imported item agrees with the state of the dispatch.
Agrees(i) ==
  IF queue[i].kind \notin Report THEN decided[i] = "none"
  ELSE /\ home = "ready" => queue[i].kind = "stray"
       /\ home # "replaced" => decided[i] = Verdict(queue[i].kind)
       /\ home = "replaced" => /\ decided[i] \in {"failed", "rejected"}
                               /\ Replayed(i) => decided[i] = "rejected"

LEMMA VerdictStep == IInv /\ Careful /\ [Next]_vars => VerdictInv'
<1> SUFFICES ASSUME TypeOK, RelayInv, Careful, [Next]_vars PROVE VerdictInv'
  BY DEF IInv
<1>1. CopyInv /\ PageInv /\ VerdictInv
  BY DEF RelayInv
<1>2. \A i \in 1 .. imported : Agrees(i)
  BY <1>1 DEF VerdictInv, Agrees
<1>3. home = "starting" => imported = 0
  BY <1>1 DEF VerdictInv
<1>4. imported \in Nat /\ imported' \in Nat
  BY ImportedGrows
<1> SUFFICES /\ home' = "starting" => imported' = 0
             /\ \A i \in 1 .. imported' : Agrees(i)'
  BY DEF VerdictInv, Agrees
<1>5. ASSUME UNCHANGED home, NEW i \in 1 .. imported PROVE Agrees(i)'
  <2>1. Agrees(i) /\ queue'[i] = queue[i] /\ decided'[i] = decided[i]
    BY <1>2, ImportedGrows
  <2>2. Replayed(i)' => Replayed(i)
    BY ReplayedStep
  <2> QED BY <1>5, <2>1, <2>2 DEF Agrees, Verdict
<1>6. ASSUME NEW from, NEW to, AtHome(from, to)
      PROVE  /\ home \in from /\ home' = to
             /\ UNCHANGED <<queue, acked, imported, decided, sync>>
  BY <1>6 DEF AtHome, workerVars, importVars
<1>7. CASE HomeReady
  <2>1. home = "starting" /\ home' = "ready" /\ imported' = imported
    BY <1>6, <1>7 DEF HomeReady
  <2> QED BY <1>3, <2>1
<1>8. CASE HomeStops \/ HomeLearnsStop
  <2>1. /\ home \in {"starting", "ready", "stopping"} /\ home' \in {"stopping", "stopped"}
        /\ UNCHANGED <<queue, acked, imported, decided, sync>>
    BY <1>6, <1>8 DEF HomeStops, HomeLearnsStop, Active
  <2>2. ASSUME NEW i \in 1 .. imported PROVE Agrees(i)'
    <3>1. Agrees(i) /\ home # "starting"
      BY <1>2, <1>3
    <3>2. queue[i].kind \in Report => Verdict(queue[i].kind) = "rejected"
      BY <2>1, <3>1 DEF Agrees, Verdict, Report, Outcome
    <3>3. queue[i].kind \in Report => Verdict(queue[i].kind)' = "rejected"
      BY <2>1 DEF Verdict, Report, Outcome
    <3> QED BY <2>1, <3>1, <3>2, <3>3 DEF Agrees
  <2> QED BY <2>1, <2>2
<1>9. CASE Retry
  <2>1. /\ home = "failed" /\ home' = "replaced" /\ sync.phase = "idle" /\ acked = imported
        /\ UNCHANGED <<queue, acked, imported, decided, sync>>
    BY <1>6, <1>9 DEF Retry, Careful
  <2>2. ASSUME NEW i \in 1 .. imported PROVE Agrees(i)'
    <3>1. Agrees(i) /\ ~Replayed(i)'
      BY <1>2, <1>4, <2>1 DEF Replayed
    <3> QED BY <2>1, <3>1 DEF Agrees, Verdict
  <2> QED BY <2>1, <2>2
<1>10. CASE ImportItem
  <2>0. PICK seq \in Nat : seq = Cursor + 1
    BY SyncFields
  <2> DEFINE kind == queue[seq].kind
             verdict == IF kind \in Report THEN Verdict(kind) ELSE "none"
  <2>1. UNCHANGED queue /\ home # "starting"
    BY <1>10 DEF ImportItem, workerVars, Careful
  <2>2. CASE UNCHANGED <<imported, inbox, decided, home>>
    BY <1>3, <1>5, <2>2
  <2>3. CASE ~UNCHANGED <<imported, inbox, decided, home>>
    <3>1. /\ seq \in 1 .. Len(queue)
          /\ seq <= imported \/ seq = imported + 1
          /\ home' = IF kind \in Report THEN Decide(kind) ELSE home
          /\ seq <= imported => UNCHANGED <<imported, inbox, decided>>
          /\ seq = imported + 1 => imported' = imported + 1 /\ decided' = Append(decided, verdict)
      BY <1>1, <1>10, <2>0, <2>3, ImportCases
    <3>2. \/ home' = home /\ (kind \in Report /\ home = "ready" => kind = "stray" \/ seq <= imported)
          \/ home = "ready" /\ home' = kind /\ kind \in Outcome /\ seq = imported + 1
      <4>1. CASE kind \notin Report
        BY <3>1, <4>1
      <4>2. CASE kind \in Report /\ seq <= imported
        <5>1. Agrees(seq)
          BY <1>2, <3>1, <4>2
        <5>2. home # "ready" \/ kind = "stray"
          BY <4>2, <5>1 DEF Agrees
        <5> QED BY <3>1, <4>2, <5>2 DEF Decide, Verdict, Outcome
      <4>3. CASE kind \in Report /\ seq = imported + 1
        BY <3>1, <4>3 DEF Decide, Verdict, Report, Outcome
      <4> QED BY <3>1, <4>1, <4>2, <4>3
    <3>3. home' # "starting" /\ (home' = "replaced" => home = "replaced")
      BY <2>1, <3>2 DEF Outcome
    <3>4. ASSUME NEW i \in 1 .. imported PROVE Agrees(i)'
      <4>1. Agrees(i) /\ queue'[i] = queue[i] /\ decided'[i] = decided[i]
        BY <1>2, ImportedGrows
      <4>2. CASE UNCHANGED home
        BY <1>5, <4>2
      <4>3. CASE home = "ready" /\ home' = kind /\ kind \in Outcome
        BY <4>1, <4>3 DEF Agrees, Verdict, Outcome
      <4> QED BY <3>2, <4>2, <4>3
    <3>5. ASSUME seq = imported + 1 PROVE Agrees(seq)'
      <4>1. decided'[seq] = verdict
        <5>1. decided \in Seq(Verdicts \cup {"none"}) /\ Len(decided) = imported
          BY <1>1 DEF CopyInv, TypeOK
        <5> HIDE DEF verdict
        <5> QED BY <1>4, <3>1, <3>5, <5>1
      <4>2. CASE kind \notin Report
        BY <2>1, <4>1, <4>2 DEF Agrees
      <4>3. CASE kind \in Report /\ home' = home
        <5>1. home = "ready" => kind = "stray"
          BY <1>4, <3>2, <3>5, <4>3 DEF Outcome
        <5>2. decided'[seq] = Verdict(kind) /\ queue'[seq].kind = kind
          BY <2>1, <4>1, <4>3
        <5>3. home = "replaced" => Verdict(kind) = "rejected"
          BY <4>3 DEF Verdict, Report, Outcome
        <5> HIDE DEF kind
        <5> QED BY <4>3, <5>1, <5>2, <5>3 DEF Agrees, Verdict
      <4>4. CASE home = "ready" /\ home' = kind /\ kind \in Outcome
        <5>1. decided'[seq] = kind /\ queue'[seq].kind = kind
          BY <2>1, <4>1, <4>4 DEF Verdict, Report, Outcome
        <5> HIDE DEF kind
        <5> QED BY <4>4, <5>1 DEF Agrees, Verdict, Outcome, Report
      <4> QED BY <3>2, <4>2, <4>3, <4>4
    <3>6. \A i \in 1 .. imported' : i \in 1 .. imported \/ (i = seq /\ seq = imported + 1)
      BY <1>4, <3>1
    <3> QED BY <3>3, <3>4, <3>5, <3>6
  <2> QED BY <2>2, <2>3
<1>11. CASE UNCHANGED home /\ ~ImportItem
  <2>1. imported' = imported
    BY <1>11, <1>1, CopiesFrame, AgentCases DEF homeVars, importVars
  <2> QED BY <1>3, <1>5, <1>11, <2>1
<1> QED BY <1>7, <1>8, <1>9, <1>10, <1>11, HomeFrame

\* What the steps do to the mail on either side.
LEMMA MailFrame ==
  ASSUME [Next]_vars
  PROVE  \/ SendMail
         \/ \E last \in mails : ImportMail(last) \/ TearMail(last)
         \/ AnswerMail
         \/ UNCHANGED <<mail, mailAcked, mailbox, mailCursor>>
<1> USE DEF workerVars, homeVars, mailboxVars
<1>1. CASE AgentStep
  BY <1>1 DEF AgentStep, Enqueue, TakePlace
<1>2. CASE HomeStep
  BY <1>2 DEF HomeStep, HomeReady, HomeStops, HomeLearnsStop, Retry, AtHome
<1>3. CASE SyncStep
  BY <1>3 DEF SyncStep, Pull, ImportItem, FinishPage, AnswerAck, Handle
<1>4. CASE WorkerStep
  BY <1>4 DEF WorkerStep, RemoteStop, LoseAnswer, TearAck, Handle
<1>5. CASE CallFails \/ CrashHome \/ CrashWorker \/ UNCHANGED vars
  BY <1>5 DEF CallFails, CrashHome, CrashWorker, vars
<1> QED BY <1>1, <1>2, <1>3, <1>4, <1>5 DEF Next

\* The mail a call hands over is mail that was sent.
LEMMA MailCalls ==
  ASSUME TypeOK, MailInv, [Next]_vars
  PROVE  sync'.last <= mail /\ \A last \in mails' : last <= mail
<1>1. /\ sync.last \in Nat /\ mail \in Nat /\ mailAcked \in Nat /\ PageSize \in Nat
      /\ sync.last <= mail /\ \A last \in mails : last <= mail
  BY SyncFields, Constants DEF MailInv, TypeOK
<1>2. UNCHANGED <<sync, mails>> => sync'.last <= mail /\ \A last \in mails' : last <= mail
  BY <1>1
<1>3. sync' = Idle \/ sync' = NextPage => sync'.last <= mail
  <2>1. Idle.last = 0 /\ NextPage.last = 0
    BY DEF Idle, NextPage
  <2> QED BY <1>1, <2>1
<1>4. ASSUME AfterAck PROVE sync'.last <= mail /\ \A last \in mails' : last <= mail
  <2>1. CASE home = "ready" /\ mailAcked < mail
    <3> DEFINE last == Smaller(mailAcked + PageSize, mail)
    <3>1. last <= mail
      BY <1>1 DEF Smaller
    <3>2. sync' = [sync EXCEPT !.phase = "mailing", !.last = last] /\ mails' = mails \cup {last}
      BY <1>4, <2>1 DEF AfterAck
    <3> HIDE DEF last
    <3>3. sync'.last = last
      BY <3>2 DEF TypeOK, Sync
    <3> QED BY <1>1, <3>1, <3>2, <3>3
  <2>2. CASE ~(home = "ready" /\ mailAcked < mail)
    BY <1>1, <1>3, <1>4, <2>2 DEF AfterAck
  <2> QED BY <2>1, <2>2
<1> USE DEF calls
<1>5. CASE AgentStep \/ HomeStep
  BY <1>2, <1>5 DEF AgentStep, Enqueue, TakePlace, HomeStep, HomeReady, HomeStops,
                    HomeLearnsStop, Retry, AtHome, SendMail
<1>6. CASE Pull
  <2>1. sync'.last = 0 /\ mails' = mails
    BY <1>6 DEF Pull
  <2> QED BY <1>1, <2>1
<1>7. CASE ImportItem
  <2>1. mails' = mails
    BY <1>7 DEF ImportItem
  <2>2. sync' = Idle \/ sync'.last = sync.last
    BY <1>7 DEF ImportItem, TypeOK, Sync
  <2> QED BY <1>1, <1>3, <2>1, <2>2
<1>8. CASE FinishPage
  <2>1. CASE Cursor > KnownAcked
    <3>1. sync' = [sync EXCEPT !.phase = "acking"] /\ mails' = mails
      BY <1>8, <2>1 DEF FinishPage
    <3>2. sync'.last = sync.last
      BY <3>1 DEF TypeOK, Sync
    <3> QED BY <1>1, <3>1, <3>2
  <2>2. CASE ~(Cursor > KnownAcked)
    BY <1>4, <1>8, <2>2 DEF FinishPage
  <2> QED BY <2>1, <2>2
<1>9. CASE AnswerAck
  BY <1>1, <1>3, <1>4, <1>9 DEF AnswerAck
<1>10. CASE AnswerMail \/ CallFails \/ CrashHome
  BY <1>1, <1>3, <1>10 DEF AnswerMail, CallFails, CrashHome
<1>11. CASE WorkerStep \/ CrashWorker \/ UNCHANGED vars
  BY <1>2, <1>11 DEF WorkerStep, RemoteStop, LoseAnswer, TearAck, ImportMail, TearMail,
                     CrashWorker, vars
<1> QED BY <1>5, <1>6, <1>7, <1>8, <1>9, <1>10, <1>11 DEF Next, SyncStep

\* An import of mail appends the next message, unless a torn call has done it.
LEMMA MailboxCases ==
  ASSUME TypeOK, MailInv, NEW last \in mails, mailCursor + 1 <= last
  PROVE  LET k == mailCursor + 1 IN
         /\ k \in 1 .. mail
         /\ \/ Len(mailbox) = k /\ MailboxWith(k) = mailbox
            \/ Len(mailbox) = mailCursor /\ MailboxWith(k) = Append(mailbox, k)
<1>1. /\ mailCursor \in Nat /\ mailbox \in Seq(Nat) /\ mail \in Nat /\ last \in Nat
      /\ Len(mailbox) \in Nat
  <2>1. mailCursor \in Nat /\ mailbox \in Seq(Nat) /\ mail \in Nat /\ mails \in SUBSET Nat
    BY DEF TypeOK
  <2> QED BY <2>1
<1>2. /\ last <= mail /\ mailCursor <= Len(mailbox) /\ Len(mailbox) <= mailCursor + 1
      /\ \A i \in 1 .. Len(mailbox) : mailbox[i] = i
  BY DEF MailInv
<1>3. CASE Len(mailbox) = mailCursor + 1
  <2>1. Among(mailCursor + 1, mailbox)
    BY <1>1, <1>2, <1>3 DEF Among
  <2> QED BY <1>1, <1>2, <1>3, <2>1 DEF MailboxWith
<1>4. CASE Len(mailbox) = mailCursor
  <2>1. ~Among(mailCursor + 1, mailbox)
    BY <1>1, <1>2, <1>4 DEF Among
  <2> QED BY <1>1, <1>2, <1>4, <2>1 DEF MailboxWith
<1> QED BY <1>1, <1>2, <1>3, <1>4

LEMMA MailStep == IInv /\ [Next]_vars => MailInv'
<1> SUFFICES ASSUME TypeOK, MailInv, [Next]_vars PROVE MailInv'
  BY DEF IInv, RelayInv
<1>1. /\ mail \in Nat /\ mailAcked \in Nat /\ mailCursor \in Nat /\ mailbox \in Seq(Nat)
      /\ Len(mailbox) \in Nat
  BY DEF TypeOK
<1>2. /\ mailAcked <= mailCursor /\ mailCursor <= Len(mailbox)
      /\ Len(mailbox) <= mailCursor + 1 /\ Len(mailbox) <= mail
      /\ \A i \in 1 .. Len(mailbox) : mailbox[i] = i
  BY DEF MailInv
<1>3. sync'.last <= mail /\ \A last \in mails' : last <= mail
  BY MailCalls
<1>4. CASE SendMail
  <2>1. UNCHANGED <<mailAcked, mailCursor, mailbox, sync, mails>> /\ mail' = mail + 1
    BY <1>4 DEF SendMail, workerVars, mailboxVars, calls
  <2>2. sync'.last <= mail + 1 /\ \A last \in mails' : last <= mail + 1
    <3>1. sync.last \in Nat /\ \A last \in mails : last \in Nat
      BY SyncFields DEF TypeOK
    <3> QED BY <1>1, <1>3, <2>1, <3>1
  <2> QED BY <1>1, <1>2, <2>1, <2>2 DEF MailInv
<1>5. ASSUME NEW last \in mails, ImportMail(last) \/ TearMail(last), mailbox' # mailbox \/ mailCursor' # mailCursor
      PROVE  MailInv'
  <2> DEFINE k == mailCursor + 1
  <2>1. /\ k <= last /\ mailbox' = MailboxWith(k) /\ mailCursor' \in {mailCursor, k}
        /\ UNCHANGED <<mail, mailAcked>>
    BY <1>5 DEF ImportMail, TearMail, homeVars
  <2>2. /\ k \in 1 .. mail
        /\ \/ Len(mailbox) = k /\ mailbox' = mailbox
           \/ Len(mailbox) = mailCursor /\ mailbox' = Append(mailbox, k)
    BY <2>1, MailboxCases
  <2>3. Len(mailbox') = k /\ \A i \in 1 .. Len(mailbox') : mailbox'[i] = i
    BY <1>1, <1>2, <2>2
  <2> QED BY <1>1, <1>2, <1>3, <2>1, <2>2, <2>3 DEF MailInv
<1>6. CASE AnswerMail
  <2>1. mailAcked' = Larger(mailAcked, mailCursor) /\ UNCHANGED <<mail, mailbox, mailCursor>>
    BY <1>6 DEF AnswerMail, workerVars, mailboxVars
  <2>2. mailAcked' <= mailCursor
    BY <1>1, <1>2, <2>1 DEF Larger
  <2> QED BY <1>2, <1>3, <2>1, <2>2 DEF MailInv
<1>7. CASE UNCHANGED <<mail, mailAcked, mailbox, mailCursor>>
  BY <1>2, <1>3, <1>7 DEF MailInv
<1>8. ASSUME NEW last \in mails, ImportMail(last) \/ TearMail(last) PROVE UNCHANGED <<mail, mailAcked>>
  BY <1>8 DEF ImportMail, TearMail, homeVars
<1> QED BY <1>4, <1>5, <1>6, <1>7, <1>8, MailFrame

\* The worker server settles the dispatch only as home has settled it.
LEMMA OutcomeIsHome ==
  ASSUME TypeOK, RelayInv, NEW r \in acks \cup {AckCall}, Outcomes(r) # {}
  PROVE  home = SettledRemote(r) \/ (SettledRemote(r) = "failed" /\ home = "replaced")
<1>1. CopyInv /\ PageInv /\ CallInv /\ VerdictInv
  BY DEF RelayInv
<1>2. PICK t \in r.verdicts : t[2] = SettledRemote(r) /\ SettledRemote(r) \in Outcome
  <2>1. SettledRemote(r) \in Outcomes(r)
    BY DEF SettledRemote
  <2> QED BY <2>1 DEF Outcomes
<1>3. r \in AckRequest /\ TrueVerdicts(r.through, r.verdicts) /\ imported \in Nat
  BY <1>1, CallsInv DEF TypeOK
<1>4. /\ t[1] \in 1 .. imported /\ queue[t[1]].kind \in Report
      /\ decided[t[1]] = SettledRemote(r)
  BY <1>2, <1>3 DEF TrueVerdicts, AckRequest
<1>5. /\ home = "ready" => queue[t[1]].kind = "stray"
      /\ home # "replaced" => decided[t[1]] = Verdict(queue[t[1]].kind)
      /\ home = "replaced" => decided[t[1]] \in {"failed", "rejected"}
  BY <1>1, <1>4 DEF VerdictInv
<1> QED BY <1>2, <1>4, <1>5 DEF Verdict, Outcome

LEMMA SettledStep == IInv /\ Careful /\ [Next]_vars => SettledTogether'
<1> SUFFICES ASSUME TypeOK, RelayInv, SettledTogether, [Next]_vars PROVE SettledTogether'
  BY DEF IInv
<1>1. CopyInv /\ PageInv /\ VerdictInv
  BY DEF RelayInv
<1>2. remote' = remote \/ remote' = "stopped"
      \/ (home' = home /\ \E r \in acks \cup {AckCall} : Outcomes(r) # {} /\ remote' = SettledRemote(r))
  BY AckFrame DEF AckHandled, SettledRemote, RemoteStop
<1>3. CASE home' = home
  BY <1>2, <1>3, OutcomeIsHome DEF SettledTogether, Outcome
<1>4. CASE home' # home
  <2>1. HomeReady \/ HomeStops \/ HomeLearnsStop \/ Retry \/ ImportItem
    BY <1>4, HomeFrame
  <2>2. remote' = remote
    BY <2>1 DEF HomeReady, HomeStops, HomeLearnsStop, Retry, AtHome, ImportItem, workerVars,
                attachment
  <2>3. CASE HomeReady \/ HomeStops \/ HomeLearnsStop \/ Retry
    BY <2>2, <2>3 DEF HomeReady, HomeStops, HomeLearnsStop, Retry, AtHome, SettledTogether, Outcome
  <2>4. CASE ImportItem
    <3>1. PICK kind : home' = Decide(kind) /\ kind \in Report
      BY <1>1, <1>4, <2>4, ImportCases
    <3>2. home = "ready"
      BY <1>4, <3>1 DEF Decide, Verdict, Outcome, Report
    <3> QED BY <2>2, <3>2 DEF SettledTogether, Outcome
  <2> QED BY <2>1, <2>3, <2>4
<1> QED BY <1>3, <1>4

LEMMA IInvInit == Init => IInv
<1> SUFFICES ASSUME Init PROVE IInv
  OBVIOUS
<1>1. TypeOK
  BY TypeInit
<1>2. CopyInv /\ PageInv /\ CallInv /\ VerdictInv /\ MailInv
  BY DEF Init, Idle, CopyInv, PageInv, CallInv, TrueVerdicts, VerdictInv, MailInv, Cursor
<1>3. SettledTogether
  BY DEF Init, SettledTogether, Outcome
<1> QED BY <1>1, <1>2, <1>3 DEF IInv, RelayInv

LEMMA IInvStep == IInv /\ Careful /\ [Next]_vars => IInv'
  BY TypeStep, CopyStep, PageStep, CallStep, VerdictStep, MailStep, SettledStep DEF IInv, RelayInv

\* The inductive invariant: the copies at home, the page at work, the calls under
\* way, the verdicts and the mail agree with what is queued on the other server.
THEOREM RelayInvariant == ASSUME Careful PROVE Spec => []RelayInv
<1>1. Spec => []IInv
  BY IInvInit, IInvStep, PTL DEF Spec
<1>2. IInv => RelayInv
  BY DEF IInv
<1> QED BY <1>1, <1>2, PTL

\* The worker server never settles the dispatch in a way home has not.
THEOREM BothSettle == ASSUME Careful PROVE Spec => []SettledTogether
<1>1. Spec => []IInv
  BY IInvInit, IInvStep, PTL DEF Spec
<1>2. IInv => SettledTogether
  BY DEF IInv
<1> QED BY <1>1, <1>2, PTL

\* A verdict that a completed acknowledgment carried to the agent is the one home
\* gave on that report.
THEOREM ToldTruly == ASSUME Careful PROVE Spec => []ToldIsDecided
<1>1. ASSUME TypeOK, RelayInv PROVE ToldIsDecided
  <2>1. SUFFICES ASSUME NEW r \in receipts, NEW t \in r.verdicts
                 PROVE  t[1] \in DOMAIN decided /\ decided[t[1]] = t[2]
    BY DEF ToldIsDecided, Told
  <2>2. /\ t[1] \in 1 .. r.through /\ t[1] <= imported /\ decided[t[1]] = t[2]
        /\ Len(decided) = imported
    BY <1>1 DEF RelayInv, CallInv, CopyInv, TrueVerdicts
  <2>3. r.through \in Nat /\ imported \in Nat /\ decided \in Seq(Verdicts \cup {"none"})
    BY <1>1 DEF TypeOK, AckRequest
  <2> QED BY <2>2, <2>3
<1>2. Spec => []TypeOK /\ []RelayInv
  BY TypeCorrect, RelayInvariant
<1> QED BY <1>1, <1>2, PTL

-----------------------------------------------------------------------------
(***************************************************************************)
(* The relay implements a channel in each direction.                       *)
(***************************************************************************)
Ids == [i \in DOMAIN queue |-> queue[i].id]

\* The ids that the channel to home has used are among those minted.
LEMMA UsedIds ==
  ASSUME TypeOK, CopyInv
  PROVE  /\ \A m \in ToHome!Used : m \in 1 .. minted
         /\ Len(Ids) = Len(queue) /\ DOMAIN Ids = 1 .. Len(queue) /\ Ids \in Seq(Nat)
<1>1. queue \in Seq(Item) /\ Len(queue) \in Nat /\ DOMAIN queue = 1 .. Len(queue)
  BY DEF TypeOK
<1>2. ASSUME NEW i \in 1 .. Len(queue) PROVE queue[i].id \in Nat
  <2>1. queue[i] \in Item
    BY <1>1
  <2> QED BY <2>1 DEF Item
<1>3. Ids \in Seq(Nat) /\ Len(Ids) = Len(queue) /\ DOMAIN Ids = 1 .. Len(queue)
  BY <1>1, <1>2 DEF Ids
<1>4. \A i \in DOMAIN Ids : Ids[i] \in 1 .. minted
  BY <1>1 DEF Ids, CopyInv
<1>5. \A i \in DOMAIN inbox : inbox[i] \in 1 .. minted
  <2>1. DOMAIN inbox = 1 .. imported /\ imported \in Nat /\ imported <= Len(queue)
    BY DEF CopyInv, TypeOK
  <2>2. \A i \in 1 .. imported : inbox[i] = queue[i].id /\ i \in 1 .. Len(queue)
    BY <1>1, <2>1 DEF CopyInv
  <2> QED BY <2>1, <2>2 DEF CopyInv
<1> QED BY <1>3, <1>4, <1>5 DEF ToHome!Used, Ids

LEMMA ToHomeStep ==
  ASSUME TypeOK, RelayInv, Careful, [Next]_vars
  PROVE  [ToHome!Next]_(ToHome!channel)
<1>1. CopyInv /\ PageInv
  BY DEF RelayInv
<1>2. queue \in Seq(Item) /\ Len(queue) \in Nat /\ minted \in Nat /\ DOMAIN queue = 1 .. Len(queue)
  BY DEF TypeOK
<1>3. CASE Agent
  <2>1. UNCHANGED inbox /\ minted + 1 \in 1 .. MaxIds
    <3>1. minted < MaxIds /\ UNCHANGED inbox
      BY <1>1, <1>3, AgentCases DEF homeVars, importVars
    <3> QED BY <1>2, <3>1, FederationRelayAssumption
  <2>2. minted + 1 \notin ToHome!Used
    BY <1>1, <1>2, UsedIds
  <2>3. PICK kind \in Kinds :
              \/ queue' = Append(queue, New(kind))
              \/ \E i \in 1 .. Len(queue) :
                   queue' = [queue EXCEPT ![i] = New(kind)] /\ Unseen(i)
    BY <1>1, <1>3, AgentCases
  <2>4. New(kind) \in Item /\ New(kind).id = minted + 1
    BY <1>2, Constants DEF New, Item
  <2> HIDE DEF New
  <2>5. CASE queue' = Append(queue, New(kind))
    <3>1. /\ Len(queue') = Len(queue) + 1 /\ DOMAIN queue' = 1 .. Len(queue) + 1
          /\ \A i \in 1 .. Len(queue) : queue'[i] = queue[i]
          /\ queue'[Len(queue) + 1] = New(kind)
      BY <1>2, <2>4, <2>5, AppendProperties
    <3>2. /\ Append(Ids, minted + 1) \in Seq(Nat)
          /\ Len(Append(Ids, minted + 1)) = Len(queue) + 1
          /\ DOMAIN Append(Ids, minted + 1) = 1 .. Len(queue) + 1
          /\ \A i \in 1 .. Len(queue) : Append(Ids, minted + 1)[i] = Ids[i]
          /\ Append(Ids, minted + 1)[Len(queue) + 1] = minted + 1
      BY <1>1, <1>2, UsedIds, AppendProperties
    <3>3. Ids' = Append(Ids, minted + 1)
      <4>1. \A i \in 1 .. Len(queue) + 1 : queue'[i].id = Append(Ids, minted + 1)[i]
        <5> SUFFICES ASSUME NEW i \in 1 .. Len(queue) + 1
                     PROVE  queue'[i].id = Append(Ids, minted + 1)[i]
          OBVIOUS
        <5>1. i \in 1 .. Len(queue) \/ i = Len(queue) + 1
          BY <1>2
        <5>2. CASE i \in 1 .. Len(queue)
          BY <1>2, <3>1, <3>2, <5>2 DEF Ids
        <5>3. CASE i = Len(queue) + 1
          BY <2>4, <3>1, <3>2, <5>3
        <5> QED BY <5>1, <5>2, <5>3
      <4>2. Ids' = [i \in 1 .. Len(queue) + 1 |-> queue'[i].id]
        BY <3>1 DEF Ids
      <4>3. Append(Ids, minted + 1) = [i \in 1 .. Len(queue) + 1 |-> Append(Ids, minted + 1)[i]]
        BY <3>2
      <4> QED BY <4>1, <4>2, <4>3, Zenon
    <3>4. PICK m \in 1 .. MaxIds : m = minted + 1
      BY <2>1
    <3>5. ToHome!Send(m)
      BY <2>1, <2>2, <3>3, <3>4 DEF ToHome!Send, Ids
    <3> QED BY <3>5 DEF ToHome!Next
  <2>6. ASSUME NEW i \in 1 .. Len(queue), queue' = [queue EXCEPT ![i] = New(kind)], Unseen(i)
        PROVE  ToHome!Next
    <3>1. Ids' = [Ids EXCEPT ![i] = minted + 1]
      BY <1>2, <2>4, <2>6 DEF Ids
    <3>2. i > Len(inbox)
      BY <1>1, <2>6 DEF Unseen, CopyInv
    <3>3. PICK m \in 1 .. MaxIds : m = minted + 1
      BY <2>1
    <3>4. ToHome!Supersede(i, m)
      BY <2>1, <2>2, <3>1, <3>2, <3>3 DEF ToHome!Supersede, Ids
    <3>5. i \in DOMAIN Ids
      BY <1>2 DEF Ids
    <3> QED BY <3>4, <3>5 DEF ToHome!Next, Ids
  <2> QED BY <2>3, <2>5, <2>6
<1>4. CASE ImportItem
  <2>1. UNCHANGED queue
    BY <1>4 DEF ImportItem, workerVars
  <2>2. CASE UNCHANGED inbox
    BY <2>1, <2>2 DEF ToHome!channel
  <2>3. CASE ~UNCHANGED inbox
    <3>1. PICK seq : seq = imported + 1 /\ seq \in 1 .. Len(queue) /\ inbox' = Append(inbox, queue[seq].id)
      BY <1>1, <1>4, <2>3, ImportCases
    <3>2. Len(inbox) = imported /\ imported \in Nat
      BY <1>1 DEF CopyInv, TypeOK
    <3>3. /\ Len(inbox) < Len(Ids) /\ Ids[Len(inbox) + 1] = queue[seq].id /\ Ids' = Ids
      BY <1>1, <1>2, <2>1, <3>1, <3>2, UsedIds DEF Ids
    <3>4. ToHome!Deliver
      BY <3>1, <3>3 DEF ToHome!Deliver, Ids
    <3> QED BY <3>4 DEF ToHome!Next
  <2> QED BY <2>2, <2>3
<1>5. CASE UNCHANGED <<queue, minted, imported, inbox, decided>>
  BY <1>5 DEF ToHome!channel
<1> QED BY <1>3, <1>4, <1>5, CopiesFrame

\* The agent's messages reach the Run's mailbox once each and in order, whatever
\* calls are lost, late or repeated and whichever server restarts.
THEOREM ToHomeRefined == ASSUME Careful PROVE Spec => ToHomeSpec
<1>1. Init => ToHome!Init
  BY DEF Init, ToHome!Init
<1>2. Spec => []TypeOK /\ []RelayInv
  BY TypeCorrect, RelayInvariant
<1>3. TypeOK /\ RelayInv /\ [Next]_vars => [ToHome!Next]_(ToHome!channel)
  BY ToHomeStep
<1> QED BY <1>1, <1>2, <1>3, PTL DEF Spec, ToHomeSpec, ToHome!Spec

LEMMA ToWorkerStep ==
  ASSUME TypeOK, RelayInv, [Next]_vars
  PROVE  [ToWorker!Next]_(ToWorker!channel)
<1> DEFINE Sent == [i \in 1 .. mail |-> i]
<1>1. MailInv /\ mail \in Nat /\ mailbox \in Seq(Nat) /\ MaxMail \in Nat
  BY FederationRelayAssumption DEF RelayInv, TypeOK
<1>2. /\ Sent \in Seq(Nat) /\ Len(Sent) = mail /\ DOMAIN Sent = 1 .. mail
      /\ \A i \in 1 .. mail : Sent[i] = i
  BY <1>1
<1>3. CASE SendMail
  <2>1. mail < MaxMail /\ mail' = mail + 1 /\ UNCHANGED mailbox
    BY <1>3 DEF SendMail, workerVars, mailboxVars
  <2>2. mail + 1 \notin ToWorker!Used
    <3>1. \A i \in DOMAIN mailbox : mailbox[i] = i /\ i <= mail
      <4>1. DOMAIN mailbox = 1 .. Len(mailbox) /\ Len(mailbox) <= mail /\ Len(mailbox) \in Nat
        BY <1>1 DEF MailInv
      <4> QED BY <1>1, <4>1 DEF MailInv
    <3> QED BY <1>1, <1>2, <3>1 DEF ToWorker!Used
  <2>3. Sent' = Append(Sent, mail + 1)
    <3>1. /\ Append(Sent, mail + 1) \in Seq(Nat) /\ DOMAIN Append(Sent, mail + 1) = 1 .. mail + 1
          /\ \A i \in 1 .. mail : Append(Sent, mail + 1)[i] = i
          /\ Append(Sent, mail + 1)[mail + 1] = mail + 1
      BY <1>1, <1>2, AppendProperties
    <3>2. \A i \in 1 .. mail + 1 : Append(Sent, mail + 1)[i] = i
      <4> SUFFICES ASSUME NEW i \in 1 .. mail + 1 PROVE Append(Sent, mail + 1)[i] = i
        OBVIOUS
      <4>1. i \in 1 .. mail \/ i = mail + 1
        BY <1>1
      <4> QED BY <3>1, <4>1
    <3>3. Sent' = [i \in 1 .. mail + 1 |-> i]
      BY <2>1
    <3>4. Append(Sent, mail + 1) = [i \in 1 .. mail + 1 |-> Append(Sent, mail + 1)[i]]
      <4> HIDE DEF Sent
      <4> QED BY <3>1
    <3> QED BY <3>2, <3>3, <3>4, Zenon
  <2>4. PICK m \in 1 .. MaxMail : m = mail + 1
    BY <1>1, <2>1
  <2>5. ToWorker!Send(m)
    BY <2>1, <2>2, <2>3, <2>4 DEF ToWorker!Send
  <2> QED BY <2>5 DEF ToWorker!Next
<1>4. ASSUME NEW last \in mails, ImportMail(last) \/ TearMail(last)
      PROVE  [ToWorker!Next]_(ToWorker!channel)
  <2>1. /\ mailCursor + 1 <= last /\ mailbox' \in {mailbox, MailboxWith(mailCursor + 1)}
        /\ UNCHANGED mail
    BY <1>4 DEF ImportMail, TearMail, homeVars
  <2>2. CASE UNCHANGED mailbox
    BY <2>1, <2>2 DEF ToWorker!channel
  <2>3. CASE ~UNCHANGED mailbox
    <3>1. /\ mailCursor + 1 \in 1 .. mail /\ Len(mailbox) = mailCursor
          /\ mailbox' = Append(mailbox, mailCursor + 1)
      BY <1>1, <2>1, <2>3, MailboxCases
    <3>2. Len(mailbox) < Len(Sent) /\ Sent[Len(mailbox) + 1] = mailCursor + 1 /\ Sent' = Sent
      BY <1>1, <1>2, <2>1, <3>1
    <3>3. ToWorker!Deliver
      BY <3>1, <3>2 DEF ToWorker!Deliver
    <3> QED BY <3>3 DEF ToWorker!Next
  <2> QED BY <2>2, <2>3
<1>5. CASE AnswerMail \/ UNCHANGED <<mail, mailAcked, mailbox, mailCursor>>
  BY <1>5 DEF AnswerMail, workerVars, mailboxVars, ToWorker!channel
<1> QED BY <1>3, <1>4, <1>5, MailFrame

\* The coordinator's mail reaches the worker's mailbox once each and in order.
THEOREM ToWorkerRefined == ASSUME Careful PROVE Spec => ToWorkerSpec
<1>1. Init => ToWorker!Init
  BY DEF Init, ToWorker!Init
<1>2. Spec => []TypeOK /\ []RelayInv
  BY TypeCorrect, RelayInvariant
<1>3. TypeOK /\ RelayInv /\ [Next]_vars => [ToWorker!Next]_(ToWorker!channel)
  BY ToWorkerStep
<1> QED BY <1>1, <1>2, <1>3, PTL DEF Spec, ToWorkerSpec, ToWorker!Spec
=============================================================================
