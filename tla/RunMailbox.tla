----------------------------- MODULE RunMailbox -----------------------------
(***************************************************************************)
(* The mailboxes of Runs and their consumers: the tables runs,             *)
(* run_coordinator_handles, messages and deliveries (db.ts) and the        *)
(* handlers orchestration.runCreate, runUse, send, check and reply.        *)
(*                                                                         *)
(* A Run has one consumer at a time, the pane bound to it, known by its    *)
(* consumer generation.  The consumer's check leases the unread mail as a  *)
(* Delivery, returns the same Delivery until it is acknowledged, and loses *)
(* it when another pane takes the Run over.  A check may be suspended      *)
(* twice: while it routes mail addressed to the consumer's own terminal,   *)
(* and while it waits for mail.  The runtime is one JavaScript thread, so  *)
(* an action is what a handler does between two awaits.                    *)
(*                                                                         *)
(* A Faulty... operator is the definition below it with a mistake in it.   *)
(***************************************************************************)
EXTENDS Naturals, FiniteSets

CONSTANTS
  Run,             \* run ids the clients may create
  Handle,          \* terminal handles
  PaneOf,          \* the pane of each handle; a reminted handle keeps its pane
  Type,            \* message types
  NoRun, NoHandle,
  BatchLimit,      \* ORCHESTRATION_DELIVERY_BATCH_LIMIT
  MaxMessages,     \* bound: messages sent
  MaxDeliveries,   \* bound: deliveries created
  MaxGeneration,   \* bound: consumer generation of a Run
  Ops              \* the optional calls and events that occur

ASSUME RunMailboxAssumption ==
  /\ NoRun \notin Run /\ NoHandle \notin Handle
  /\ "run" \notin Handle /\ "none" \notin Handle
  /\ DOMAIN PaneOf = Handle
  /\ {BatchLimit, MaxMessages, MaxDeliveries, MaxGeneration} \subseteq Nat \ {0}
  /\ Ops \subseteq { "assign",   \* a coordinator's terminal is also a worker's
                     "peek",     \* check --peek and check --all
                     "late",     \* a heartbeat arrives after its dispatch ended
                     "reply",    \* reply to a message that is no question
                     "unsolicited",  \* ... and that no check has shown
                     "crash" }   \* the runtime dies and restarts
  /\ "late" \in Ops => "heartbeat" \in Type

Msg == 1 .. MaxMessages            \* messages.sequence
Delivery == 1 .. MaxDeliveries     \* deliveries, in creation order

VARIABLES
  generation,    \* runs.consumer_generation, 0 before the insert
  coordinator,   \* runs.coordinator_handle (and, by PaneOf, its pane key)
  known,         \* run_coordinator_handles
  assigned,      \* handles with an active dispatch of the Run (DispatchLedger)
  sent,          \* number of messages
  msgRun, msgType,
  box,           \* messages.to_handle: a handle, or "run" for its Run's mailbox
  read,          \* the messages with read = 1
  created,       \* number of deliveries
  dRun, dGen, dMsgs, dStatus,
  check,         \* the check call of a handle that is suspended in an await
  received,      \* the delivery ids a handle's agent has been handed
  seen           \* the messages some agent has been shown by a Run's mailbox

runVars  == <<generation, coordinator, known>>
mailVars == <<sent, msgRun, msgType>>
vars == <<generation, coordinator, known, assigned, sent, msgRun, msgType, box, read,
          created, dRun, dGen, dMsgs, dStatus, check, received, seen>>
deliveryVars == <<created, dRun, dGen, dMsgs, dStatus>>

Idle == [phase |-> "idle", run |-> NoRun, gen |-> 0, types |-> {}]

CheckCall == [phase : {"idle", "routing", "waiting", "woken"}, run : Run \cup {NoRun},
              gen : 0 .. MaxGeneration, types : SUBSET Type]

TypeOK ==
  /\ generation \in [Run -> 0 .. MaxGeneration]
  /\ coordinator \in [Run -> Handle \cup {NoHandle}]
  /\ known \in [Run -> SUBSET Handle]
  /\ assigned \in [Run -> SUBSET Handle]
  /\ sent \in 0 .. MaxMessages
  /\ msgRun \in [Msg -> Run \cup {NoRun}]
  /\ msgType \in [Msg -> Type \cup {"none"}]
  /\ box \in [Msg -> Handle \cup {"run", "none"}]
  /\ read \in SUBSET Msg
  /\ created \in 0 .. MaxDeliveries
  /\ dRun \in [Delivery -> Run \cup {NoRun}]
  /\ dGen \in [Delivery -> 0 .. MaxGeneration]
  /\ dMsgs \in [Delivery -> SUBSET Msg]
  /\ dStatus \in [Delivery -> {"absent", "outstanding", "acknowledged", "fenced"}]
  /\ check \in [Handle -> CheckCall]
  /\ received \in [Handle -> SUBSET Delivery]
  /\ seen \in SUBSET Msg

Init ==
  /\ generation = [r \in Run |-> 0]
  /\ coordinator = [r \in Run |-> NoHandle]
  /\ known = [r \in Run |-> {}]
  /\ assigned = [r \in Run |-> {}]
  /\ sent = 0
  /\ msgRun = [m \in Msg |-> NoRun]
  /\ msgType = [m \in Msg |-> "none"]
  /\ box = [m \in Msg |-> "none"]
  /\ read = {}
  /\ created = 0
  /\ dRun = [d \in Delivery |-> NoRun]
  /\ dGen = [d \in Delivery |-> 0]
  /\ dMsgs = [d \in Delivery |-> {}]
  /\ dStatus = [d \in Delivery |-> "absent"]
  /\ check = [h \in Handle |-> Idle]
  /\ received = [h \in Handle |-> {}]
  /\ seen = {}

-----------------------------------------------------------------------------
(***************************************************************************)
(* Queries.                                                                *)
(***************************************************************************)
Exists(r) == generation[r] > 0

\* getCurrentRunForPane finds r for the pane of h.
Bound(h, r) == coordinator[r] # NoHandle /\ PaneOf[coordinator[r]] = PaneOf[h]

FaultyOthers(h, r) == { q \in Run \ {r} : coordinator[q] = h }

\* The other Runs bound to the pane of h, which unbindOtherRunsForPane unbinds.
Others(h, r) == { q \in Run \ {r} : Bound(h, q) }

\* Faulty: mail is read up to a point; what is routed there later is skipped.
FaultyUnread(r) ==
  { m \in Msg : /\ msgRun[m] = r /\ box[m] = "run" /\ m \notin read
                /\ \A n \in read : msgRun[n] = r /\ box[n] = "run" => n < m }

Unread(r) == { m \in Msg : msgRun[m] = r /\ box[m] = "run" /\ m \notin read }

\* Unread mail of r addressed to one of the handles H and not owned by an
\* active dispatch: what the routing to the Run's mailbox moves.
Direct(r, H) ==
  { m \in Msg : msgRun[m] = r /\ box[m] \in H \ assigned[r] /\ m \notin read }

\* What unbindOtherRunsForPane routes: the mail of those Runs at their handles.
Forsaken(h, r) == UNION { Direct(q, {coordinator[q]}) : q \in Others(h, r) }

\* Mail at h that is routed when h is notified: of the Run bound to its pane,
\* and then also of the other Runs that once had h as their coordinator.
Forwardable(h) ==
  UNION { Direct(r, {h}) : r \in { q \in Run :
            Bound(h, q) \/ (h \in known[q] /\ \E p \in Run : Bound(h, p)) } }

\* The oldest messages of S, as many as a batch holds.
Batch(S) == { m \in S : Cardinality({ n \in S : n < m }) < BatchLimit }

Outstanding(r) == { d \in Delivery : dRun[d] = r /\ dStatus[d] = "outstanding" }

-----------------------------------------------------------------------------
(***************************************************************************)
(* Statements several handlers share.                                      *)
(***************************************************************************)
Route(S) == box' = [m \in Msg |-> IF m \in S THEN "run" ELSE box[m]]

\* fenceOutstandingDelivery.
Fence(R) ==
  dStatus' = [d \in Delivery |->
    IF dRun[d] \in R /\ dStatus[d] = "outstanding" THEN "fenced" ELSE dStatus[d]]

FaultyCancelledWaiters(R) ==
  check' = [h \in Handle |->
    IF check[h].phase = "waiting" /\ check[h].run \in R
    THEN [check[h] EXCEPT !.phase = "cancelled"] ELSE check[h]]

\* cancelMessageWaiters: the waiting checks of the Runs R end.
CancelWaiters(R) ==
  check' = [h \in Handle |->
    IF check[h].phase = "waiting" /\ check[h].run \in R THEN Idle ELSE check[h]]

FaultyWake(N) ==
  check' = [h \in Handle |->
    IF /\ check[h].phase = "waiting" /\ N # {}
       /\ \A n \in N : check[h].run = n[1] /\ n[2] \in check[h].types
    THEN [check[h] EXCEPT !.phase = "woken"] ELSE check[h]]

\* resolveMessageWaiter: N holds the Runs and types of the mail that arrived.
Wake(N) ==
  check' = [h \in Handle |->
    IF check[h].phase = "waiting" /\ \E n \in N : check[h].run = n[1] /\ n[2] \in check[h].types
    THEN [check[h] EXCEPT !.phase = "woken"] ELSE check[h]]

-----------------------------------------------------------------------------
(***************************************************************************)
(* Runs and their consumers.                                               *)
(***************************************************************************)
\* orchestration.runCreate.
CreateRun(r, h) ==
  /\ ~Exists(r)
  /\ \A q \in Others(h, r) : generation[q] < MaxGeneration
  /\ Route(Forsaken(h, r))
  /\ generation' = [q \in Run |-> IF q = r THEN 1
                      ELSE IF q \in Others(h, r) THEN generation[q] + 1 ELSE generation[q]]
  /\ coordinator' = [q \in Run |-> IF q = r THEN h
                       ELSE IF q \in Others(h, r) THEN NoHandle ELSE coordinator[q]]
  /\ known' = [known EXCEPT ![r] = @ \cup {h}]
  /\ Fence(Others(h, r))
  /\ CancelWaiters(Others(h, r))
  /\ UNCHANGED <<assigned, mailVars, read, created, dRun, dGen, dMsgs, received, seen>>

\* orchestration.runUse.  The same handle binding again is no new consumer.
BindRun(r, h) ==
  LET unbound == Others(h, r)
      replaced == IF coordinator[r] = h THEN {} ELSE {r}
  IN /\ Exists(r)
     /\ \A q \in unbound \cup replaced : generation[q] < MaxGeneration
     /\ Route(Forsaken(h, r) \cup Direct(r, {coordinator[r], h}))
     /\ generation' = [q \in Run |->
          IF q \in unbound \cup replaced THEN generation[q] + 1 ELSE generation[q]]
     /\ coordinator' = [q \in Run |->
          IF q = r THEN h ELSE IF q \in unbound THEN NoHandle ELSE coordinator[q]]
     /\ known' = [known EXCEPT ![r] = @ \cup ({coordinator[r], h} \ {NoHandle})]
     /\ Fence(unbound \cup replaced)
     /\ CancelWaiters(unbound \cup {r})
     /\ UNCHANGED <<assigned, mailVars, read, created, dRun, dGen, dMsgs, received, seen>>

\* A dispatch of r to the terminal h becomes active, or ends.
Assign(r, h) ==
  /\ "assign" \in Ops
  /\ Exists(r)
  /\ assigned' = [assigned EXCEPT ![r] = IF h \in @ THEN @ \ {h} ELSE @ \cup {h}]
  /\ UNCHANGED <<runVars, mailVars, box, read, deliveryVars, check, received, seen>>

-----------------------------------------------------------------------------
(***************************************************************************)
(* Mail arrives.                                                           *)
(***************************************************************************)
\* Does the trigger on messages address a message for a to the Run's mailbox?
Triggered(r, a) == a = "run" \/ a \in known[r] \ assigned[r]

\* The heartbeats a worker_done makes obsolete: unread and in the same mailbox.
Heartbeats(r, b) ==
  { m \in Msg : msgRun[m] = r /\ box[m] = b /\ msgType[m] = "heartbeat" /\ m \notin read }

\* insertMessage and its trigger put the message m in the mailbox b.
Insert(m, r, ty) ==
  /\ Exists(r)
  /\ sent < MaxMessages
  /\ m = sent + 1
  /\ sent' = m
  /\ msgRun' = [msgRun EXCEPT ![m] = r]
  /\ msgType' = [msgType EXCEPT ![m] = ty]
Entry(r, a) == IF Triggered(r, a) THEN "run" ELSE a

\* orchestration.send: a worker_done first suppresses heartbeats of its
\* dispatch; then notifyMessageArrived routes what is addressed to a terminal
\* and wakes the waiters.
Send(r, a, ty) ==
  LET m == sent + 1
      moved == IF Triggered(r, a) THEN {} ELSE Forwardable(a)
      toRun == Triggered(r, a) \/ (Bound(a, r) /\ a \notin assigned[r])
  IN /\ Insert(m, r, ty)
     /\ \E H \in SUBSET Heartbeats(r, Entry(r, a)) :
          /\ ty # "worker_done" => H = {}
          /\ read' = read \cup H
          /\ box' = [k \in Msg |-> IF k = m THEN IF toRun THEN "run" ELSE a
                                   ELSE IF k \in moved \ H THEN "run" ELSE box[k]]
          /\ Wake({ <<msgRun[k], msgType[k]>> : k \in moved \ H }
                  \cup (IF toRun \/ Bound(a, r) THEN {<<r, ty>>} ELSE {}))
     /\ UNCHANGED <<runVars, assigned, deliveryVars, received, seen>>

\* A heartbeat of a dispatch that has ended is stored as read, and wakes nobody.
SendLateHeartbeat(r, a) ==
  /\ "late" \in Ops
  /\ Insert(sent + 1, r, "heartbeat")
  /\ box' = [box EXCEPT ![sent + 1] = Entry(r, a)]
  /\ read' = read \cup {sent + 1}
  /\ UNCHANGED <<runVars, assigned, deliveryVars, check, received, seen>>

\* deliverForLeaf: something happened at the terminal h.
Forward(h) ==
  /\ Forwardable(h) # {}
  /\ Route(Forwardable(h))
  /\ Wake({ <<msgRun[k], msgType[k]>> : k \in Forwardable(h) })
  /\ UNCHANGED <<runVars, assigned, mailVars, read, deliveryVars, received, seen>>

-----------------------------------------------------------------------------
(***************************************************************************)
(* orchestration.check.                                                    *)
(***************************************************************************)
\* From a terminal with no Run: its own mail, or that of its dispatch, is read
\* and marked read at once.
CheckDirect(h) ==
  LET owners == { r \in Run : h \in assigned[r] }
  IN /\ ~\E r \in Run : Bound(h, r)
     /\ \E R \in IF owners = {} THEN {Run} ELSE { {r} : r \in owners } :
          read' = read \cup { m \in Msg : box[m] = h /\ msgRun[m] \in R }
     /\ UNCHANGED <<runVars, assigned, mailVars, box, deliveryVars, check, received, seen>>

\* From the consumer's pane: the generation is taken, and mail addressed to
\* the caller or to the recorded coordinator handle is routed, with awaits.
CheckBegin(h, r) ==
  /\ check[h] = Idle
  /\ Bound(h, r)
  /\ Route(Direct(r, {h, coordinator[r]}))
  /\ check' = [check EXCEPT ![h] =
       [phase |-> "routing", run |-> r, gen |-> generation[r], types |-> {}]]
  /\ UNCHANGED <<runVars, assigned, mailVars, read, deliveryVars, received, seen>>

\* The mail rd is read and deliveries have the states st: the outstanding
\* Delivery d of the Run is returned again ...
Replay(h, d, r, rd, st) ==
  /\ dRun[d] = r /\ st[d] = "outstanding" /\ dGen[d] = check[h].gen
  /\ read' = rd
  /\ dStatus' = st
  /\ UNCHANGED <<created, dRun, dGen, dMsgs>>

\* ... or d is a new one, if there is mail and some of it has a wanted type.
Lease(h, d, r, rd, st, wanted) ==
  LET mail == Unread(r) \ rd
  IN /\ \A e \in Delivery : dRun[e] = r => st[e] # "outstanding"
     /\ \E m \in mail : msgType[m] \in wanted
     /\ created < MaxDeliveries
     /\ d = created + 1
     /\ created' = d
     /\ dRun' = [dRun EXCEPT ![d] = r]
     /\ dGen' = [dGen EXCEPT ![d] = check[h].gen]
     /\ dMsgs' = [dMsgs EXCEPT ![d] = Batch(mail)]
     /\ dStatus' = [st EXCEPT ![d] = "outstanding"]
     /\ read' = rd

\* The response with Delivery d reaches the agent, unless the connection drops.
Respond(h, d) ==
  \/ /\ received' = [received EXCEPT ![h] = @ \cup {d}]
     /\ seen' = seen \cup dMsgs'[d]
  \/ UNCHANGED <<received, seen>>

FaultyCurrent(h) == Bound(h, check[h].run)

\* The check is still made by the Run's consumer.
Current(h) ==
  /\ Bound(h, check[h].run)
  /\ generation[check[h].run] = check[h].gen

\* acknowledgeRunDelivery accepts a: of this Run and generation, not fenced.
Acceptable(h, a) ==
  dRun[a] = check[h].run /\ dGen[a] = check[h].gen /\ dStatus[a] # "fenced"

FaultyReadWith(A) == read
FaultyReadAll(A) ==
  read \cup { m \in Msg : box[m] = "run" /\ \E a \in A : dRun[a] = msgRun[m] }

\* The mail read, and the states of deliveries, once A is acknowledged.
ReadWith(A) == read \cup UNION { dMsgs[a] : a \in { b \in A : dStatus[b] = "outstanding" } }
StatusWith(A) == [d \in Delivery |-> IF d \in A THEN "acknowledged" ELSE dStatus[d]]

\* The check resumes: A holds the Delivery it acknowledges, or nothing.
CheckRead(h, A) ==
  /\ check[h].phase = "routing"
  /\ Current(h)
  /\ \A a \in A : Acceptable(h, a)
  /\ \E d \in Delivery :
       /\ \/ Replay(h, d, check[h].run, ReadWith(A), StatusWith(A))
          \/ Lease(h, d, check[h].run, ReadWith(A), StatusWith(A), Type)
       /\ Respond(h, d)
  /\ check' = [check EXCEPT ![h] = Idle]
  /\ UNCHANGED <<runVars, assigned, mailVars, box>>

\* ... or, with --wait, finds nothing of the wanted types and waits for it,
\* unless another check does; without --wait it just ends.
CheckNothing(h, A, wanted) ==
  LET r == check[h].run
      nobody == \A g \in Handle : check[g].phase = "waiting" => check[g].run # r
  IN /\ check[h].phase = "routing"
     /\ Current(h)
     /\ \A a \in A : Acceptable(h, a)
     /\ \A d \in Delivery : dRun[d] = r => StatusWith(A)[d] # "outstanding"
     /\ \A m \in Unread(r) \ ReadWith(A) : msgType[m] \notin wanted
     /\ read' = ReadWith(A)
     /\ dStatus' = StatusWith(A)
     /\ \/ nobody /\ check' = [check EXCEPT ![h] =
             [phase |-> "waiting", run |-> r, gen |-> @.gen, types |-> wanted]]
        \/ (wanted = Type \/ ~nobody) /\ check' = [check EXCEPT ![h] = Idle]
     /\ UNCHANGED <<runVars, assigned, mailVars, box, created, dRun, dGen, dMsgs, received, seen>>

\* The waiter was woken: the mail it was woken for, if it is still there.
CheckWoken(h) ==
  /\ check[h].phase = "woken"
  /\ generation[check[h].run] = check[h].gen
  /\ \/ \E d \in Delivery :
          /\ \/ Replay(h, d, check[h].run, read, dStatus)
             \/ Lease(h, d, check[h].run, read, dStatus, check[h].types)
          /\ Respond(h, d)
     \/ /\ Outstanding(check[h].run) = {}
        /\ \A m \in Unread(check[h].run) : msgType[m] \notin check[h].types
        /\ UNCHANGED <<read, deliveryVars, received, seen>>
  /\ check' = [check EXCEPT ![h] = Idle]
  /\ UNCHANGED <<runVars, assigned, mailVars, box>>

\* The check ends without an effect: it is fenced, its acknowledgment is
\* refused, it times out, or its connection closes.
CheckEnds(h) ==
  /\ check[h] # Idle
  /\ check' = [check EXCEPT ![h] = Idle]
  /\ UNCHANGED <<runVars, assigned, mailVars, box, read, deliveryVars, received, seen>>

\* ... or, with --peek or --all, shows the mail and leases none of it.
CheckShow(h, A) ==
  /\ "peek" \in Ops
  /\ check[h].phase = "routing"
  /\ Current(h)
  /\ \A a \in A : Acceptable(h, a)
  /\ read' = ReadWith(A)
  /\ dStatus' = StatusWith(A)
  /\ \/ seen' = seen \cup (Unread(check[h].run) \ ReadWith(A))
     \/ UNCHANGED seen
  /\ check' = [check EXCEPT ![h] = Idle]
  /\ UNCHANGED <<runVars, assigned, mailVars, box, created, dRun, dGen, dMsgs, received>>

-----------------------------------------------------------------------------
\* orchestration.reply marks the message read for whoever replies, and asks
\* only that it exists: its id may come from the inbox, or from having sent
\* it.  (The answer it inserts is a Send.)
Reply(m) ==
  /\ "reply" \in Ops
  /\ m <= sent /\ m \notin read
  /\ m \in seen \/ "unsolicited" \in Ops
  /\ read' = read \cup {m}
  /\ UNCHANGED <<runVars, assigned, mailVars, box, deliveryVars, check, received, seen>>

Crash ==
  /\ "crash" \in Ops
  /\ check' = [h \in Handle |-> Idle]
  /\ UNCHANGED <<runVars, assigned, mailVars, box, read, deliveryVars, received, seen>>

-----------------------------------------------------------------------------
RunStep == \E r \in Run, h \in Handle : CreateRun(r, h) \/ BindRun(r, h) \/ Assign(r, h)

MailStep ==
  \/ \E r \in Run, a \in Handle \cup {"run"}, ty \in Type : Send(r, a, ty)
  \/ \E r \in Run, a \in Handle \cup {"run"} : SendLateHeartbeat(r, a)
  \/ \E h \in Handle : Forward(h) \/ CheckDirect(h)
  \/ \E m \in Msg : Reply(m)

\* The agent acknowledges one of the deliveries it was handed, or none.
Ack(h) == {{}} \cup { {d} : d \in received[h] }

CheckStep(h) ==
  \/ \E r \in Run : CheckBegin(h, r)
  \/ \E A \in Ack(h) : \/ CheckRead(h, A) \/ CheckShow(h, A)
                       \/ \E wanted \in (SUBSET Type) \ {{}} : CheckNothing(h, A, wanted)
  \/ CheckWoken(h) \/ CheckEnds(h)

Next == RunStep \/ MailStep \/ (\E h \in Handle : CheckStep(h)) \/ Crash

Spec == Init /\ [][Next]_vars

\* What a coordinator's agent does again and again: it checks, it is handed a
\* Delivery now and then, and it acknowledges one it was handed.  A check in an
\* await ends in the end, if only by its timeout.
Handed(h) == CheckRead(h, {}) /\ \E d \in received'[h] : dStatus'[d] = "outstanding"
Acknowledge(h) ==
  \E d \in received[h] :
    /\ dStatus[d] = "outstanding"
    /\ CheckRead(h, {d}) \/ CheckNothing(h, {d}, Type)

Fairness ==
  \A h \in Handle :
    /\ \A r \in Run : WF_vars(CheckBegin(h, r))
    /\ WF_vars(CheckEnds(h))
    /\ SF_vars(Handed(h))
    /\ SF_vars(Acknowledge(h))

FairSpec == Spec /\ Fairness

-----------------------------------------------------------------------------
(***************************************************************************)
(* Properties.                                                             *)
(***************************************************************************)
\* A pane consumes at most one Run, so that a check knows which one is meant.
OneRunPerPane == \A r, q \in Run : \A h \in Handle : Bound(h, r) /\ Bound(h, q) => r = q

\* A Run has at most one outstanding Delivery, and it is its consumer's.
LeaseIsCurrent ==
  /\ \A d, e \in Delivery :
       dStatus[d] = "outstanding" /\ dStatus[e] = "outstanding" /\ dRun[d] = dRun[e] => d = e
  /\ \A d \in Delivery : dStatus[d] = "outstanding" =>
       dGen[d] = generation[dRun[d]] /\ coordinator[dRun[d]] # NoHandle

\* Mail is processed once: no message is in two acknowledged deliveries.
AcknowledgedOnce ==
  \A d, e \in Delivery :
    dStatus[d] = "acknowledged" /\ dStatus[e] = "acknowledged" /\ dMsgs[d] \cap dMsgs[e] # {}
      => d = e

\* No mail is lost: what is read in a Run's mailbox was shown to an agent,
\* unless it is a heartbeat, which may be obsolete.
ReadWasSeen ==
  \A m \in read : box[m] = "run" /\ msgType[m] # "heartbeat" => m \in seen

\* Only the consumer's own pane waits for the mail of a Run, and alone.
WaiterIsConsumer ==
  /\ \A h \in Handle : check[h].phase = "waiting" => Current(h)
  /\ \A g, h \in Handle :
       check[g].phase = "waiting" /\ check[h].phase = "waiting" /\ check[g].run = check[h].run
         => g = h

\* What keeps these true from step to step.  A Delivery holds mail of its Run:
DeliveryInv ==
  \A d \in Delivery :
    IF d <= created
    THEN dStatus[d] # "absent" /\ dRun[d] \in Run /\ \A m \in dMsgs[d] : msgRun[m] = dRun[d]
    ELSE dStatus[d] = "absent" /\ dRun[d] = NoRun

\* what is acknowledged is read, and is in no other Delivery that counts:
ApartInv ==
  /\ \A d \in Delivery : dStatus[d] = "acknowledged" => dMsgs[d] \subseteq read
  /\ \A d, e \in Delivery :
       /\ d # e
       /\ dStatus[d] \in {"outstanding", "acknowledged"}
       /\ dStatus[e] = "acknowledged"
       => dMsgs[d] \cap dMsgs[e] = {}

\* an agent that was handed a Delivery has seen all of it:
HandedInv ==
  \A h \in Handle : \A d \in received[h] : d <= created /\ dMsgs[d] \subseteq seen

MessageInv == \A m \in Msg : m > sent => msgRun[m] = NoRun /\ m \notin read \cup seen

\* a check of the present generation is made from the pane bound to its Run.
CheckInv ==
  /\ \A r \in Run : ~Exists(r) => coordinator[r] = NoHandle
  /\ \A h \in Handle : check[h].phase # "idle" =>
       /\ check[h].run \in Run
       /\ check[h].gen <= generation[check[h].run]
       /\ check[h].gen = generation[check[h].run] => Bound(h, check[h].run)

MailboxInv == DeliveryInv /\ ApartInv /\ HandedInv /\ MessageInv /\ CheckInv

\* No wakeup is lost: a check waits only while there is nothing it waits for.
WaiterHasNoMail ==
  \A h \in Handle : check[h].phase = "waiting" =>
    \A m \in Unread(check[h].run) : msgType[m] \notin check[h].types

\* All mail that reached a Run's mailbox is read in the end, through crashes,
\* dropped connections and changes of the consumer, unless the Run is left
\* without a consumer.
MailIsRead ==
  \A m \in Msg :
    box[m] = "run" ~> m \in read \/ \E r \in Run : msgRun[m] = r /\ coordinator[r] = NoHandle

\* The outstanding Delivery of a Run holds its oldest mail, all of it unread.
LeaseIsUnread ==
  \A d \in Delivery : dStatus[d] = "outstanding" => dMsgs[d] \subseteq Unread(dRun[d])

\* What a LeasedMailbox is for a Run: its mailbox, and the Delivery leased.
MailOf(r) == { m \in Msg : msgRun[m] = r /\ box[m] = "run" }
LeaseOf(r) == { [term |-> dGen[d], mail |-> dMsgs[d]] : d \in Outstanding(r) }
Mailbox(r) == INSTANCE LeasedMailbox
  WITH mail <- MailOf(r), beats <- { m \in MailOf(r) : msgType[m] = "heartbeat" },
       done <- MailOf(r) \cap read, shown <- MailOf(r) \cap seen,
       term <- generation[r], lease <- LeaseOf(r)

\* Each Run keeps the promise of LeasedMailbox to its consumers: the oldest mail
\* is leased to one of them at a time, and only mail that was shown is done with.
MailboxSpec ==
  /\ \A r \in Run : Mailbox(r)!Init
  /\ [][\A r \in Run : [Mailbox(r)!Next]_(Mailbox(r)!mailbox)]_vars
=============================================================================
