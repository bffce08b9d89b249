-------------------------- MODULE RunMailboxProofs --------------------------
(***************************************************************************)
(* Theorems about RunMailbox for every set of Runs, terminals and message  *)
(* types, every batch limit, every bound and every family of calls.        *)
(***************************************************************************)
EXTENDS RunMailbox, TLAPS

USE RunMailboxAssumption

-----------------------------------------------------------------------------
(***************************************************************************)
(* Type correctness.                                                       *)
(***************************************************************************)
\* A suspended check is idle, or is about a Run.
LEMMA CheckType ==
  ASSUME TypeOK, NEW h \in Handle
  PROVE  /\ check[h].phase \in {"idle", "routing", "waiting", "woken"}
         /\ check[h].run \in Run \cup {NoRun}
         /\ check[h].gen \in 0 .. MaxGeneration
         /\ check[h].types \in SUBSET Type
         /\ check[h] = [phase |-> check[h].phase, run |-> check[h].run,
                        gen |-> check[h].gen, types |-> check[h].types]
<1>1. check[h] \in CheckCall
  BY DEF TypeOK
<1> QED BY <1>1 DEF CheckCall

\* What the check's read leaves in the tables is typed.
LEMMA ReadType ==
  ASSUME TypeOK, NEW h \in Handle, NEW d \in Delivery, NEW r \in Run \cup {NoRun}, NEW rd \in SUBSET Msg,
         NEW st \in [Delivery -> {"absent", "outstanding", "acknowledged", "fenced"}],
         NEW wanted, Replay(h, d, r, rd, st) \/ Lease(h, d, r, rd, st, wanted), Respond(h, d)
  PROVE  /\ read' \in SUBSET Msg
         /\ created' \in 0 .. MaxDeliveries
         /\ dRun' \in [Delivery -> Run \cup {NoRun}]
         /\ dGen' \in [Delivery -> 0 .. MaxGeneration]
         /\ dMsgs' \in [Delivery -> SUBSET Msg]
         /\ dStatus' \in [Delivery -> {"absent", "outstanding", "acknowledged", "fenced"}]
         /\ received' \in [Handle -> SUBSET Delivery]
         /\ seen' \in SUBSET Msg
<1>1. Batch(Unread(r) \ rd) \in SUBSET Msg
  BY DEF Batch, Unread
<1>2. check[h].gen \in 0 .. MaxGeneration
  BY CheckType
<1>3. /\ read' \in SUBSET Msg
      /\ created' \in 0 .. MaxDeliveries
      /\ dRun' \in [Delivery -> Run \cup {NoRun}]
      /\ dGen' \in [Delivery -> 0 .. MaxGeneration]
      /\ dMsgs' \in [Delivery -> SUBSET Msg]
      /\ dStatus' \in [Delivery -> {"absent", "outstanding", "acknowledged", "fenced"}]
  <2>1. CASE Replay(h, d, r, rd, st)
    BY <2>1 DEF TypeOK, Replay
  <2>2. CASE Lease(h, d, r, rd, st, wanted)
    <3>1. /\ read' = rd /\ created' = d
          /\ dRun' = [dRun EXCEPT ![d] = r]
          /\ dGen' = [dGen EXCEPT ![d] = check[h].gen]
          /\ dMsgs' = [dMsgs EXCEPT ![d] = Batch(Unread(r) \ rd)]
          /\ dStatus' = [st EXCEPT ![d] = "outstanding"]
      BY <2>2 DEF Lease
    <3>2. d \in 0 .. MaxDeliveries
      BY DEF Delivery
    <3> QED BY <3>1, <3>2, <1>1, <1>2 DEF TypeOK
  <2> QED BY <2>1, <2>2
<1>4. received' \in [Handle -> SUBSET Delivery] /\ seen' \in SUBSET Msg
  BY <1>3 DEF TypeOK, Respond
<1> QED BY <1>3, <1>4

LEMMA AckType ==
  ASSUME TypeOK, NEW h \in Handle, NEW A \in Ack(h)
  PROVE  /\ A \in SUBSET Delivery
         /\ ReadWith(A) \in SUBSET Msg
         /\ StatusWith(A) \in [Delivery -> {"absent", "outstanding", "acknowledged", "fenced"}]
<1>1. A \in SUBSET Delivery
  BY DEF TypeOK, Ack
<1>2. ReadWith(A) \in SUBSET Msg
  BY <1>1 DEF TypeOK, ReadWith
<1>3. StatusWith(A) \in [Delivery -> {"absent", "outstanding", "acknowledged", "fenced"}]
  BY DEF TypeOK, StatusWith
<1> QED BY <1>1, <1>2, <1>3

LEMMA CheckCalls ==
  /\ Idle \in CheckCall
  /\ \A c \in CheckCall : [c EXCEPT !.phase = "woken"] \in CheckCall
  /\ \A c \in CheckCall, w \in SUBSET Type :
       [phase |-> "waiting", run |-> c.run, gen |-> c.gen, types |-> w] \in CheckCall
  BY DEF Idle, CheckCall

LEMMA CheckReset ==
  ASSUME TypeOK, NEW h \in Handle, check' = [check EXCEPT ![h] = Idle]
  PROVE  check' \in [Handle -> CheckCall]
  BY CheckCalls DEF TypeOK

\* Waking and cancelling waiters leaves their checks typed.
LEMMA WaitersType ==
  ASSUME TypeOK, \/ \E N : Wake(N)
                 \/ \E R : CancelWaiters(R)
                 \/ check' = [h \in Handle |-> Idle]
  PROVE  check' \in [Handle -> CheckCall]
<1>1. CASE \E N : Wake(N)
  BY <1>1, CheckCalls DEF TypeOK, Wake
<1>2. CASE \E R : CancelWaiters(R)
  BY <1>2, CheckCalls DEF TypeOK, CancelWaiters
<1>3. CASE check' = [h \in Handle |-> Idle]
  BY <1>3, CheckCalls
<1> QED BY <1>1, <1>2, <1>3

LEMMA TypeStep == TypeOK /\ [Next]_vars => TypeOK'
<1> SUFFICES ASSUME TypeOK, [Next]_vars PROVE TypeOK'
  OBVIOUS
<1> USE DEF TypeOK
<1>1. ASSUME NEW r \in Run, NEW h \in Handle, CreateRun(r, h) PROVE TypeOK'
  <2>1. /\ generation' \in [Run -> 0 .. MaxGeneration]
        /\ coordinator' \in [Run -> Handle \cup {NoHandle}]
        /\ known' \in [Run -> SUBSET Handle]
    BY <1>1 DEF CreateRun, Others
  <2>2. box' \in [Msg -> Handle \cup {"run", "none"}]
    BY <1>1 DEF CreateRun, Route
  <2>3. dStatus' \in [Delivery -> {"absent", "outstanding", "acknowledged", "fenced"}]
    BY <1>1 DEF CreateRun, Fence
  <2> QED BY <1>1, <2>1, <2>2, <2>3, WaitersType DEF CreateRun, mailVars
<1>2. ASSUME NEW r \in Run, NEW h \in Handle, BindRun(r, h) PROVE TypeOK'
  <2>1. /\ generation' \in [Run -> 0 .. MaxGeneration]
        /\ coordinator' \in [Run -> Handle \cup {NoHandle}]
        /\ known' \in [Run -> SUBSET Handle]
    BY <1>2 DEF BindRun, Others
  <2>2. box' \in [Msg -> Handle \cup {"run", "none"}]
    BY <1>2 DEF BindRun, Route
  <2>3. dStatus' \in [Delivery -> {"absent", "outstanding", "acknowledged", "fenced"}]
    BY <1>2 DEF BindRun, Fence
  <2> QED BY <1>2, <2>1, <2>2, <2>3, WaitersType DEF BindRun, mailVars
<1>3. ASSUME NEW r \in Run, NEW h \in Handle, Assign(r, h) PROVE TypeOK'
  BY <1>3 DEF Assign, runVars, mailVars, deliveryVars
<1>4. ASSUME NEW r \in Run, NEW a \in Handle \cup {"run"}, NEW ty \in Type, Send(r, a, ty)
      PROVE TypeOK'
  <2>1. /\ sent' \in 0 .. MaxMessages
        /\ msgRun' \in [Msg -> Run \cup {NoRun}]
        /\ msgType' \in [Msg -> Type \cup {"none"}]
    BY <1>4 DEF Send, Insert, Msg
  <2>2. box' \in [Msg -> Handle \cup {"run", "none"}]
    BY <1>4 DEF Send
  <2>3. read' \in SUBSET Msg
    BY <1>4 DEF Send, Heartbeats
  <2>4. \E N : Wake(N)
    BY <1>4 DEF Send
  <2> QED BY <1>4, <2>1, <2>2, <2>3, <2>4, WaitersType DEF Send, runVars, deliveryVars
<1>5. ASSUME NEW r \in Run, NEW a \in Handle \cup {"run"}, SendLateHeartbeat(r, a)
      PROVE TypeOK'
  <2>1. sent + 1 \in Msg /\ sent + 1 \in 0 .. MaxMessages /\ "heartbeat" \in Type
    BY <1>5 DEF SendLateHeartbeat, Insert, Msg
  <2>2. Entry(r, a) \in Handle \cup {"run"}
    BY DEF Entry
  <2> QED BY <1>5, <2>1, <2>2 DEF SendLateHeartbeat, Insert, runVars, deliveryVars
<1>6. ASSUME NEW h \in Handle, Forward(h) PROVE TypeOK'
  <2>1. box' \in [Msg -> Handle \cup {"run", "none"}]
    BY <1>6 DEF Forward, Route
  <2> QED BY <1>6, <2>1, WaitersType DEF Forward, runVars, mailVars, deliveryVars
<1>7. ASSUME NEW h \in Handle, CheckDirect(h) PROVE TypeOK'
  BY <1>7 DEF CheckDirect, runVars, mailVars, deliveryVars
<1>8. ASSUME NEW m \in Msg, Reply(m) PROVE TypeOK'
  BY <1>8 DEF Reply, runVars, mailVars, deliveryVars
<1>9. ASSUME NEW h \in Handle, NEW r \in Run, CheckBegin(h, r) PROVE TypeOK'
  <2>1. box' \in [Msg -> Handle \cup {"run", "none"}]
    BY <1>9 DEF CheckBegin, Route
  <2>2. [phase |-> "routing", run |-> r, gen |-> generation[r], types |-> {}] \in CheckCall
    BY DEF CheckCall
  <2> QED BY <1>9, <2>1, <2>2 DEF CheckBegin, runVars, mailVars, deliveryVars
<1>10. ASSUME NEW h \in Handle, NEW A \in Ack(h), CheckRead(h, A) PROVE TypeOK'
  <2>1. PICK d \in Delivery :
          /\ \/ Replay(h, d, check[h].run, ReadWith(A), StatusWith(A))
             \/ Lease(h, d, check[h].run, ReadWith(A), StatusWith(A), Type)
          /\ Respond(h, d)
    BY <1>10 DEF CheckRead
  <2>2. /\ read' \in SUBSET Msg
        /\ created' \in 0 .. MaxDeliveries
        /\ dRun' \in [Delivery -> Run \cup {NoRun}]
        /\ dGen' \in [Delivery -> 0 .. MaxGeneration]
        /\ dMsgs' \in [Delivery -> SUBSET Msg]
        /\ dStatus' \in [Delivery -> {"absent", "outstanding", "acknowledged", "fenced"}]
        /\ received' \in [Handle -> SUBSET Delivery]
        /\ seen' \in SUBSET Msg
    BY <2>1, AckType, ReadType, CheckType
  <2> QED BY <1>10, <2>2, CheckReset DEF CheckRead, runVars, mailVars
<1>11. ASSUME NEW h \in Handle, NEW A \in Ack(h), CheckShow(h, A) PROVE TypeOK'
  BY <1>11, AckType, CheckReset DEF CheckShow, Unread, runVars, mailVars
<1>12. ASSUME NEW h \in Handle, NEW A \in Ack(h), NEW wanted \in SUBSET Type,
              CheckNothing(h, A, wanted)
       PROVE TypeOK'
  <2>1. check' \in [Handle -> CheckCall]
    <3>1. CASE check' = [check EXCEPT ![h] = Idle]
      BY <3>1, CheckReset
    <3>2. CASE check' = [check EXCEPT ![h] =
                  [phase |-> "waiting", run |-> @.run, gen |-> @.gen, types |-> wanted]]
      BY <3>2, CheckCalls
    <3> QED BY <1>12, <3>1, <3>2 DEF CheckNothing
  <2> QED BY <1>12, <2>1, AckType DEF CheckNothing, runVars, mailVars
<1>13. ASSUME NEW h \in Handle, CheckWoken(h) PROVE TypeOK'
  <2>1. CASE UNCHANGED <<read, deliveryVars, received, seen>>
    BY <1>13, <2>1, CheckReset DEF CheckWoken, runVars, mailVars, deliveryVars
  <2>2. ASSUME NEW d \in Delivery,
               \/ Replay(h, d, check[h].run, read, dStatus)
               \/ Lease(h, d, check[h].run, read, dStatus, check[h].types),
               Respond(h, d)
        PROVE  TypeOK'
    <3>1. /\ read' \in SUBSET Msg
          /\ created' \in 0 .. MaxDeliveries
          /\ dRun' \in [Delivery -> Run \cup {NoRun}]
          /\ dGen' \in [Delivery -> 0 .. MaxGeneration]
          /\ dMsgs' \in [Delivery -> SUBSET Msg]
          /\ dStatus' \in [Delivery -> {"absent", "outstanding", "acknowledged", "fenced"}]
          /\ received' \in [Handle -> SUBSET Delivery]
          /\ seen' \in SUBSET Msg
      BY <2>2, ReadType, CheckType
    <3> QED BY <1>13, <3>1, CheckReset DEF CheckWoken, runVars, mailVars
  <2> QED BY <1>13, <2>1, <2>2 DEF CheckWoken
<1>14. ASSUME NEW h \in Handle, CheckEnds(h) PROVE TypeOK'
  BY <1>14, CheckReset DEF CheckEnds, runVars, mailVars, deliveryVars
<1>15. CASE Crash
  BY <1>15, WaitersType DEF Crash, runVars, mailVars, deliveryVars
<1>16. CASE UNCHANGED vars
  BY <1>16 DEF vars
<1> QED
  BY <1>1, <1>2, <1>3, <1>4, <1>5, <1>6, <1>7, <1>8, <1>9, <1>10, <1>11, <1>12, <1>13, <1>14,
     <1>15, <1>16 DEF Next, RunStep, MailStep, CheckStep

\* Every column of the four tables, and what a suspended check keeps, stays in
\* its range.
THEOREM TypeCorrect == Spec => []TypeOK
<1>1. Init => TypeOK
  BY DEF Init, TypeOK, Idle, CheckCall
<1> QED BY <1>1, TypeStep, PTL DEF Spec

-----------------------------------------------------------------------------
(***************************************************************************)
(* Consumers.                                                              *)
(***************************************************************************)
\* Mail and checks leave the consumers alone, and mail only wakes waiters.
LEMMA MailFrame ==
  ASSUME MailStep
  PROVE  UNCHANGED runVars /\ ((\E N : Wake(N)) \/ UNCHANGED check)
<1>1. ASSUME NEW r, NEW a, NEW ty, Send(r, a, ty)
      PROVE  UNCHANGED runVars /\ ((\E N : Wake(N)) \/ UNCHANGED check)
  BY <1>1 DEF Send
<1>2. ASSUME NEW r, NEW a, SendLateHeartbeat(r, a) PROVE UNCHANGED runVars /\ UNCHANGED check
  BY <1>2 DEF SendLateHeartbeat
<1>3. ASSUME NEW h, Forward(h)
      PROVE  UNCHANGED runVars /\ ((\E N : Wake(N)) \/ UNCHANGED check)
  BY <1>3 DEF Forward
<1>4. ASSUME NEW h, CheckDirect(h) PROVE UNCHANGED runVars /\ UNCHANGED check
  BY <1>4 DEF CheckDirect
<1>5. ASSUME NEW m, Reply(m) PROVE UNCHANGED runVars /\ UNCHANGED check
  BY <1>5 DEF Reply
<1> QED BY <1>1, <1>2, <1>3, <1>4, <1>5 DEF MailStep

LEMMA CheckFrame ==
  ASSUME NEW h, CheckStep(h)
  PROVE  UNCHANGED runVars
<1>1. ASSUME NEW r, CheckBegin(h, r) PROVE UNCHANGED runVars
  BY <1>1 DEF CheckBegin
<1>2. ASSUME NEW A, CheckRead(h, A) PROVE UNCHANGED runVars
  BY <1>2 DEF CheckRead
<1>3. ASSUME NEW A, CheckShow(h, A) PROVE UNCHANGED runVars
  BY <1>3 DEF CheckShow
<1>4. ASSUME NEW A, NEW wanted, CheckNothing(h, A, wanted) PROVE UNCHANGED runVars
  BY <1>4 DEF CheckNothing
<1>5. ASSUME CheckWoken(h) \/ CheckEnds(h) PROVE UNCHANGED runVars
  BY <1>5 DEF CheckWoken, CheckEnds
<1> QED BY <1>1, <1>2, <1>3, <1>4, <1>5 DEF CheckStep

\* What any step does to the consumers: a generation never falls, and a Run
\* whose generation stays keeps its coordinator.
Generations ==
  \A r \in Run : /\ generation[r] <= generation'[r]
                 /\ generation'[r] = generation[r] => coordinator'[r] = coordinator[r]
                 /\ generation'[r] = 0 => coordinator'[r] = NoHandle

LEMMA GenerationStep == TypeOK /\ CheckInv /\ [Next]_vars => Generations
<1> SUFFICES ASSUME TypeOK, CheckInv, [Next]_vars PROVE Generations
  OBVIOUS
<1> USE DEF Generations
<1>1. \A r \in Run : generation[r] \in Nat /\ (generation[r] = 0 => coordinator[r] = NoHandle)
  BY DEF TypeOK, CheckInv, Exists
<1>2. ASSUME NEW r \in Run, NEW h \in Handle, CreateRun(r, h) PROVE Generations
  BY <1>1, <1>2 DEF CreateRun, Exists, TypeOK
<1>3. ASSUME NEW r \in Run, NEW h \in Handle, BindRun(r, h) PROVE Generations
  BY <1>1, <1>3 DEF BindRun, Exists, TypeOK
<1>4. CASE UNCHANGED <<generation, coordinator>>
  BY <1>1, <1>4
<1>5. CASE RunStep
  BY <1>2, <1>3, <1>4, <1>5 DEF RunStep, Assign, runVars
<1>6. CASE MailStep \/ (\E h \in Handle : CheckStep(h)) \/ Crash \/ UNCHANGED vars
  BY <1>4, <1>6, MailFrame, CheckFrame DEF Crash, runVars, vars
<1> QED BY <1>5, <1>6 DEF Next

\* What any step does to a check: it goes on for the Run and the generation it
\* began with, or begins from the bound pane.
Checks ==
  \A h \in Handle : check'[h].phase # "idle" =>
    \/ /\ check[h].phase # "idle"
       /\ check'[h].run = check[h].run
       /\ check'[h].gen = check[h].gen
    \/ /\ check'[h].run \in Run
       /\ Bound(h, check'[h].run)
       /\ check'[h].gen = generation[check'[h].run]
       /\ UNCHANGED runVars

LEMMA CheckStepEffect == TypeOK /\ [Next]_vars => Checks
<1> SUFFICES ASSUME TypeOK, [Next]_vars PROVE Checks
  OBVIOUS
<1>0. \A h \in Handle : check[h] \in CheckCall
  BY DEF TypeOK
<1>1. CASE \E N : Wake(N)
  BY <1>0, <1>1 DEF Wake, Checks, TypeOK, CheckCall
<1>2. CASE \E R : CancelWaiters(R)
  BY <1>0, <1>2 DEF CancelWaiters, Checks, Idle
<1>3. CASE UNCHANGED check
  BY <1>3 DEF Checks
<1>4. CASE \E h \in Handle : check' = [check EXCEPT ![h] = Idle]
  BY <1>4 DEF Checks, Idle, TypeOK
<1>5. CASE check' = [h \in Handle |-> Idle]
  BY <1>5 DEF Checks, Idle
<1>6. ASSUME NEW h \in Handle, NEW r \in Run, CheckBegin(h, r) PROVE Checks
  BY <1>6 DEF CheckBegin, Checks, TypeOK
<1>7. ASSUME NEW h \in Handle, NEW A, NEW wanted, CheckNothing(h, A, wanted) PROVE Checks
  BY <1>7 DEF CheckNothing, Checks, Idle, TypeOK
<1>8. CASE RunStep
  BY <1>2, <1>3, <1>8 DEF RunStep, CreateRun, BindRun, Assign
<1>9. CASE MailStep
  BY <1>1, <1>3, <1>9, MailFrame
<1>10. ASSUME NEW h \in Handle, CheckStep(h) PROVE Checks
  BY <1>4, <1>6, <1>7, <1>10 DEF CheckStep, CheckRead, CheckShow, CheckWoken, CheckEnds
<1>11. CASE Crash
  BY <1>5, <1>11 DEF Crash
<1> QED BY <1>3, <1>8, <1>9, <1>10, <1>11 DEF Next, vars

LEMMA CheckInvStep == TypeOK /\ CheckInv /\ [Next]_vars => CheckInv'
<1> SUFFICES ASSUME TypeOK, CheckInv, [Next]_vars PROVE CheckInv'
  OBVIOUS
<1>1. Generations /\ Checks
  BY GenerationStep, CheckStepEffect
<1>2. TypeOK'
  BY TypeStep
<1>3. \A r \in Run : generation[r] \in Nat /\ generation'[r] \in Nat
  BY <1>2 DEF TypeOK
<1>4. \A r \in Run : ~Exists(r)' => coordinator'[r] = NoHandle
  BY <1>1, <1>3 DEF Generations, Exists
<1>5. ASSUME NEW h \in Handle, check'[h].phase # "idle"
      PROVE  /\ check'[h].run \in Run
             /\ check'[h].gen <= generation'[check'[h].run]
             /\ check'[h].gen = generation'[check'[h].run] => Bound(h, check[h].run)'
  <2>1. check'[h].gen \in Nat
    BY <1>2, CheckType DEF TypeOK, CheckCall
  <2>2. CASE /\ check[h].phase # "idle"
             /\ check'[h].run = check[h].run
             /\ check'[h].gen = check[h].gen
    <3>1. /\ check[h].run \in Run
          /\ check[h].gen <= generation[check[h].run]
          /\ check[h].gen = generation[check[h].run] => Bound(h, check[h].run)
      BY <2>2 DEF CheckInv
    <3> QED BY <1>1, <1>3, <2>1, <2>2, <3>1 DEF Generations, Bound
  <2>3. CASE /\ check'[h].run \in Run
             /\ Bound(h, check'[h].run)
             /\ check'[h].gen = generation[check'[h].run]
             /\ UNCHANGED runVars
    BY <1>3, <2>3 DEF runVars, Bound
  <2> QED BY <1>1, <1>5, <2>2, <2>3 DEF Checks
<1> QED BY <1>4, <1>5 DEF CheckInv

LEMMA OneRunStep == TypeOK /\ OneRunPerPane /\ [Next]_vars => OneRunPerPane'
<1> SUFFICES ASSUME TypeOK, OneRunPerPane, [Next]_vars PROVE OneRunPerPane'
  OBVIOUS
<1>1. ASSUME NEW r \in Run, NEW h \in Handle,
             coordinator' = [q \in Run |-> IF q = r THEN h
                               ELSE IF q \in Others(h, r) THEN NoHandle ELSE coordinator[q]]
      PROVE  OneRunPerPane'
  BY <1>1 DEF OneRunPerPane, Bound, Others
<1>2. CASE UNCHANGED coordinator
  BY <1>2 DEF OneRunPerPane, Bound
<1>3. CASE RunStep
  BY <1>1, <1>2, <1>3 DEF RunStep, CreateRun, BindRun, Assign, runVars
<1>4. CASE MailStep
  BY <1>2, <1>4 DEF MailStep, Send, SendLateHeartbeat, Forward, CheckDirect, Reply, runVars
<1>5. ASSUME NEW h \in Handle, CheckStep(h) PROVE OneRunPerPane'
  BY <1>2, <1>5 DEF CheckStep, CheckBegin, CheckRead, CheckShow, CheckNothing, CheckWoken,
                    CheckEnds, runVars
<1>6. CASE Crash
  BY <1>2, <1>6 DEF Crash, runVars
<1> QED BY <1>2, <1>3, <1>4, <1>5, <1>6 DEF Next, vars

\* unbindOtherRunsForPane works: no pane is ever the consumer of two Runs.
THEOREM PaneHasOneRun == Spec => []OneRunPerPane
<1>1. Init => OneRunPerPane
  BY DEF Init, OneRunPerPane, Bound
<1> QED BY <1>1, OneRunStep, TypeCorrect, PTL DEF Spec

LEMMA WaiterStep == TypeOK /\ CheckInv /\ WaiterIsConsumer /\ [Next]_vars => WaiterIsConsumer'
<1> SUFFICES ASSUME TypeOK, CheckInv, WaiterIsConsumer, [Next]_vars PROVE WaiterIsConsumer'
  OBVIOUS
<1>0. \A h \in Handle : check[h] \in CheckCall
  BY DEF TypeOK
<1> DEFINE Kept == \A h \in Handle : check'[h].phase = "waiting" =>
                     check[h].phase = "waiting" /\ check'[h] = check[h]
<1>1. ASSUME Kept, UNCHANGED runVars PROVE WaiterIsConsumer'
  BY <1>1 DEF WaiterIsConsumer, Current, Bound, runVars
<1>2. ASSUME NEW N, Wake(N) PROVE Kept
  BY <1>0, <1>2 DEF Wake, CheckCall
<1>3. ASSUME \/ check' = [h \in Handle |-> Idle]
             \/ \E h \in Handle : check' = [check EXCEPT ![h] = Idle]
      PROVE  Kept
  BY <1>3 DEF Idle, TypeOK
<1>4. ASSUME NEW h \in Handle, NEW r \in Run, CheckBegin(h, r) PROVE Kept /\ UNCHANGED runVars
  BY <1>4 DEF CheckBegin, TypeOK, runVars
<1>5. ASSUME NEW h \in Handle, NEW A, NEW wanted, CheckNothing(h, A, wanted)
      PROVE  WaiterIsConsumer'
  <2>1. CASE check' = [check EXCEPT ![h] = Idle]
    BY <1>1, <1>5, <2>1 DEF CheckNothing, Idle, TypeOK, runVars
  <2>2. CASE /\ \A g \in Handle : check[g].phase = "waiting" => check[g].run # check[h].run
             /\ check' = [check EXCEPT ![h] =
                  [phase |-> "waiting", run |-> check[h].run, gen |-> @.gen, types |-> wanted]]
    BY <1>5, <2>2 DEF CheckNothing, WaiterIsConsumer, Current, Bound, TypeOK, runVars
  <2> QED BY <1>5, <2>1, <2>2 DEF CheckNothing
<1>6. ASSUME NEW r \in Run, NEW h \in Handle, CreateRun(r, h) \/ BindRun(r, h)
      PROVE  WaiterIsConsumer'
  <2>1. Kept
    BY <1>6 DEF CreateRun, BindRun, CancelWaiters, Idle
  <2>2. ASSUME NEW g \in Handle, check'[g].phase = "waiting" PROVE Current(g)'
    <3>1. Current(g) /\ check'[g] = check[g] /\ check[g].run \in Run
      BY <2>1, <2>2 DEF WaiterIsConsumer, CheckInv
    <3>2. CASE CreateRun(r, h)
      <4>1. check[g].run \notin Others(h, r)
        BY <2>1, <2>2, <3>2 DEF CreateRun, CancelWaiters, Idle
      <4>2. check[g].run # r
        BY <3>1, <3>2 DEF CreateRun, CheckInv, Current, Bound
      <4>3. /\ generation'[check[g].run] = generation[check[g].run]
            /\ coordinator'[check[g].run] = coordinator[check[g].run]
        BY <3>1, <3>2, <4>1, <4>2 DEF CreateRun
      <4> QED BY <3>1, <4>3 DEF Current, Bound
    <3>3. CASE BindRun(r, h)
      <4>1. check[g].run \notin Others(h, r) \cup {r}
        BY <2>1, <2>2, <3>3 DEF BindRun, CancelWaiters, Idle
      <4>2. /\ generation'[check[g].run] = generation[check[g].run]
            /\ coordinator'[check[g].run] = coordinator[check[g].run]
        BY <3>1, <3>3, <4>1 DEF BindRun
      <4> QED BY <3>1, <4>2 DEF Current, Bound
    <3> QED BY <1>6, <3>2, <3>3
  <2> QED BY <2>1, <2>2 DEF WaiterIsConsumer
<1>7. CASE RunStep
  BY <1>1, <1>6, <1>7 DEF RunStep, Assign
<1>8. CASE MailStep
  <2>1. Kept
    BY <1>2, <1>8, MailFrame
  <2> QED BY <1>1, <1>8, <2>1, MailFrame
<1>9. ASSUME NEW h \in Handle, CheckStep(h) PROVE WaiterIsConsumer'
  BY <1>1, <1>3, <1>4, <1>5, <1>9 DEF CheckStep, CheckRead, CheckShow, CheckWoken, CheckEnds
<1>10. CASE Crash
  BY <1>1, <1>3, <1>10 DEF Crash
<1> QED BY <1>1, <1>7, <1>8, <1>9, <1>10 DEF Next, vars, runVars

\* cancelMessageWaiters leaves no check waiting for a Run whose consumer has
\* changed, and waitForMessage admits one waiter for a Run.
THEOREM WaiterIsTheConsumer == Spec => []WaiterIsConsumer
<1>1. Init => CheckInv /\ WaiterIsConsumer
  BY DEF Init, CheckInv, WaiterIsConsumer, Idle
<1> QED BY <1>1, CheckInvStep, WaiterStep, TypeCorrect, PTL DEF Spec

-----------------------------------------------------------------------------
(***************************************************************************)
(* Deliveries.                                                             *)
(***************************************************************************)
LeaseInv == DeliveryInv /\ ApartInv /\ HandedInv /\ LeaseIsCurrent

\* The mail read rd and the states st of the deliveries are as sound as those
\* the tables hold: what acknowledgeRunDelivery establishes.
Sound(rd, st) ==
  /\ read \subseteq rd
  /\ \A d \in Delivery :
       /\ (st[d] = "absent") <=> (dStatus[d] = "absent")
       /\ st[d] = "outstanding" => dStatus[d] = "outstanding"
       /\ st[d] = "acknowledged" => dMsgs[d] \subseteq rd
  /\ \A d, e \in Delivery :
       /\ d # e
       /\ st[d] \in {"outstanding", "acknowledged"}
       /\ st[e] = "acknowledged"
       => dMsgs[d] \cap dMsgs[e] = {}

LEMMA AckSound ==
  ASSUME TypeOK, LeaseInv, NEW h \in Handle, check[h].run \in Run, NEW A \in Ack(h),
         \A a \in A : Acceptable(h, a)
  PROVE  Sound(ReadWith(A), StatusWith(A))
<1>1. A = {} \/ \E a \in Delivery : A = {a}
  BY DEF Ack, TypeOK
<1>2. CASE A = {}
  BY <1>2 DEF ReadWith, StatusWith, Sound, LeaseInv, ApartInv
<1>3. ASSUME NEW a \in Delivery, A = {a} PROVE Sound(ReadWith(A), StatusWith(A))
  <2>1. dRun[a] \in Run /\ dStatus[a] \in {"outstanding", "acknowledged"}
    BY <1>3 DEF Acceptable, LeaseInv, DeliveryInv, TypeOK
  <2>2. CASE dStatus[a] = "acknowledged"
    <3>1. ReadWith(A) = read /\ \A d \in Delivery : StatusWith(A)[d] = dStatus[d]
      BY <1>3, <2>2 DEF ReadWith, StatusWith
    <3> QED BY <3>1 DEF Sound, LeaseInv, ApartInv
  <2>3. CASE dStatus[a] = "outstanding"
    <3>1. /\ ReadWith(A) = read \cup dMsgs[a]
          /\ \A d \in Delivery : StatusWith(A)[d] = IF d = a THEN "acknowledged" ELSE dStatus[d]
      BY <1>3, <2>3 DEF ReadWith, StatusWith
    <3>2. ASSUME NEW d \in Delivery, d # a, dStatus[d] \in {"outstanding", "acknowledged"}
          PROVE  dMsgs[d] \cap dMsgs[a] = {}
      <4>1. CASE dStatus[d] = "acknowledged"
        BY <2>3, <3>2, <4>1 DEF LeaseInv, ApartInv
      <4>2. CASE dStatus[d] = "outstanding"
        <5>1. dRun[d] # dRun[a]
          BY <2>3, <3>2, <4>2 DEF LeaseInv, LeaseIsCurrent
        <5>2. /\ \A m \in dMsgs[d] : msgRun[m] = dRun[d]
              /\ \A m \in dMsgs[a] : msgRun[m] = dRun[a]
          BY <2>3, <4>2 DEF LeaseInv, DeliveryInv, TypeOK
        <5> QED BY <5>1, <5>2
      <4> QED BY <3>2, <4>1, <4>2
    <3> QED BY <2>3, <3>1, <3>2 DEF Sound, LeaseInv, ApartInv
  <2> QED BY <2>1, <2>2, <2>3
<1> QED BY <1>1, <1>2, <1>3

\* A step that creates no Delivery and hands none out, and leaves the consumers.
LEMMA KeepStep ==
  ASSUME TypeOK, TypeOK', LeaseInv, MessageInv, Sound(read', dStatus'), seen \subseteq seen',
         UNCHANGED <<created, dRun, dGen, dMsgs, received, generation, coordinator>>,
         \A m \in Msg : m <= sent => msgRun'[m] = msgRun[m]
  PROVE  LeaseInv'
<1>1. DeliveryInv'
  <2>1. ASSUME NEW d \in Delivery, d <= created, NEW m \in dMsgs[d] PROVE msgRun'[m] = dRun[d]
    <3>1. m \in Msg /\ msgRun[m] = dRun[d] /\ dRun[d] \in Run
      BY <2>1 DEF LeaseInv, DeliveryInv, TypeOK
    <3>2. m <= sent
      BY <3>1 DEF MessageInv, TypeOK, Msg
    <3> QED BY <3>1, <3>2
  <2> QED BY <2>1 DEF LeaseInv, DeliveryInv, Sound
<1>2. ApartInv'
  BY DEF ApartInv, Sound
<1>3. HandedInv'
  BY DEF LeaseInv, HandedInv
<1>4. LeaseIsCurrent'
  BY DEF LeaseInv, LeaseIsCurrent, Sound
<1> QED BY <1>1, <1>2, <1>3, <1>4 DEF LeaseInv

\* A step that fences the deliveries of the Runs R, whose consumer changes.
LEMMA FenceStep ==
  ASSUME TypeOK, LeaseInv, NEW R, Fence(R),
         UNCHANGED <<created, dRun, dGen, dMsgs, received, seen, read, msgRun>>,
         \A q \in Run \ R : /\ generation'[q] = generation[q]
                            /\ coordinator[q] # NoHandle => coordinator'[q] # NoHandle
  PROVE  LeaseInv'
<1>1. \A d \in Delivery : dStatus'[d] =
        IF dRun[d] \in R /\ dStatus[d] = "outstanding" THEN "fenced" ELSE dStatus[d]
  BY DEF Fence
<1>2. DeliveryInv'
  BY <1>1 DEF LeaseInv, DeliveryInv
<1>3. ApartInv'
  BY <1>1 DEF LeaseInv, ApartInv
<1>4. HandedInv'
  BY DEF LeaseInv, HandedInv
<1>5. LeaseIsCurrent'
  <2>1. \A d \in Delivery : dStatus'[d] = "outstanding" =>
          dStatus[d] = "outstanding" /\ dRun[d] \in Run \ R
    BY <1>1 DEF LeaseInv, DeliveryInv, TypeOK
  <2> QED BY <2>1 DEF LeaseInv, LeaseIsCurrent
<1> QED BY <1>2, <1>3, <1>4, <1>5 DEF LeaseInv

\* getOrCreateRunDelivery for the present consumer, and its response.
LEMMA ReadStep ==
  ASSUME TypeOK, LeaseInv, NEW h \in Handle, NEW d \in Delivery, NEW r \in Run,
         NEW rd \in SUBSET Msg, NEW st, NEW wanted,
         st \in [Delivery -> {"absent", "outstanding", "acknowledged", "fenced"}],
         Sound(rd, st), check[h].gen = generation[r], coordinator[r] # NoHandle,
         Replay(h, d, r, rd, st) \/ Lease(h, d, r, rd, st, wanted), Respond(h, d),
         UNCHANGED <<generation, coordinator, msgRun>>
  PROVE  LeaseInv'
<1>1. CASE Replay(h, d, r, rd, st)
  <2>1. /\ UNCHANGED <<created, dRun, dGen, dMsgs>>
        /\ read' = rd /\ dStatus' = st /\ st[d] = "outstanding"
    BY <1>1 DEF Replay
  <2>2. DeliveryInv'
    BY <2>1 DEF LeaseInv, DeliveryInv, Sound
  <2>3. ApartInv'
    BY <2>1 DEF ApartInv, Sound
  <2>4. d <= created
    BY <2>1 DEF LeaseInv, DeliveryInv, Sound
  <2>5. HandedInv'
    BY <2>1, <2>4 DEF LeaseInv, HandedInv, Respond, TypeOK
  <2>6. LeaseIsCurrent'
    BY <2>1 DEF LeaseInv, LeaseIsCurrent, Sound
  <2> QED BY <2>2, <2>3, <2>5, <2>6 DEF LeaseInv
<1>2. CASE Lease(h, d, r, rd, st, wanted)
  <2>1. /\ \A e \in Delivery : dRun[e] = r => st[e] # "outstanding"
        /\ d = created + 1 /\ created' = d /\ read' = rd
        /\ dRun' = [dRun EXCEPT ![d] = r]
        /\ dGen' = [dGen EXCEPT ![d] = check[h].gen]
        /\ dMsgs' = [dMsgs EXCEPT ![d] = Batch(Unread(r) \ rd)]
        /\ dStatus' = [st EXCEPT ![d] = "outstanding"]
    BY <1>2 DEF Lease
  <2>2. \A m \in Batch(Unread(r) \ rd) : m \in Msg /\ m \notin rd /\ msgRun[m] = r
    BY DEF Batch, Unread
  <2>3. /\ \A e \in Delivery \ {d} : /\ dRun'[e] = dRun[e] /\ dGen'[e] = dGen[e]
                                     /\ dMsgs'[e] = dMsgs[e] /\ dStatus'[e] = st[e]
        /\ dRun'[d] = r /\ dGen'[d] = generation[r] /\ dStatus'[d] = "outstanding"
        /\ dMsgs'[d] = Batch(Unread(r) \ rd)
    BY <2>1 DEF TypeOK
  <2>4. created \in Nat /\ \A e \in Delivery : e \in Nat
    BY DEF TypeOK, Delivery
  <2>5. DeliveryInv'
    <3>1. ASSUME NEW e \in Delivery, e # d, e <= created
          PROVE  dStatus'[e] # "absent" /\ dRun'[e] \in Run
                 /\ \A m \in dMsgs'[e] : msgRun'[m] = dRun'[e]
      BY <2>3, <3>1 DEF LeaseInv, DeliveryInv, Sound
    <3>2. dStatus'[d] # "absent" /\ dRun'[d] \in Run
          /\ \A m \in dMsgs'[d] : msgRun'[m] = dRun'[d]
      BY <2>2, <2>3
    <3>3. ASSUME NEW e \in Delivery, ~(e <= created) , e # d
          PROVE  dStatus'[e] = "absent" /\ dRun'[e] = NoRun
      BY <2>3, <3>3 DEF LeaseInv, DeliveryInv, Sound
    <3>4. \A e \in Delivery : e <= created' <=> e = d \/ e <= created
      BY <2>1, <2>4
    <3>5. ~(d <= created)
      BY <2>1, <2>4
    <3> QED BY <3>1, <3>2, <3>3, <3>4, <3>5 DEF DeliveryInv
  <2>6. ApartInv'
    <3>1. \A e \in Delivery : dStatus'[e] = "acknowledged" =>
            e # d /\ st[e] = "acknowledged" /\ dMsgs'[e] = dMsgs[e] /\ dMsgs[e] \subseteq rd
      BY <2>3 DEF Sound
    <3>2. \A e \in Delivery : dStatus'[e] = "acknowledged" => dMsgs'[d] \cap dMsgs'[e] = {}
      <4>1. \A m \in dMsgs'[d] : m \notin rd
        BY <2>2, <2>3
      <4> QED BY <3>1, <4>1
    <3>3. ASSUME NEW x \in Delivery, NEW e \in Delivery, x # e, x # d,
                 dStatus'[x] \in {"outstanding", "acknowledged"}, dStatus'[e] = "acknowledged"
          PROVE  dMsgs'[x] \cap dMsgs'[e] = {}
      BY <2>3, <3>1, <3>3 DEF Sound
    <3> QED BY <2>1, <3>1, <3>2, <3>3 DEF ApartInv
  <2>7. HandedInv'
    <3>1. ASSUME NEW g \in Handle, NEW e \in received[g]
          PROVE  e <= created' /\ dMsgs'[e] \subseteq seen'
      <4>1. e \in Delivery /\ e <= created /\ dMsgs[e] \subseteq seen
        BY <3>1 DEF LeaseInv, HandedInv, TypeOK
      <4>2. e # d /\ e <= created'
        <5>1. e \in Nat /\ created \in Nat /\ d = created + 1 /\ created' = d
          BY <2>1, <2>4, <4>1
        <5> QED BY <4>1, <5>1
      <4>3. dMsgs'[e] = dMsgs[e]
        BY <2>3, <4>1, <4>2
      <4>4. seen \subseteq seen'
        BY DEF Respond
      <4> QED BY <4>1, <4>2, <4>3, <4>4
    <3>2. d <= created'
      BY <2>1, <2>4
    <3>3. CASE UNCHANGED received
      BY <3>1, <3>3 DEF HandedInv
    <3>4. CASE /\ received' = [received EXCEPT ![h] = @ \cup {d}]
               /\ seen' = seen \cup dMsgs'[d]
      <4>1. \A g \in Handle : received'[g] \subseteq received[g] \cup {d}
        BY <3>4 DEF TypeOK
      <4>2. dMsgs'[d] \subseteq seen'
        BY <3>4
      <4> QED BY <3>1, <3>2, <4>1, <4>2 DEF HandedInv
    <3> QED BY <3>3, <3>4 DEF Respond
  <2>8. LeaseIsCurrent'
    BY <2>1, <2>3 DEF LeaseInv, LeaseIsCurrent, Sound
  <2> QED BY <2>5, <2>6, <2>7, <2>8 DEF LeaseInv
<1> QED BY <1>1, <1>2

\* Nothing is read or shown before it is sent.
LEMMA MessageStep == TypeOK /\ MessageInv /\ DeliveryInv /\ CheckInv /\ [Next]_vars => MessageInv'
<1> SUFFICES ASSUME TypeOK, MessageInv, DeliveryInv, CheckInv, [Next]_vars PROVE MessageInv'
  OBVIOUS
<1> DEFINE Stored == { m \in Msg : m <= sent }
<1>0. \A m \in Msg : msgRun[m] \in Run => m \in Stored
  BY DEF MessageInv, TypeOK, Msg
<1>1. ASSUME NEW d \in Delivery, dStatus[d] # "absent" PROVE dMsgs[d] \subseteq Stored
  <2>1. dRun[d] \in Run /\ \A m \in dMsgs[d] : m \in Msg /\ msgRun[m] = dRun[d]
    BY <1>1 DEF DeliveryInv, TypeOK
  <2> QED BY <1>0, <2>1
<1>2. ASSUME UNCHANGED <<sent, msgRun>>, read' \subseteq read \cup Stored,
             seen' \subseteq seen \cup Stored
      PROVE  MessageInv'
  BY <1>2 DEF MessageInv, TypeOK, Msg
<1>3. seen \subseteq Stored
  BY DEF MessageInv, TypeOK, Msg
<1>4. ASSUME NEW h \in Handle, NEW A \in Ack(h)
      PROVE  /\ ReadWith(A) \subseteq read \cup Stored
             /\ \A d \in Delivery : StatusWith(A)[d] = "outstanding" => dMsgs[d] \subseteq Stored
  BY <1>1, AckType DEF ReadWith, StatusWith
<1>5. ASSUME NEW m, NEW r \in Run, NEW ty, Insert(m, r, ty), seen' = seen,
             read' \subseteq read \cup Stored \cup {m}
      PROVE  MessageInv'
  BY <1>5 DEF Insert, MessageInv, TypeOK, Msg
<1>6. CASE RunStep
  BY <1>2, <1>6 DEF RunStep, CreateRun, BindRun, Assign, mailVars
<1>7. CASE MailStep
  <2>1. ASSUME NEW r \in Run, NEW a, NEW ty, Send(r, a, ty) PROVE MessageInv'
    <3>1. Heartbeats(r, Entry(r, a)) \subseteq Stored
      BY <1>0 DEF Heartbeats
    <3> QED BY <1>5, <2>1, <3>1 DEF Send
  <2>2. ASSUME NEW r \in Run, NEW a, SendLateHeartbeat(r, a) PROVE MessageInv'
    BY <1>5, <2>2 DEF SendLateHeartbeat
  <2>3. ASSUME NEW h \in Handle, CheckDirect(h) PROVE MessageInv'
    <3>1. PICK R \in SUBSET Run : read' = read \cup { m \in Msg : box[m] = h /\ msgRun[m] \in R }
      BY <2>3 DEF CheckDirect
    <3>2. read' \subseteq read \cup Stored
      BY <1>0, <3>1
    <3> QED BY <1>2, <2>3, <3>2 DEF CheckDirect, mailVars
  <2>4. ASSUME NEW h \in Handle, Forward(h) PROVE MessageInv'
    BY <1>2, <2>4 DEF Forward, mailVars
  <2>5. ASSUME NEW m \in Msg, Reply(m) PROVE MessageInv'
    BY <1>2, <1>3, <2>5 DEF Reply, mailVars
  <2> QED BY <1>7, <2>1, <2>2, <2>3, <2>4, <2>5 DEF MailStep
<1>8. ASSUME NEW h \in Handle, CheckStep(h) PROVE MessageInv'
  <2>1. UNCHANGED <<sent, msgRun>>
    BY <1>8 DEF CheckStep, CheckBegin, CheckRead, CheckShow, CheckNothing, CheckWoken, CheckEnds,
                mailVars
  <2>2. UNCHANGED read \/ \E A \in Ack(h) : read' = ReadWith(A)
    BY <1>8 DEF CheckStep, CheckBegin, CheckRead, CheckShow, CheckNothing, CheckWoken, CheckEnds,
                Replay, Lease
  <2>3. seen' \subseteq seen \cup Stored
    <3>1. \A r \in Run : Unread(r) \subseteq Stored
      BY <1>0 DEF Unread
    <3>2. ASSUME NEW d \in Delivery, NEW r \in Run, NEW rd, NEW st, NEW wanted, Respond(h, d),
                 \A e \in Delivery : st[e] = "outstanding" => dMsgs[e] \subseteq Stored,
                 Replay(h, d, r, rd, st) \/ Lease(h, d, r, rd, st, wanted)
          PROVE  seen' \subseteq seen \cup Stored
      <4>1. dMsgs'[d] \subseteq Stored
        <5>1. CASE Replay(h, d, r, rd, st)
          BY <3>2, <5>1 DEF Replay
        <5>2. CASE Lease(h, d, r, rd, st, wanted)
          <6>1. dMsgs'[d] = Batch(Unread(r) \ rd)
            BY <5>2 DEF Lease, TypeOK
          <6> QED BY <3>1, <6>1 DEF Batch
        <5> QED BY <3>2, <5>1, <5>2
      <4> QED BY <3>2, <4>1 DEF Respond
    <3>3. check[h].phase # "idle" => check[h].run \in Run
      BY DEF CheckInv
    <3>4. ASSUME NEW A \in Ack(h), CheckRead(h, A) PROVE seen' \subseteq seen \cup Stored
      BY <1>4, <3>2, <3>3, <3>4 DEF CheckRead
    <3>5. ASSUME CheckWoken(h) PROVE seen' \subseteq seen \cup Stored
      <4>1. \A e \in Delivery : dStatus[e] = "outstanding" => dMsgs[e] \subseteq Stored
        BY <1>1
      <4> QED BY <3>2, <3>3, <3>5, <4>1 DEF CheckWoken
    <3>6. ASSUME NEW A \in Ack(h), CheckShow(h, A) PROVE seen' \subseteq seen \cup Stored
      BY <3>1, <3>3, <3>6 DEF CheckShow
    <3>7. UNCHANGED seen \/ (\E A \in Ack(h) : CheckRead(h, A) \/ CheckShow(h, A)) \/ CheckWoken(h)
      BY <1>8 DEF CheckStep, CheckBegin, CheckNothing, CheckEnds
    <3> QED BY <3>4, <3>5, <3>6, <3>7
  <2> QED BY <1>2, <1>4, <2>1, <2>2, <2>3
<1>9. CASE Crash \/ UNCHANGED vars
  BY <1>2, <1>9 DEF Crash, vars, mailVars
<1> QED BY <1>6, <1>7, <1>8, <1>9 DEF Next

\* The deliveries stay sound with any step.
LEMMA LeaseStep ==
  TypeOK /\ LeaseInv /\ MessageInv /\ CheckInv /\ [Next]_vars => LeaseInv'
<1> SUFFICES ASSUME TypeOK, LeaseInv, MessageInv, CheckInv, [Next]_vars PROVE LeaseInv'
  OBVIOUS
<1>1. TypeOK'
  BY TypeStep
<1>2. Sound(read, dStatus)
  BY DEF Sound, LeaseInv, ApartInv
<1>3. ASSUME NEW rd, Sound(rd, dStatus), read' = rd, UNCHANGED dStatus PROVE Sound(read', dStatus')
  BY <1>3
<1>4. ASSUME NEW rd, read \subseteq rd PROVE Sound(rd, dStatus)
  BY <1>2, <1>4 DEF Sound
<1>5. ASSUME UNCHANGED <<created, dRun, dGen, dMsgs, dStatus, received, seen, generation, coordinator>>,
             read \subseteq read', \A m \in Msg : m <= sent => msgRun'[m] = msgRun[m]
      PROVE  LeaseInv'
  BY <1>1, <1>4, <1>5, KeepStep
<1>6. ASSUME NEW m, NEW r \in Run, NEW ty, Insert(m, r, ty)
      PROVE  \A k \in Msg : k <= sent => msgRun'[k] = msgRun[k]
  BY <1>6 DEF Insert, TypeOK, Msg
<1>7. ASSUME NEW h \in Handle, check[h].phase # "idle" PROVE check[h].run \in Run
  BY <1>7 DEF CheckInv
<1>8. CASE RunStep
  <2>1. ASSUME NEW r \in Run, NEW h \in Handle, CreateRun(r, h) PROVE LeaseInv'
    <3>1. \A q \in Run \ Others(h, r) :
            /\ q # r => generation'[q] = generation[q] /\ coordinator'[q] = coordinator[q]
            /\ q = r => coordinator'[q] # NoHandle
      BY <2>1 DEF CreateRun, TypeOK
    <3>2. \A d \in Delivery : dRun[d] = r => dStatus[d] # "outstanding"
      BY <2>1 DEF CreateRun, Exists, LeaseInv, LeaseIsCurrent, CheckInv
    <3>3. Fence(Others(h, r) \cup {r})
      BY <2>1, <3>2 DEF CreateRun, Fence
    <3> QED BY <2>1, <3>1, <3>3, FenceStep DEF CreateRun, mailVars
  <2>2. ASSUME NEW r \in Run, NEW h \in Handle, BindRun(r, h) PROVE LeaseInv'
    <3>1. PICK R : R = Others(h, r) \cup (IF coordinator[r] = h THEN {} ELSE {r})
      OBVIOUS
    <3>2. Fence(R)
      BY <2>2, <3>1 DEF BindRun
    <3>3. \A q \in Run \ R : /\ generation'[q] = generation[q]
                             /\ coordinator[q] # NoHandle => coordinator'[q] # NoHandle
      BY <2>2, <3>1 DEF BindRun, TypeOK
    <3> QED BY <2>2, <3>2, <3>3, FenceStep DEF BindRun, mailVars
  <2>3. ASSUME NEW r \in Run, NEW h \in Handle, Assign(r, h) PROVE LeaseInv'
    BY <1>5, <2>3 DEF Assign, runVars, mailVars, deliveryVars
  <2> QED BY <1>8, <2>1, <2>2, <2>3 DEF RunStep
<1>9. CASE MailStep
  <2>1. ASSUME NEW r \in Run, NEW a, NEW ty, Send(r, a, ty) PROVE LeaseInv'
    BY <1>5, <1>6, <2>1 DEF Send, runVars, deliveryVars
  <2>2. ASSUME NEW r \in Run, NEW a, SendLateHeartbeat(r, a) PROVE LeaseInv'
    BY <1>5, <1>6, <2>2 DEF SendLateHeartbeat, runVars, deliveryVars
  <2>3. ASSUME NEW h \in Handle, Forward(h) \/ CheckDirect(h) PROVE LeaseInv'
    BY <1>5, <2>3 DEF Forward, CheckDirect, runVars, mailVars, deliveryVars
  <2>4. ASSUME NEW m \in Msg, Reply(m) PROVE LeaseInv'
    BY <1>5, <2>4 DEF Reply, runVars, mailVars, deliveryVars
  <2> QED BY <1>9, <2>1, <2>2, <2>3, <2>4 DEF MailStep
<1>10. ASSUME NEW h \in Handle, CheckStep(h) PROVE LeaseInv'
  <2>1. ASSUME NEW r \in Run, CheckBegin(h, r) PROVE LeaseInv'
    BY <1>5, <2>1 DEF CheckBegin, runVars, mailVars, deliveryVars
  <2>2. CASE CheckEnds(h)
    BY <1>5, <2>2 DEF CheckEnds, runVars, mailVars, deliveryVars
  <2>3. ASSUME NEW A \in Ack(h), check[h].phase = "routing", \A a \in A : Acceptable(h, a)
        PROVE  Sound(ReadWith(A), StatusWith(A))
    BY <1>7, <2>3, AckSound
  <2>4. ASSUME NEW A \in Ack(h), CheckShow(h, A) \/ \E wanted : CheckNothing(h, A, wanted)
        PROVE  LeaseInv'
    <3>1. Sound(read', dStatus')
      BY <2>3, <2>4 DEF CheckShow, CheckNothing
    <3> QED BY <1>1, <2>4, <3>1, KeepStep DEF CheckShow, CheckNothing, runVars, mailVars
  <2>5. ASSUME NEW A \in Ack(h), CheckRead(h, A) PROVE LeaseInv'
    <3>1. /\ Sound(ReadWith(A), StatusWith(A))
          /\ check[h].run \in Run
          /\ check[h].gen = generation[check[h].run]
          /\ coordinator[check[h].run] # NoHandle
      BY <1>7, <2>3, <2>5 DEF CheckRead, Current, Bound
    <3>2. PICK d \in Delivery :
            /\ \/ Replay(h, d, check[h].run, ReadWith(A), StatusWith(A))
               \/ Lease(h, d, check[h].run, ReadWith(A), StatusWith(A), Type)
            /\ Respond(h, d)
      BY <2>5 DEF CheckRead
    <3>3. UNCHANGED <<generation, coordinator, msgRun>>
      BY <2>5 DEF CheckRead, runVars, mailVars
    <3> QED BY <3>1, <3>2, <3>3, AckType, ReadStep
  <2>6. CASE CheckWoken(h)
    <3>1. /\ check[h].run \in Run
          /\ check[h].gen = generation[check[h].run]
          /\ coordinator[check[h].run] # NoHandle
      BY <1>7, <2>6 DEF CheckWoken, CheckInv, Bound
    <3>2. UNCHANGED <<generation, coordinator, msgRun>>
      BY <2>6 DEF CheckWoken, runVars, mailVars
    <3>3. CASE UNCHANGED <<read, deliveryVars, received, seen>>
      BY <1>5, <2>6, <3>3 DEF CheckWoken, runVars, mailVars, deliveryVars
    <3>4. ASSUME NEW d \in Delivery,
                 \/ Replay(h, d, check[h].run, read, dStatus)
                 \/ Lease(h, d, check[h].run, read, dStatus, check[h].types),
                 Respond(h, d)
          PROVE  LeaseInv'
      BY <1>2, <3>1, <3>2, <3>4, ReadStep DEF TypeOK
    <3> QED BY <2>6, <3>3, <3>4 DEF CheckWoken
  <2> QED BY <1>10, <2>1, <2>2, <2>4, <2>5, <2>6 DEF CheckStep
<1>11. CASE Crash \/ UNCHANGED vars
  BY <1>5, <1>11 DEF Crash, vars, runVars, mailVars, deliveryVars
<1> QED BY <1>8, <1>9, <1>10, <1>11 DEF Next

LEMMA DeliveriesAreSound == Spec => [](TypeOK /\ LeaseInv /\ MessageInv /\ CheckInv)
<1>1. Init => LeaseInv /\ MessageInv /\ CheckInv
  <2>1. Init => DeliveryInv /\ MessageInv /\ CheckInv /\ LeaseIsCurrent
    BY DEF Init, DeliveryInv, MessageInv, CheckInv, LeaseIsCurrent, Idle, Delivery, Msg
  <2>2. Init => ApartInv /\ HandedInv
    BY DEF Init, ApartInv, HandedInv
  <2> QED BY <2>1, <2>2 DEF LeaseInv
<1>2. LeaseInv => DeliveryInv
  BY DEF LeaseInv
<1> QED BY <1>1, <1>2, LeaseStep, MessageStep, CheckInvStep, TypeCorrect, PTL DEF Spec

\* However checks, takeovers, messages and crashes interleave, a Run has at
\* most one outstanding Delivery, and it carries the present consumer
\* generation: fenceOutstandingDelivery runs wherever the generation rises.
THEOREM LeasesAreCurrent == Spec => []LeaseIsCurrent
<1>1. LeaseInv => LeaseIsCurrent
  BY DEF LeaseInv
<1> QED BY <1>1, DeliveriesAreSound, PTL

\* No message is processed twice: acknowledgeRunDelivery and
\* getOrCreateRunDelivery never let two acknowledged deliveries share one.
THEOREM MailIsAcknowledgedOnce == Spec => []AcknowledgedOnce
<1>1. LeaseInv => AcknowledgedOnce
  BY DEF LeaseInv, ApartInv, AcknowledgedOnce
<1> QED BY <1>1, DeliveriesAreSound, PTL

\* The parts of the invariant that a run checks all hold.
THEOREM MailboxIsSound == Spec => []MailboxInv
<1>1. LeaseInv /\ MessageInv /\ CheckInv => MailboxInv
  BY DEF LeaseInv, MailboxInv
<1> QED BY <1>1, DeliveriesAreSound, PTL

-----------------------------------------------------------------------------
(***************************************************************************)
(* No mail is lost.                                                        *)
(***************************************************************************)
LEMMA SeenStep ==
  ASSUME "unsolicited" \notin Ops
  PROVE  TypeOK /\ LeaseInv /\ MessageInv /\ ReadWasSeen /\ [Next]_vars => ReadWasSeen'
<1> SUFFICES ASSUME TypeOK, LeaseInv, MessageInv, ReadWasSeen, [Next]_vars PROVE ReadWasSeen'
  OBVIOUS
<1>1. ASSUME NEW S, Route(S), S \cap read = {}, UNCHANGED <<read, msgType, seen>>
      PROVE  ReadWasSeen'
  BY <1>1 DEF Route, ReadWasSeen, TypeOK
<1>2. ASSUME UNCHANGED <<box, msgType>>, read' \subseteq read \cup seen, seen \subseteq seen'
      PROVE  ReadWasSeen'
  BY <1>2 DEF ReadWasSeen
<1>3. \A r, H : Direct(r, H) \cap read = {}
  BY DEF Direct
<1>4. \A h, r : Forwardable(h) \cap read = {} /\ Forsaken(h, r) \cap read = {}
  BY <1>3 DEF Forwardable, Forsaken
<1>5. \A h \in Handle : \A A \in Ack(h) : ReadWith(A) \subseteq read \cup seen
  BY DEF Ack, ReadWith, LeaseInv, HandedInv
<1>6. CASE RunStep
  <2>1. ASSUME NEW r \in Run, NEW h \in Handle, CreateRun(r, h) PROVE ReadWasSeen'
    BY <1>1, <1>4, <2>1 DEF CreateRun, mailVars
  <2>2. ASSUME NEW r \in Run, NEW h \in Handle, BindRun(r, h) PROVE ReadWasSeen'
    <3>1. Route(Forsaken(h, r) \cup Direct(r, {coordinator[r], h}))
      BY <2>2 DEF BindRun
    <3>2. (Forsaken(h, r) \cup Direct(r, {coordinator[r], h})) \cap read = {}
      BY <1>3, <1>4
    <3> QED BY <1>1, <2>2, <3>1, <3>2 DEF BindRun, mailVars
  <2>3. ASSUME NEW r \in Run, NEW h \in Handle, Assign(r, h) PROVE ReadWasSeen'
    BY <1>2, <2>3 DEF Assign, mailVars
  <2> QED BY <1>6, <2>1, <2>2, <2>3 DEF RunStep
<1>7. CASE MailStep
  <2>1. ASSUME NEW m, NEW r \in Run, NEW ty, Insert(m, r, ty)
        PROVE  m \in Msg /\ m \notin read /\ msgRun[m] = NoRun
               /\ msgType' = [msgType EXCEPT ![m] = ty]
    <3>1. m \in Msg /\ m > sent
      BY <2>1 DEF Insert, TypeOK, Msg
    <3> QED BY <2>1, <3>1 DEF Insert, MessageInv
  <2>2. ASSUME NEW r \in Run, NEW a \in Handle \cup {"run"}, NEW ty \in Type, Send(r, a, ty)
        PROVE  ReadWasSeen'
    <3>1. PICK H \in SUBSET Heartbeats(r, Entry(r, a)) :
            /\ read' = read \cup H
            /\ \A k \in Msg \ {sent + 1} : box'[k] = "run" =>
                 box[k] = "run" \/ k \in Forwardable(a) \ H
      BY <2>2 DEF Send
    <3>2. /\ sent + 1 \in Msg /\ sent + 1 \notin read /\ msgRun[sent + 1] = NoRun
          /\ msgType' = [msgType EXCEPT ![sent + 1] = ty]
      BY <2>1, <2>2 DEF Send
    <3>3. \A k \in H : k # sent + 1 /\ msgType'[k] = "heartbeat"
      <4>1. ASSUME NEW k \in H
            PROVE  k \in Msg /\ msgRun[k] = r /\ msgType[k] = "heartbeat"
        BY <3>1, <4>1 DEF Heartbeats
      <4>2. msgType \in [Msg -> Type \cup {"none"}] /\ NoRun \notin Run
        BY RunMailboxAssumption DEF TypeOK
      <4> QED BY <3>2, <4>1, <4>2
    <3>4. \A k \in read : /\ k \in Msg \ {sent + 1} /\ msgType'[k] = msgType[k]
                          /\ k \notin Forwardable(a)
      BY <1>4, <3>2 DEF TypeOK
    <3> QED BY <2>2, <3>1, <3>3, <3>4 DEF Send, ReadWasSeen
  <2>3. ASSUME NEW r \in Run, NEW a, SendLateHeartbeat(r, a) PROVE ReadWasSeen'
    <3>1. Insert(sent + 1, r, "heartbeat")
      BY <2>3 DEF SendLateHeartbeat
    <3>2. /\ sent + 1 \in Msg /\ sent + 1 \notin read
          /\ msgType' = [msgType EXCEPT ![sent + 1] = "heartbeat"]
      BY <2>1, <3>1
    <3>3. msgType'[sent + 1] = "heartbeat"
      BY <3>2 DEF TypeOK
    <3>4. \A k \in read : msgType'[k] = msgType[k] /\ box'[k] = box[k]
      BY <2>3, <3>2 DEF SendLateHeartbeat, TypeOK
    <3> QED BY <2>3, <3>3, <3>4 DEF SendLateHeartbeat, ReadWasSeen
  <2>4. ASSUME NEW h \in Handle, Forward(h) PROVE ReadWasSeen'
    BY <1>1, <1>4, <2>4 DEF Forward, mailVars
  <2>5. ASSUME NEW h \in Handle, CheckDirect(h) PROVE ReadWasSeen'
    BY <2>5 DEF CheckDirect, ReadWasSeen, mailVars
  <2>6. ASSUME NEW m \in Msg, Reply(m) PROVE ReadWasSeen'
    BY <1>2, <2>6 DEF Reply, mailVars
  <2> QED BY <1>7, <2>2, <2>3, <2>4, <2>5, <2>6 DEF MailStep
<1>8. ASSUME NEW h \in Handle, CheckStep(h) PROVE ReadWasSeen'
  <2>1. ASSUME NEW r \in Run, CheckBegin(h, r) PROVE ReadWasSeen'
    BY <1>1, <1>3, <2>1 DEF CheckBegin, mailVars
  <2>2. CASE ~\E r \in Run : CheckBegin(h, r)
    <3>1. UNCHANGED <<box, msgType>> /\ seen \subseteq seen'
      BY <1>8, <2>2 DEF CheckStep, CheckRead, CheckShow, CheckNothing, CheckWoken, CheckEnds,
                        Respond, mailVars
    <3>2. read' = read \/ \E A \in Ack(h) : read' = ReadWith(A)
      BY <1>8, <2>2 DEF CheckStep, CheckRead, CheckShow, CheckNothing, CheckWoken, CheckEnds,
                        Replay, Lease
    <3> QED BY <1>2, <1>5, <3>1, <3>2
  <2> QED BY <2>1, <2>2
<1>9. CASE Crash \/ UNCHANGED vars
  BY <1>2, <1>9 DEF Crash, vars, mailVars
<1> QED BY <1>6, <1>7, <1>8, <1>9 DEF Next

\* Mail in a Run's mailbox becomes read only after some agent was shown it:
\* a dropped response, a crash, a takeover or an acknowledgment that arrives
\* late never marks unseen mail read.  Heartbeats may be suppressed unseen,
\* and a reply marks read what it answers: agents are assumed to reply only
\* to mail that was shown.
THEOREM NoMailIsLost ==
  ASSUME "unsolicited" \notin Ops
  PROVE  Spec => []ReadWasSeen
<1>1. Init => ReadWasSeen
  BY DEF Init, ReadWasSeen
<1> QED BY <1>1, SeenStep, DeliveriesAreSound, PTL DEF Spec

-----------------------------------------------------------------------------
(***************************************************************************)
(* No wakeup is lost.  It needs panes that are named by one handle each:   *)
(* the check of a second handle of the pane routes mail without waking the *)
(* first one's waiter, and then reads that mail itself.                    *)
(***************************************************************************)
OneHandlePerPane == \A g, h \in Handle : PaneOf[g] = PaneOf[h] => g = h

\* No Run's mailbox gains unread mail but what N holds, of which Run and type.
Brings(N) ==
  \A m \in Msg, r \in Run : m \in Unread(r)' =>
    (m \in Unread(r) /\ msgType'[m] = msgType[m]) \/ <<r, msgType'[m]>> \in N

LEMMA NoMailNext ==
  ASSUME \A h \in Handle : check'[h].phase = "waiting" => check'[h].run \in Run,
         \A h \in Handle, r \in Run, m \in Msg :
           check'[h].phase = "waiting" /\ check'[h].run = r /\ m \in Unread(r)' =>
             msgType'[m] \notin check'[h].types
  PROVE  WaiterHasNoMail'
  BY DEF WaiterHasNoMail, Unread

LEMMA WakeEnough ==
  ASSUME TypeOK, CheckInv, WaiterHasNoMail, NEW N, Wake(N), Brings(N)
  PROVE  WaiterHasNoMail'
<1>1. ASSUME NEW h \in Handle, check'[h].phase = "waiting"
      PROVE  /\ check'[h] = check[h] /\ check[h].phase = "waiting" /\ check[h].run \in Run
             /\ ~\E n \in N : check[h].run = n[1] /\ n[2] \in check[h].types
  BY <1>1 DEF Wake, TypeOK, CheckCall, CheckInv
<1>2. ASSUME NEW h \in Handle, NEW r \in Run, NEW m \in Msg, check'[h].phase = "waiting",
             check'[h].run = r, m \in Unread(r)'
      PROVE  msgType'[m] \notin check'[h].types
  <2>1. CASE m \in Unread(r) /\ msgType'[m] = msgType[m]
    BY <1>1, <1>2, <2>1 DEF WaiterHasNoMail
  <2>2. CASE <<r, msgType'[m]>> \in N
    BY <1>1, <1>2, <2>2
  <2> QED BY <1>2, <2>1, <2>2 DEF Brings
<1> QED BY <1>1, <1>2, NoMailNext

\* Checks that go on waiting, and mailboxes that gain nothing where they wait.
LEMMA WaitersKept ==
  ASSUME TypeOK, CheckInv, WaiterHasNoMail,
         \A h \in Handle : check'[h].phase = "waiting" =>
           check[h].phase = "waiting" /\ check'[h] = check[h],
         \A h \in Handle, r \in Run, m \in Msg :
           check'[h].phase = "waiting" /\ check'[h].run = r /\ m \in Unread(r)' =>
             m \in Unread(r) /\ msgType'[m] = msgType[m]
  PROVE  WaiterHasNoMail'
<1>1. \A h \in Handle : check'[h].phase = "waiting" => check'[h].run \in Run
  BY DEF CheckInv
<1>2. ASSUME NEW h \in Handle, NEW r \in Run, NEW m \in Msg, check'[h].phase = "waiting",
             check'[h].run = r, m \in Unread(r)'
      PROVE  msgType'[m] \notin check'[h].types
  <2>1. m \in Unread(r) /\ msgType'[m] = msgType[m]
    BY <1>2
  <2> QED BY <1>2, <2>1 DEF WaiterHasNoMail
<1> QED BY <1>1, <1>2, NoMailNext

LEMMA WakeStep ==
  ASSUME OneHandlePerPane
  PROVE  TypeOK /\ CheckInv /\ MessageInv /\ WaiterIsConsumer /\ WaiterHasNoMail /\ [Next]_vars
           => WaiterHasNoMail'
<1> SUFFICES ASSUME TypeOK, CheckInv, MessageInv, WaiterIsConsumer, WaiterHasNoMail, [Next]_vars
             PROVE  WaiterHasNoMail'
  OBVIOUS
<1>0. \A h \in Handle : check[h] \in CheckCall
  BY DEF TypeOK
<1>1. ASSUME NEW S, Route(S), UNCHANGED <<mailVars, read>>
      PROVE  \A m \in Msg, r \in Run : m \in Unread(r)' =>
               m \in Unread(r) \/ (m \in S /\ msgRun[m] = r)
  BY <1>1 DEF Route, Unread, mailVars
<1>2. ASSUME UNCHANGED <<mailVars, box>>, read \subseteq read',
             \A h \in Handle : check'[h].phase = "waiting" =>
               check[h].phase = "waiting" /\ check'[h] = check[h]
      PROVE  WaiterHasNoMail'
  BY <1>2, WaitersKept DEF Unread, mailVars
<1>3. \A r \in Run, h \in Handle, m \in Msg :
        m \in Forsaken(h, r) => msgRun[m] \in Others(h, r)
  BY DEF Forsaken, Direct
<1>4. CASE RunStep
  <2>1. ASSUME NEW r \in Run, NEW h \in Handle, NEW S, Route(S), NEW R, CancelWaiters(R),
               UNCHANGED <<mailVars, read>>, \A m \in Msg : m \in S => msgRun[m] \in R
        PROVE  WaiterHasNoMail'
    <3>1. ASSUME NEW g \in Handle, check'[g].phase = "waiting"
          PROVE  /\ check[g].phase = "waiting" /\ check'[g] = check[g]
                 /\ check[g].run \in Run \ R
      BY <2>1, <3>1 DEF CancelWaiters, CheckInv, Idle
    <3>2. ASSUME NEW q \in Run \ R, NEW m \in Msg, m \in Unread(q)'
          PROVE  m \in Unread(q) /\ msgType'[m] = msgType[m]
      BY <2>1, <3>2, <1>1 DEF mailVars
    <3> QED BY <3>1, <3>2, WaitersKept
  <2>2. ASSUME NEW r \in Run, NEW h \in Handle, CreateRun(r, h) PROVE WaiterHasNoMail'
    BY <1>3, <2>1, <2>2 DEF CreateRun
  <2>3. ASSUME NEW r \in Run, NEW h \in Handle, BindRun(r, h) PROVE WaiterHasNoMail'
    <3>1. /\ Route(Forsaken(h, r) \cup Direct(r, {coordinator[r], h}))
          /\ CancelWaiters(Others(h, r) \cup {r}) /\ UNCHANGED <<mailVars, read>>
      BY <2>3 DEF BindRun
    <3>2. \A m \in Msg : m \in Forsaken(h, r) \cup Direct(r, {coordinator[r], h}) =>
            msgRun[m] \in Others(h, r) \cup {r}
      BY <1>3 DEF Direct
    <3> QED BY <3>1, <3>2, <2>1
  <2>4. ASSUME NEW r \in Run, NEW h \in Handle, Assign(r, h) PROVE WaiterHasNoMail'
    BY <1>2, <2>4 DEF Assign
  <2> QED BY <1>4, <2>2, <2>3, <2>4 DEF RunStep
<1>5. CASE MailStep
  <2>1. ASSUME NEW m, NEW r \in Run, NEW ty, Insert(m, r, ty)
        PROVE  /\ m \in Msg /\ msgRun'[m] = r /\ msgType'[m] = ty
               /\ \A k \in Msg \ {m} : msgRun'[k] = msgRun[k] /\ msgType'[k] = msgType[k]
    BY <2>1 DEF Insert, TypeOK, Msg
  <2>2. ASSUME NEW r \in Run, NEW a \in Handle \cup {"run"}, NEW ty \in Type, Send(r, a, ty)
        PROVE  WaiterHasNoMail'
    <3> DEFINE moved == IF Triggered(r, a) THEN {} ELSE Forwardable(a)
               toRun == Triggered(r, a) \/ (Bound(a, r) /\ a \notin assigned[r])
    <3>1. PICK m \in Msg : m = sent + 1 /\ Insert(m, r, ty)
      BY <2>1, <2>2 DEF Send
    <3>2. PICK H : /\ read' = read \cup H
                   /\ box' = [k \in Msg |-> IF k = m THEN IF toRun THEN "run" ELSE a
                                            ELSE IF k \in moved \ H THEN "run" ELSE box[k]]
                   /\ Wake({ <<msgRun[k], msgType[k]>> : k \in moved \ H }
                           \cup (IF toRun \/ Bound(a, r) THEN {<<r, ty>>} ELSE {}))
      BY <2>2, <3>1 DEF Send
    <3>3. PICK N : N = { <<msgRun[k], msgType[k]>> : k \in moved \ H }
                       \cup (IF toRun \/ Bound(a, r) THEN {<<r, ty>>} ELSE {})
      OBVIOUS
    <3>4. a = "run" => toRun
      BY DEF Triggered
    <3>5. ASSUME NEW k \in Msg, NEW q \in Run, k \in Unread(q)'
          PROVE  (k \in Unread(q) /\ msgType'[k] = msgType[k]) \/ <<q, msgType'[k]>> \in N
      <4>0. k \notin read' /\ msgRun'[k] = q /\ box'[k] = "run"
        BY <3>5 DEF Unread
      <4>1. CASE k = m
        <5>1. toRun /\ q = r /\ msgType'[k] = ty
          BY <4>0, <4>1, <3>1, <3>2, <3>4, <2>1
        <5> QED BY <5>1, <3>3
      <4>2. CASE k # m
        <5>1. msgRun[k] = q /\ msgType'[k] = msgType[k]
          BY <4>0, <4>2, <3>1, <2>1
        <5>2. CASE k \in moved \ H
          BY <5>1, <5>2, <3>3
        <5>3. CASE k \notin moved \ H
          BY <5>1, <5>3, <4>0, <4>2, <3>2 DEF Unread
        <5> QED BY <5>2, <5>3
      <4> QED BY <4>1, <4>2
    <3>6. Brings(N)
      BY <3>5 DEF Brings
    <3> QED BY <3>2, <3>3, <3>6, WakeEnough
  <2>3. ASSUME NEW r \in Run, NEW a, SendLateHeartbeat(r, a) PROVE WaiterHasNoMail'
    <3>1. PICK m \in Msg : m = sent + 1 /\ Insert(m, r, "heartbeat")
      BY <2>1, <2>3 DEF SendLateHeartbeat
    <3>2. m \in read' /\ read \subseteq read' /\ check' = check
          /\ \A k \in Msg \ {m} : box'[k] = box[k]
      BY <2>3, <3>1 DEF SendLateHeartbeat, TypeOK
    <3>3. \A k \in Msg \ {m} : msgRun'[k] = msgRun[k] /\ msgType'[k] = msgType[k]
      BY <2>1, <3>1
    <3> QED BY <3>2, <3>3, WaitersKept DEF Unread
  <2>4. ASSUME NEW h \in Handle, Forward(h) PROVE WaiterHasNoMail'
    <3>1. PICK N : N = { <<msgRun[k], msgType[k]>> : k \in Forwardable(h) }
      OBVIOUS
    <3>2. Route(Forwardable(h)) /\ UNCHANGED <<mailVars, read>> /\ Wake(N)
      BY <2>4, <3>1 DEF Forward
    <3>3. Brings(N)
      BY <1>1, <3>1, <3>2 DEF Brings, mailVars
    <3> QED BY <3>2, <3>3, WakeEnough
  <2>5. ASSUME NEW h \in Handle, CheckDirect(h) PROVE WaiterHasNoMail'
    BY <1>2, <2>5 DEF CheckDirect
  <2>6. ASSUME NEW m \in Msg, Reply(m) PROVE WaiterHasNoMail'
    BY <1>2, <2>6 DEF Reply
  <2> QED BY <1>5, <2>2, <2>3, <2>4, <2>5, <2>6 DEF MailStep
<1>6. ASSUME NEW h \in Handle, CheckStep(h) PROVE WaiterHasNoMail'
  <2>1. ASSUME NEW r \in Run, CheckBegin(h, r) PROVE WaiterHasNoMail'
    <3>1. ASSUME NEW g \in Handle, check'[g].phase = "waiting"
          PROVE  /\ check[g].phase = "waiting" /\ check'[g] = check[g]
                 /\ check[g].run \in Run \ {r}
      <4>1. g # h /\ check'[g] = check[g]
        BY <2>1, <3>1 DEF CheckBegin, TypeOK
      <4>2. Bound(g, check[g].run)
        BY <3>1, <4>1 DEF WaiterIsConsumer, Current
      <4>3. check[g].run # r
        BY <2>1, <4>1, <4>2 DEF CheckBegin, Bound, OneHandlePerPane
      <4> QED BY <3>1, <4>1, <4>3 DEF CheckInv
    <3>2. ASSUME NEW q \in Run \ {r}, NEW m \in Msg, m \in Unread(q)'
          PROVE  m \in Unread(q) /\ msgType'[m] = msgType[m]
      <4>1. Route(Direct(r, {h, coordinator[r]})) /\ UNCHANGED <<mailVars, read>>
        BY <2>1 DEF CheckBegin
      <4>2. \A k \in Direct(r, {h, coordinator[r]}) : msgRun[k] = r
        BY DEF Direct
      <4> QED BY <3>2, <4>1, <4>2, <1>1 DEF mailVars
    <3> QED BY <3>1, <3>2, WaitersKept
  <2>2. \A A \in Ack(h) : read \subseteq ReadWith(A)
    BY DEF ReadWith
  <2>3. ASSUME NEW A \in Ack(h), NEW wanted, CheckNothing(h, A, wanted) PROVE WaiterHasNoMail'
    <3>1. CASE check' = [check EXCEPT ![h] = Idle]
      BY <1>2, <2>2, <2>3, <3>1 DEF CheckNothing, Idle, TypeOK
    <3>2. CASE check' = [check EXCEPT ![h] =
                 [phase |-> "waiting", run |-> check[h].run, gen |-> @.gen, types |-> wanted]]
      <4>1. ASSUME NEW g \in Handle, NEW r \in Run, NEW m \in Msg, check'[g].phase = "waiting",
                   check'[g].run = r, m \in Unread(r)'
            PROVE  msgType'[m] \notin check'[g].types
        <5>1. m \in Unread(r) \ ReadWith(A) /\ msgType'[m] = msgType[m]
          BY <4>1, <2>3, <2>2 DEF CheckNothing, Unread, mailVars
        <5>2. CASE g = h
          BY <5>1, <5>2, <4>1, <2>3, <3>2 DEF CheckNothing, TypeOK
        <5>3. CASE g # h
          <6>1. check'[g] = check[g]
            BY <3>2, <5>3 DEF TypeOK
          <6> QED BY <4>1, <5>1, <6>1 DEF WaiterHasNoMail
        <5> QED BY <5>2, <5>3
      <4>2. \A g \in Handle : check'[g].phase = "waiting" => check'[g].run \in Run
        BY <2>3, <3>2 DEF CheckNothing, CheckInv, TypeOK
      <4> QED BY <4>1, <4>2, NoMailNext
    <3> QED BY <2>3, <3>1, <3>2 DEF CheckNothing
  <2>4. CASE \/ \E A \in Ack(h) : CheckRead(h, A) \/ CheckShow(h, A)
             \/ CheckWoken(h) \/ CheckEnds(h)
    <3>1. check' = [check EXCEPT ![h] = Idle] /\ UNCHANGED <<mailVars, box>>
      BY <2>4 DEF CheckRead, CheckShow, CheckWoken, CheckEnds
    <3>2. read \subseteq read'
      BY <2>2, <2>4 DEF CheckRead, CheckShow, CheckWoken, CheckEnds, Replay, Lease
    <3> QED BY <1>2, <3>1, <3>2 DEF Idle, TypeOK
  <2> QED BY <1>6, <2>1, <2>3, <2>4 DEF CheckStep
<1>7. CASE Crash
  BY <1>2, <1>7 DEF Crash, Idle
<1>8. CASE UNCHANGED vars
  BY <1>2, <1>8 DEF vars, mailVars
<1> QED BY <1>4, <1>5, <1>6, <1>7, <1>8 DEF Next

\* A check that waits is woken by the first mail it waits for, in whichever of
\* the ways mail reaches a Run's mailbox.
THEOREM NoWakeupIsLost ==
  ASSUME OneHandlePerPane
  PROVE  Spec => []WaiterHasNoMail
<1>1. Init => WaiterHasNoMail
  BY DEF Init, WaiterHasNoMail, Idle
<1>2. TypeOK /\ CheckInv /\ MessageInv /\ WaiterIsConsumer /\ WaiterHasNoMail /\ [Next]_vars
        => WaiterHasNoMail'
  BY WakeStep
<1> QED BY <1>1, <1>2, WaiterIsTheConsumer, DeliveriesAreSound, PTL DEF Spec

-----------------------------------------------------------------------------
(***************************************************************************)
(* What is leased stays unread until it is acknowledged.  It needs that    *)
(* nothing else reads mail of a Run's mailbox: no reply to a leased        *)
(* message, and no heartbeat that a later worker_done suppresses.          *)
(***************************************************************************)
OnlyAcksRead == "reply" \notin Ops /\ ~{"heartbeat", "worker_done"} \subseteq Type

\* The mail of the deliveries outstanding in st is in its Run's mailbox, and
\* none of it is in rd.
LeasesUnread(rd, st) ==
  \A d \in Delivery : st[d] = "outstanding" =>
    \A m \in dMsgs[d] : msgRun[m] = dRun[d] /\ box[m] = "run" /\ m \notin rd

LEMMA UnreadLeases == TypeOK => (LeaseIsUnread <=> LeasesUnread(read, dStatus))
  BY DEF LeaseIsUnread, LeasesUnread, Unread, TypeOK

\* An acknowledgment reads the mail of its own Delivery only.
LEMMA AckApart ==
  ASSUME TypeOK, LeaseInv, LeaseIsUnread, NEW h \in Handle, NEW A \in Ack(h),
         \A a \in A : Acceptable(h, a)
  PROVE  LeasesUnread(ReadWith(A), StatusWith(A))
<1> SUFFICES ASSUME NEW d \in Delivery, StatusWith(A)[d] = "outstanding", NEW m \in dMsgs[d]
             PROVE  msgRun[m] = dRun[d] /\ box[m] = "run" /\ m \notin ReadWith(A)
  BY DEF LeasesUnread
<1>1. d \notin A /\ dStatus[d] = "outstanding"
  BY DEF StatusWith
<1>2. msgRun[m] = dRun[d] /\ box[m] = "run" /\ m \notin read
  BY <1>1, UnreadLeases DEF LeasesUnread
<1>3. ASSUME NEW a \in A, dStatus[a] = "outstanding", m \in dMsgs[a] PROVE FALSE
  <2>1. a \in Delivery
    BY DEF Ack, TypeOK
  <2>2. msgRun[m] = dRun[a]
    BY <1>3, <2>1, UnreadLeases DEF LeasesUnread
  <2>3. a = d
    BY <1>1, <1>2, <1>3, <2>1, <2>2 DEF LeaseInv, LeaseIsCurrent
  <2> QED BY <1>1, <2>3
<1> QED BY <1>2, <1>3 DEF ReadWith

\* A step that leaves mail where it is, or moves it to a Run's mailbox, and
\* reads none that is still leased.
LEMMA UnreadKept ==
  ASSUME TypeOK, TypeOK', LeasesUnread(read', dStatus'), UNCHANGED <<dRun, dMsgs>>,
         \A d \in Delivery : dStatus'[d] = "outstanding" => \A m \in dMsgs[d] :
           msgRun'[m] = msgRun[m] /\ (box[m] = "run" => box'[m] = "run")
  PROVE  LeaseIsUnread'
  BY DEF LeasesUnread, LeaseIsUnread, Unread, TypeOK

\* The outcome of a check that returns a Delivery.
LEMMA UnreadReturned ==
  ASSUME TypeOK, TypeOK', NEW h \in Handle, NEW d \in Delivery, NEW r \in Run, NEW rd, NEW st,
         NEW wanted, LeasesUnread(rd, st), UNCHANGED <<msgRun, box>>,
         Replay(h, d, r, rd, st) \/ Lease(h, d, r, rd, st, wanted),
         DOMAIN st = Delivery
  PROVE  LeaseIsUnread'
<1>1. CASE Replay(h, d, r, rd, st)
  BY <1>1, UnreadKept DEF Replay
<1>2. CASE Lease(h, d, r, rd, st, wanted)
  <2>1. /\ read' = rd /\ dRun'[d] = r /\ dMsgs'[d] \subseteq Unread(r) \ rd
        /\ \A e \in Delivery \ {d} : /\ dRun'[e] = dRun[e] /\ dMsgs'[e] = dMsgs[e]
                                     /\ dStatus'[e] = st[e]
    BY <1>2 DEF Lease, Batch, TypeOK
  <2>2. ASSUME NEW e \in Delivery, dStatus'[e] = "outstanding", NEW m \in dMsgs'[e]
        PROVE  m \in Msg /\ msgRun[m] = dRun'[e] /\ box[m] = "run" /\ m \notin read'
    <3>1. CASE e = d
      BY <2>1, <2>2, <3>1 DEF Unread
    <3>2. CASE e # d
      BY <2>1, <2>2, <3>2 DEF LeasesUnread, TypeOK
    <3> QED BY <3>1, <3>2
  <2> QED BY <2>2 DEF LeaseIsUnread, Unread
<1> QED BY <1>1, <1>2

LEMMA UnreadStep ==
  ASSUME OnlyAcksRead
  PROVE  TypeOK /\ LeaseInv /\ MessageInv /\ CheckInv /\ LeaseIsUnread /\ [Next]_vars
           => LeaseIsUnread'
<1> SUFFICES ASSUME TypeOK, LeaseInv, MessageInv, CheckInv, LeaseIsUnread, [Next]_vars
             PROVE  LeaseIsUnread'
  OBVIOUS
<1>0. TypeOK' /\ LeasesUnread(read, dStatus)
  BY TypeStep, UnreadLeases
<1>1. ASSUME UNCHANGED <<dRun, dMsgs, msgRun, read>>, \A m \in Msg : box[m] = "run" => box'[m] = "run",
             \A d \in Delivery : dStatus'[d] \in {dStatus[d], "fenced"}
      PROVE  LeaseIsUnread'
  BY <1>0, <1>1, UnreadKept DEF LeasesUnread, TypeOK
<1>2. ASSUME NEW S, Route(S) PROVE \A m \in Msg : box[m] = "run" => box'[m] = "run"
  BY <1>2 DEF Route
<1>3. CASE RunStep
  <2>1. ASSUME NEW R, Fence(R) PROVE \A d \in Delivery : dStatus'[d] \in {dStatus[d], "fenced"}
    BY <2>1 DEF Fence
  <2>2. ASSUME NEW r \in Run, NEW h \in Handle, CreateRun(r, h) PROVE LeaseIsUnread'
    BY <1>1, <1>2, <2>1, <2>2 DEF CreateRun, mailVars
  <2>3. ASSUME NEW r \in Run, NEW h \in Handle, BindRun(r, h) PROVE LeaseIsUnread'
    <3>1. PICK R, S : Fence(R) /\ Route(S)
      BY <2>3 DEF BindRun
    <3> QED BY <1>1, <1>2, <2>1, <2>3, <3>1 DEF BindRun, mailVars
  <2>4. ASSUME NEW r \in Run, NEW h \in Handle, Assign(r, h) PROVE LeaseIsUnread'
    BY <1>1, <2>4 DEF Assign, mailVars, deliveryVars
  <2> QED BY <1>3, <2>2, <2>3, <2>4 DEF RunStep
<1>4. CASE MailStep
  <2>1. ASSUME NEW m, NEW r \in Run, NEW ty, Insert(m, r, ty), UNCHANGED deliveryVars,
               \A k \in Msg \ {m} : box[k] = "run" => box'[k] = "run", read' \subseteq read \cup {m}
        PROVE  LeaseIsUnread'
    <3>1. m \in Msg /\ msgRun[m] = NoRun /\ \A k \in Msg \ {m} : msgRun'[k] = msgRun[k]
      BY <2>1 DEF Insert, MessageInv, TypeOK, Msg
    <3>2. \A d \in Delivery : dStatus[d] = "outstanding" => m \notin dMsgs[d]
      BY <3>1, RunMailboxAssumption DEF LeaseInv, DeliveryInv
    <3>3. LeasesUnread(read', dStatus')
      BY <1>0, <2>1, <3>2 DEF LeasesUnread, deliveryVars
    <3> QED BY <1>0, <2>1, <3>1, <3>2, <3>3, UnreadKept DEF deliveryVars, TypeOK
  <2>2. ASSUME NEW r \in Run, NEW a \in Handle \cup {"run"}, NEW ty \in Type, Send(r, a, ty)
        PROVE  LeaseIsUnread'
    <3>1. PICK H \in SUBSET Heartbeats(r, Entry(r, a)) :
            /\ ty # "worker_done" => H = {}
            /\ read' = read \cup H
            /\ \A k \in Msg \ {sent + 1} : box[k] = "run" => box'[k] = "run"
      BY <2>2 DEF Send
    <3>2. H = {}
      BY <3>1 DEF OnlyAcksRead, Heartbeats, TypeOK
    <3> QED BY <2>1, <2>2, <3>1, <3>2 DEF Send
  <2>3. ASSUME NEW r \in Run, NEW a, SendLateHeartbeat(r, a) PROVE LeaseIsUnread'
    BY <2>1, <2>3 DEF SendLateHeartbeat, TypeOK
  <2>4. ASSUME NEW h \in Handle, Forward(h) PROVE LeaseIsUnread'
    BY <1>1, <1>2, <2>4 DEF Forward, mailVars, deliveryVars
  <2>5. ASSUME NEW h \in Handle, CheckDirect(h) PROVE LeaseIsUnread'
    <3>1. \A m \in read' \ read : box[m] = h
      BY <2>5 DEF CheckDirect
    <3>2. h # "run"
      BY RunMailboxAssumption
    <3>3. LeasesUnread(read', dStatus')
      BY <1>0, <2>5, <3>1, <3>2 DEF CheckDirect, LeasesUnread, deliveryVars
    <3> QED BY <1>0, <2>5, <3>3, UnreadKept DEF CheckDirect, mailVars, deliveryVars
  <2>6. ASSUME NEW m \in Msg, Reply(m) PROVE LeaseIsUnread'
    BY <2>6 DEF Reply, OnlyAcksRead
  <2> QED BY <1>4, <2>2, <2>3, <2>4, <2>5, <2>6 DEF MailStep
<1>5. ASSUME NEW h \in Handle, CheckStep(h) PROVE LeaseIsUnread'
  <2>1. ASSUME NEW r \in Run, CheckBegin(h, r) PROVE LeaseIsUnread'
    BY <1>1, <1>2, <2>1 DEF CheckBegin, mailVars, deliveryVars
  <2>2. CASE CheckEnds(h)
    BY <1>1, <2>2 DEF CheckEnds, mailVars, deliveryVars
  <2>3. ASSUME NEW A \in Ack(h), CheckShow(h, A) \/ \E wanted : CheckNothing(h, A, wanted)
        PROVE  LeaseIsUnread'
    <3>1. LeasesUnread(read', dStatus')
      BY <2>3, AckApart DEF CheckShow, CheckNothing
    <3> QED BY <1>0, <2>3, <3>1, UnreadKept DEF CheckShow, CheckNothing, mailVars
  <2>4. ASSUME NEW A \in Ack(h), CheckRead(h, A) PROVE LeaseIsUnread'
    <3>1. LeasesUnread(ReadWith(A), StatusWith(A)) /\ check[h].run \in Run
      BY <2>4, AckApart DEF CheckRead, CheckInv
    <3>2. PICK d \in Delivery :
            \/ Replay(h, d, check[h].run, ReadWith(A), StatusWith(A))
            \/ Lease(h, d, check[h].run, ReadWith(A), StatusWith(A), Type)
      BY <2>4 DEF CheckRead
    <3>3. UNCHANGED <<msgRun, box>> /\ DOMAIN StatusWith(A) = Delivery
      BY <2>4 DEF CheckRead, mailVars, StatusWith
    <3> QED BY <1>0, <3>1, <3>2, <3>3, UnreadReturned
  <2>5. CASE CheckWoken(h)
    <3>1. check[h].run \in Run /\ UNCHANGED <<msgRun, box>> /\ DOMAIN dStatus = Delivery
      BY <2>5 DEF CheckWoken, CheckInv, mailVars, TypeOK
    <3>2. CASE UNCHANGED <<read, deliveryVars, received, seen>>
      BY <1>1, <3>1, <3>2 DEF deliveryVars
    <3>3. ASSUME NEW d \in Delivery,
                 \/ Replay(h, d, check[h].run, read, dStatus)
                 \/ Lease(h, d, check[h].run, read, dStatus, check[h].types)
          PROVE  LeaseIsUnread'
      BY <1>0, <3>1, <3>3, UnreadReturned
    <3> QED BY <2>5, <3>2, <3>3 DEF CheckWoken
  <2> QED BY <1>5, <2>1, <2>2, <2>3, <2>4, <2>5 DEF CheckStep
<1>6. CASE Crash \/ UNCHANGED vars
  BY <1>1, <1>6 DEF Crash, vars, mailVars, deliveryVars
<1> QED BY <1>3, <1>4, <1>5, <1>6 DEF Next

\* The Delivery a consumer may replay holds no mail that something else has
\* read in the meantime, through takeovers, routing and crashes.
THEOREM LeasedIsUnread ==
  ASSUME OnlyAcksRead
  PROVE  Spec => []LeaseIsUnread
<1>1. Init => LeaseIsUnread
  BY DEF Init, LeaseIsUnread
<1>2. TypeOK /\ LeaseInv /\ MessageInv /\ CheckInv /\ LeaseIsUnread /\ [Next]_vars => LeaseIsUnread'
  BY UnreadStep
<1> QED BY <1>1, <1>2, DeliveriesAreSound, PTL DEF Spec
=============================================================================
